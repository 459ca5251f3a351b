----------------------------- MODULE DpPortProofs -----------------------------
(***************************************************************************)
(* Proofs about DpPort, for any sinks, source and bounds.                  *)
(*                                                                         *)
(* Main link, PHY and the two sides of the port are written from many      *)
(* places.  What ties them together: the commit and a detection exclude    *)
(* each other, so the side a commit has chosen stays the detected one; and *)
(* an interrupt that moves the PHY to the DP driver comes only from a sink *)
(* that has been detected since it was plugged, or not answered at all.    *)
(***************************************************************************)
EXTENDS DpPort, TLAPS

SomeLinks == P!Links \cup {NoLink}
AnyLink == [lanes : {0} \cup P!LaneCounts, rate : {0} \cup P!Rates]

(* conn_mutex: no detection of the monitor while the commit has it; the     *)
(* side that was chosen is still the detected one.                          *)
Exclusive ==
  /\ work = "monitor" => disp = "idle"
  /\ disp # "idle" => (bDPMode <=> DPEphyMode = "DP")
  /\ disp \in {"switchOff", "dark"} => PowerState = "on"

(* DPEphyMode and the kind of the monitor are set together.                 *)
SideOfMonitor ==
  /\ DPEphyMode = "DP" <=> monitor = "DP"
  /\ DPEphyMode = "TMDS" <=> monitor = "HDMI"
  /\ found => DPEphyMode # "none"
  /\ bIsSrcChanged => DPEphyMode # "none"

(* Only the detected side sends, and only from on to off.                   *)
SendsOneSide ==
  ~swapped => /\ video => DPEphyMode = "DP"
              /\ hdmi => DPEphyMode = "TMDS"
              /\ video \/ hdmi => PowerState = "on" \/ disp = "lit"
              /\ disp = "dark" => ~video /\ ~hdmi

(* The sink on a port was found by the last detection, and it is HDMI.      *)
FoundHdmi == found /\ ~unseen /\ DPEphyMode = "TMDS"

(* A sink that is awake or locked is a DP sink.                             *)
LinkIsOfSink ==
  /\ awake => Speaks
  /\ locked # NoLink => Speaks

(* A short pulse is handled only if the last detection did not find HDMI.   *)
PulseIsDp ==
  /\ hpd = "irq" => Speaks
  /\ work = "idle" /\ Speaks /\ hpd # "in" => ~FoundHdmi
  /\ work = "irq" => ~FoundHdmi

(* The PHY drives the side that was found, except within a detection and,   *)
(* for DP, while the port is off.                                           *)
PhyOfSide ==
  found /\ ~unseen /\ work \in {"idle", "in", "irq"} =>
    /\ sel = DPEphyMode
    /\ DPEphyMode = "TMDS" => driver = "TMDS"
    /\ DPEphyMode = "DP" /\ ((PowerState = "on" /\ disp # "dark") \/ disp = "lit")
         => driver = "DP"

IInv == /\ TypeOK /\ MainLinkIsLocked /\ Exclusive /\ SideOfMonitor /\ SendsOneSide
        /\ LinkIsOfSink /\ PulseIsDp /\ PhyOfSide

-------------------------------------------------------------------------------
LEMMA LinkFacts ==
  /\ NoLink = [lanes |-> 0, rate |-> 0]
  /\ NoLink \in AnyLink /\ P!Links \subseteq AnyLink
  /\ \A l \in P!Links : \A r \in P!Rates : [lanes |-> l.lanes, rate |-> r] \in AnyLink
  /\ \A r \in P!Rates : [lanes |-> NoLink.lanes, rate |-> r] \in AnyLink
BY DEF P!Links, P!NoLink, P!LaneCounts, P!Rates, NoLink, AnyLink

LEMMA LeastLinkType ==
  ASSUME NEW a \in AnyLink, NEW b \in AnyLink
  PROVE  LeastLink(a, b) \in AnyLink
BY DEF LeastLink, AnyLink, P!LaneCounts, P!Rates

(* What a training may ask for.                                             *)
LEMMA AskedType ==
  ASSUME TypeOK, NEW max \in SomeLinks
  PROVE  /\ DetermineLinkTrainingPara(max) \subseteq AnyLink
         /\ AutoTestDpcdData \subseteq AnyLink
<1>1. SourceMax \in AnyLink /\ max \in AnyLink /\ use \in AnyLink /\ TestLinks \subseteq AnyLink
  BY LinkFacts, SinksAssumption DEF TypeOK, SomeLinks, AnyLink
<1>2. \A r \in P!Rates : [lanes |-> max.lanes, rate |-> r] \in AnyLink
  BY LinkFacts DEF SomeLinks
<1>. QED
  BY <1>1, <1>2, LeastLinkType DEF DetermineLinkTrainingPara, AutoTestDpcdData

(* The types of what a training changes.                                    *)
LinkTypes ==
  /\ use \in AnyLink /\ auxBusy \in BOOLEAN /\ timing \in 0..2 /\ halved \in 0..2
  /\ main \in SomeLinks /\ locked \in SomeLinks /\ tested \in BOOLEAN
  /\ faults \in 0..MaxFaults

LEMMA TypeParts ==
  ASSUME TypeOK
  PROVE  LinkTypes /\ sinkMax \in SomeLinks
BY Zenon DEF TypeOK, AnyLink, SomeLinks, LinkTypes

(* A training and what its callers do with the main link afterwards: three  *)
(* set it up after a success, an automated test leaves it.                  *)
TrainAndSetUp(max, able, spent) ==
  \E ok \in BOOLEAN : /\ LinkTraining(FALSE, ok, max, able, spent)
                      /\ IF ok THEN SetUpMainLink ELSE KeepMainLink

TrainForTest(max, able, spent) ==
  /\ \E ok \in BOOLEAN : LinkTraining(TRUE, ok, max, able, spent)
  /\ KeepMainLink

(* What a training alone does: a success leaves a link in use, a failure no *)
(* link, and a training that was skipped changes nothing.                   *)
LEMMA TrainingEnds ==
  ASSUME TypeOK, NEW auto \in BOOLEAN, NEW ok \in BOOLEAN, NEW max \in SomeLinks, NEW able,
         NEW spent \in Nat, LinkTraining(auto, ok, max, able, spent)
  PROVE  /\ use' \in AnyLink /\ auxBusy' \in BOOLEAN /\ locked' \in SomeLinks
         /\ tested' \in BOOLEAN /\ faults' \in 0..MaxFaults
         /\ ok => use' \in P!Links /\ locked' \in {use', NoLink} /\ tested' = auto
         /\ ~ok => \/ UNCHANGED <<locked, tested>>
                   \/ locked' = NoLink /\ tested' = auto
<1>. USE TypeParts, LinkFacts DEF LinkTypes
<1>1. faults' \in 0..MaxFaults
  BY BoundsAssumption DEF LinkTraining, TypeOK
<1>2. CASE auxBusy
  <2>1. ~ok /\ UNCHANGED <<use, auxBusy, locked, tested>>
    BY <1>2 DEF LinkTraining
  <2>. QED
    BY <1>1, <2>1
<1>3. CASE ~auxBusy
  <2>1. PICK asked \in IF auto THEN AutoTestDpcdData ELSE DetermineLinkTrainingPara(max) :
          \/ ok /\ \E given \in P!Links : Trained(asked, given, auto)
          \/ ~ok /\ Trained(asked, NoLink, auto)
    BY <1>3 DEF LinkTraining, LinksUpTo
  <2>2. asked \in AnyLink
    BY <2>1, AskedType
  <2>3. CASE ok
    <3>1. PICK given \in P!Links : Trained(asked, given, auto)
      BY <2>1, <2>3
    <3>2. given # NoLink
      BY DEF P!Links, P!LaneCounts, P!Rates
    <3>3. use' = given /\ (locked' = given \/ locked' = NoLink)
      BY <3>1, <3>2 DEF Trained
    <3>4. tested' = auto /\ auxBusy' = FALSE
      BY <3>1, Zenon DEF Trained
    <3>. QED
      BY <1>1, <2>3, <3>3, <3>4, Zenon DEF SomeLinks
  <2>4. CASE ~ok
    <3>1. use' = asked /\ locked' = NoLink
      BY <2>1, <2>4 DEF Trained
    <3>2. tested' = auto /\ auxBusy' = FALSE
      BY <2>1, <2>4, Zenon DEF Trained
    <3>. QED
      BY <1>1, <2>2, <2>4, <3>1, <3>2, Zenon DEF SomeLinks
  <2>. QED
    BY <2>3, <2>4
<1>. QED
  BY <1>2, <1>3

(* A training keeps the types, and its caller makes the main link follow.   *)
LEMMA LinkTrainingKeeps ==
  ASSUME TypeOK, MainLinkIsLocked, NEW max \in SomeLinks, NEW able, NEW spent \in Nat,
         TrainAndSetUp(max, able, spent)
  PROVE  LinkTypes' /\ MainLinkIsLocked'
<1>1. PICK ok \in BOOLEAN : /\ LinkTraining(FALSE, ok, max, able, spent)
                            /\ IF ok THEN SetUpMainLink ELSE KeepMainLink
  BY Zenon DEF TrainAndSetUp
<1>2. /\ use' \in AnyLink /\ auxBusy' \in BOOLEAN /\ locked' \in SomeLinks
      /\ tested' \in BOOLEAN /\ faults' \in 0..MaxFaults
      /\ ok => use' \in P!Links /\ locked' \in {use', NoLink} /\ tested' = FALSE
      /\ ~ok => \/ UNCHANGED <<locked, tested>>
                \/ locked' = NoLink /\ tested' = FALSE
  BY <1>1, TrainingEnds
<1>3. CASE ok
  <2>1. main' = use' /\ timing' \in 0..2 /\ halved' \in 0..2
    BY <1>1, <1>3, TypeParts DEF SetUpMainLink, LinkTypes
  <2>2. main' \in SomeLinks /\ (locked' # NoLink => main' = locked')
    BY <1>2, <1>3, <2>1 DEF SomeLinks
  <2>. QED
    BY <1>2, <2>1, <2>2, Zenon DEF LinkTypes, MainLinkIsLocked
<1>4. CASE ~ok
  <2>1. UNCHANGED <<timing, main, halved>>
    BY <1>1, <1>4 DEF KeepMainLink, main_vars
  <2>2. timing' \in 0..2 /\ halved' \in 0..2 /\ main' \in SomeLinks
    BY <2>1, TypeParts DEF LinkTypes
  <2>3. CASE UNCHANGED <<locked, tested>>
    <3>1. MainLinkIsLocked'
      BY <2>1, <2>3 DEF MainLinkIsLocked
    <3>. QED
      BY <1>2, <2>2, <3>1, Zenon DEF LinkTypes
  <2>4. CASE locked' = NoLink
    BY <1>2, <2>2, <2>4, Zenon DEF LinkTypes, MainLinkIsLocked
  <2>. QED
    BY <1>2, <1>4, <2>3, <2>4
<1>. QED
  BY <1>3, <1>4

(* The test leaves the main link behind, which MainLinkIsLocked excepts.    *)
LEMMA TestTrainingKeeps ==
  ASSUME TypeOK, MainLinkIsLocked, NEW max \in SomeLinks, NEW able, NEW spent \in Nat,
         TrainForTest(max, able, spent)
  PROVE  LinkTypes' /\ MainLinkIsLocked'
<1>1. PICK ok \in BOOLEAN : LinkTraining(TRUE, ok, max, able, spent)
  BY Zenon DEF TrainForTest
<1>2. /\ use' \in AnyLink /\ auxBusy' \in BOOLEAN /\ locked' \in SomeLinks
      /\ tested' \in BOOLEAN /\ faults' \in 0..MaxFaults
      /\ UNCHANGED <<locked, tested>> \/ tested' = TRUE
  BY <1>1, TrainingEnds
<1>3. UNCHANGED <<timing, main, halved>>
  BY DEF TrainForTest, KeepMainLink, main_vars
<1>4. timing' \in 0..2 /\ halved' \in 0..2 /\ main' \in SomeLinks
  BY <1>3, TypeParts DEF LinkTypes
<1>5. CASE UNCHANGED <<locked, tested>>
  <2>1. MainLinkIsLocked'
    BY <1>3, <1>5 DEF MainLinkIsLocked
  <2>. QED
    BY <1>2, <1>4, <2>1, Zenon DEF LinkTypes
<1>6. CASE tested' = TRUE
  BY <1>2, <1>4, <1>6, Zenon DEF LinkTypes, MainLinkIsLocked
<1>. QED
  BY <1>2, <1>5, <1>6

-------------------------------------------------------------------------------
(* TypeOK, one variable at a time: the truth values, and the others.        *)
Truths ==
  /\ bDualMode \in BOOLEAN /\ bIsSrcChanged \in BOOLEAN
  /\ bInterlace \in BOOLEAN /\ video \in BOOLEAN /\ hdmi \in BOOLEAN /\ bDPMode \in BOOLEAN
  /\ awake \in BOOLEAN /\ found \in BOOLEAN /\ unseen \in BOOLEAN /\ swapped \in BOOLEAN

Places ==
  /\ DPEphyMode \in {"none", "DP", "TMDS"} /\ monitor \in {"none", "DP", "HDMI"}
  /\ PowerState \in {"invalid", "on", "off"}
  /\ driver \in {"DP", "TMDS"} /\ sel \in {"DP", "TMDS"} /\ Mode \in {"DP", "TMDS"}
  /\ disp \in {"idle", "mode", "on", "switchOn", "lit", "switchOff", "dark"}
  /\ work \in {"idle", "in", "irq", "plug", "monitor"}
  /\ sink \in DpSinks \cup HdmiSinks \cup {NoSink} /\ edid \in DpSinks \cup HdmiSinks \cup {NoSink}
  /\ hpd \in {"none", "in", "out", "irq"} /\ asks \in {"none", "edid", "training", "pattern"}

Numbers ==
  /\ board \in Boards /\ sinkMax \in SomeLinks
  /\ plugs \in 0..MaxPlugs /\ switches \in 0..MaxSwitches /\ losses \in 0..MaxLosses
  /\ tests \in 0..MaxTests

LEMMA TypeSplit == TypeOK <=> Truths /\ Places /\ Numbers /\ LinkTypes
<1>1. TypeOK => Truths
  BY Zenon DEF TypeOK, Truths
<1>2. TypeOK => Places
  BY Zenon DEF TypeOK, Places
<1>3. TypeOK => Numbers /\ LinkTypes
  BY TypeParts, Zenon DEF TypeOK, Numbers
<1>4. ASSUME Truths, Places, Numbers, LinkTypes PROVE TypeOK
  <2>1. {sinkMax, main, locked} \subseteq P!Links \cup {NoLink} /\ {timing, halved} \subseteq 0..2
    BY <1>4 DEF Numbers, LinkTypes, SomeLinks
  <2>2. {driver, sel, Mode} \subseteq {"DP", "TMDS"}
    BY <1>4 DEF Places
  <2>3. {video, hdmi, bDPMode, awake, found, unseen, tested, swapped} \subseteq BOOLEAN
    BY <1>4, Zenon DEF Truths, LinkTypes
  <2>. QED
    BY <1>4, <2>1, <2>2, <2>3, Zenon DEF TypeOK, Truths, Places, Numbers, LinkTypes, AnyLink
<1>. QED
  BY <1>1, <1>2, <1>3, <1>4

LEMMA TypeSplitPrime == TypeOK' <=> Truths' /\ Places' /\ Numbers' /\ LinkTypes'
BY TypeSplit, PTL

(* What the link is like when nobody trains.                                *)
LEMMA LinkIdle ==
  ASSUME TypeOK, MainLinkIsLocked, UNCHANGED <<use, auxBusy, timing, main, halved, tested>>,
         locked' = locked \/ locked' = NoLink, faults' \in 0..MaxFaults
  PROVE  LinkTypes' /\ MainLinkIsLocked'
BY TypeParts, Zenon DEF LinkTypes, MainLinkIsLocked, SomeLinks

(* What an automated test leaves behind.                                    *)
LEMMA TestKeeps ==
  ASSUME TypeOK, MainLinkIsLocked, HandleTestRequest
  PROVE  /\ LinkTypes' /\ MainLinkIsLocked'
         /\ asks' = "none" /\ work' \in {"plug", "idle"} /\ edid' \in {edid, sink, NoSink}
<1>1. asks' = "none" /\ work' \in {"plug", "idle"} /\ edid' \in {edid, sink, NoSink}
  BY DEF HandleTestRequest
<1>2. CASE TrainForTest(sinkMax, awake, 0) \/ TrainAndSetUp(sinkMax, awake, 0)
  BY <1>1, <1>2, LinkTrainingKeeps, TestTrainingKeeps, TypeParts
<1>3. CASE NoTraining /\ (faults' = faults \/ (faults < MaxFaults /\ faults' = faults + 1))
  <2>1. faults' \in 0..MaxFaults
    BY <1>3, BoundsAssumption, TypeParts DEF LinkTypes
  <2>2. LinkTypes' /\ MainLinkIsLocked'
    BY <1>3, <2>1, LinkIdle DEF NoTraining, main_vars
  <2>. QED
    BY <1>1, <2>2
<1>. QED
  BY <1>2, <1>3, Zenon DEF HandleTestRequest, TrainForTest, TrainAndSetUp

(* A sink that does not answer costs a fault only if it is there.           *)
LEMMA FaultsKeep ==
  ASSUME TypeOK, NotAnswered
  PROVE  faults' \in 0..MaxFaults
BY TypeParts, BoundsAssumption DEF LinkTypes, NotAnswered

(* Every action keeps the types, and the main link follows the link.        *)
LEMMA TypeStep ==
  TypeOK /\ MainLinkIsLocked /\ SideOfMonitor /\ [Next]_vars => TypeOK' /\ MainLinkIsLocked'
<1>. SUFFICES ASSUME TypeOK, MainLinkIsLocked, SideOfMonitor, [Next]_vars
              PROVE  TypeOK' /\ MainLinkIsLocked'
  OBVIOUS
<1>. USE DEF port_vars, power_vars, mode_vars, main_vars, link_vars, phy_vars, side_vars, past_vars
<1>0. Truths /\ Places /\ Numbers /\ LinkTypes
  BY TypeSplit
<1>1. faults \in 0..MaxFaults
  BY <1>0 DEF LinkTypes
<1>2. CASE SetMode
  <2>5. bInterlace' \in BOOLEAN
    BY <1>0, <1>2, BoundsAssumption DEF SetMode, Truths
  <2>1. Truths'
    BY <1>0, <1>2, <2>5, Zenon DEF SetMode, Truths
  <2>2. Places'
    BY <1>0, <1>2 DEF SetMode, Places
  <2>6. timing' \in 0..2
    BY <1>0, <1>2 DEF SetMode, LinkTypes
  <2>3. LinkTypes' /\ MainLinkIsLocked'
    BY <1>0, <1>2, <2>6, Zenon DEF SetMode, LinkTypes, MainLinkIsLocked
  <2>4. Numbers'
    BY <1>0, <1>2, BoundsAssumption DEF SetMode, Numbers
  <2>. QED
    BY <2>1, <2>2, <2>3, <2>4, TypeSplitPrime
<1>3. CASE SwitchOn
  <2>1. Truths'
    BY <1>0, <1>3, Zenon DEF SwitchOn, ChooseSide, SelectPhySource, SelectEphyMode, Truths
  <2>2. Places'
    BY <1>0, <1>3 DEF SwitchOn, ChooseSide, SelectPhySource, SelectEphyMode, Places, SideOfMonitor
  <2>3. LinkTypes' /\ MainLinkIsLocked'
    BY <1>1, <1>3, LinkIdle DEF SwitchOn, ChooseSide, SelectPhySource, SelectEphyMode
  <2>4. Numbers'
    BY <1>0, <1>3, BoundsAssumption DEF SwitchOn, ChooseSide, SelectPhySource, SelectEphyMode,
       Numbers
  <2>. QED
    BY <2>1, <2>2, <2>3, <2>4, TypeSplitPrime
<1>4. CASE SwitchOff
  <2>1. Truths'
    BY <1>0, <1>4, Zenon DEF SwitchOff, ChooseSide, SelectPhySource, SelectEphyMode, Truths
  <2>2. Places'
    BY <1>0, <1>4 DEF SwitchOff, ChooseSide, SelectPhySource, SelectEphyMode, Places, SideOfMonitor
  <2>3. LinkTypes' /\ MainLinkIsLocked'
    BY <1>1, <1>4, LinkIdle DEF SwitchOff, ChooseSide, SelectPhySource, SelectEphyMode
  <2>4. Numbers'
    BY <1>0, <1>4, BoundsAssumption DEF SwitchOff, ChooseSide, SelectPhySource, SelectEphyMode,
       Numbers
  <2>. QED
    BY <2>1, <2>2, <2>3, <2>4, TypeSplitPrime
<1>5. CASE OnMonitor
  <2>5. Speaks \in BOOLEAN /\ (monitor = "HDMI" \/ hdmi) \in BOOLEAN
    BY DEF Speaks
  <2>1. Truths'
    BY <1>0, <1>5, <2>5, Zenon DEF OnMonitor, Truths
  <2>2. Places'
    <3>1. driver' \in {"DP", "TMDS"} /\ disp' = "lit"
      BY <1>0, <1>5, Zenon DEF OnMonitor, DPModeOnOff, Places
    <3>2. UNCHANGED <<DPEphyMode, monitor, PowerState, sel, Mode, work, sink, edid, hpd, asks>>
      BY <1>5 DEF OnMonitor
    <3>. QED
      BY <1>0, <3>1, <3>2 DEF Places
  <2>3. LinkTypes' /\ MainLinkIsLocked'
    <3>1. CASE TrainAndSetUp(sinkMax, Speaks, 0)
      BY <1>0, <3>1, LinkTrainingKeeps DEF Numbers
    <3>2. CASE UNCHANGED link_vars
      BY <1>1, <3>2, LinkIdle
    <3>. QED
      BY <1>5, <3>1, <3>2, Zenon DEF OnMonitor, TrainAndSetUp
  <2>4. Numbers'
    BY <1>0, <1>5, BoundsAssumption DEF OnMonitor, Side, DPModeOnOff, Numbers
  <2>. QED
    BY <2>1, <2>2, <2>3, <2>4, TypeSplitPrime
<1>6. CASE OffMonitor
  <2>1. Truths'
    BY <1>0, <1>6, Zenon DEF OffMonitor, Side, DPModeOnOff, Truths
  <2>2. Places'
    BY <1>0, <1>6 DEF OffMonitor, Side, DPModeOnOff, Places
  <2>3. LinkTypes' /\ MainLinkIsLocked'
    BY <1>1, <1>6, LinkIdle DEF OffMonitor, Side, DPModeOnOff
  <2>4. Numbers'
    BY <1>0, <1>6, BoundsAssumption DEF OffMonitor, Side, DPModeOnOff, Numbers
  <2>. QED
    BY <2>1, <2>2, <2>3, <2>4, TypeSplitPrime
<1>7. CASE OnOffDone
  <2>1. Truths'
    BY <1>0, <1>7, Zenon DEF OnOffDone, Truths
  <2>2. Places'
    BY <1>0, <1>7 DEF OnOffDone, Places
  <2>3. LinkTypes' /\ MainLinkIsLocked'
    BY <1>1, <1>7, LinkIdle DEF OnOffDone
  <2>4. Numbers'
    BY <1>0, <1>7, BoundsAssumption DEF OnOffDone, Numbers
  <2>. QED
    BY <2>1, <2>2, <2>3, <2>4, TypeSplitPrime
<1>8. CASE GetInt
  <2>1. Truths'
    BY <1>0, <1>8, Zenon DEF GetInt, Truths
  <2>2. Places'
    BY <1>0, <1>8 DEF GetInt, Places
  <2>3. LinkTypes' /\ MainLinkIsLocked'
    BY <1>1, <1>8, LinkIdle DEF GetInt
  <2>4. Numbers'
    BY <1>0, <1>8, BoundsAssumption DEF GetInt, Numbers
  <2>. QED
    BY <2>1, <2>2, <2>3, <2>4, TypeSplitPrime
<1>9. CASE AskDetect
  <2>1. Truths'
    BY <1>0, <1>9, Zenon DEF AskDetect, Truths
  <2>2. Places'
    BY <1>0, <1>9 DEF AskDetect, Places
  <2>3. LinkTypes' /\ MainLinkIsLocked'
    BY <1>1, <1>9, LinkIdle DEF AskDetect
  <2>4. Numbers'
    BY <1>0, <1>9, BoundsAssumption DEF AskDetect, Numbers
  <2>. QED
    BY <2>1, <2>2, <2>3, <2>4, TypeSplitPrime
<1>10. CASE HandleIn
  <2>1. Truths'
    <3>1. unseen' \in BOOLEAN
      <4>1. (unseen \/ work' = "idle") \in BOOLEAN
        OBVIOUS
      <4>. QED
        BY <1>0, <1>10, <4>1, Zenon DEF HandleIn, Truths
    <3>. QED
      BY <1>0, <1>10, <3>1, Zenon DEF HandleIn, Truths
  <2>2. Places'
    <3>1. /\ work' \in {"plug", "idle"} /\ asks' \in {asks, "none"}
          /\ edid' \in {edid, sink, NoSink}
      BY <1>10, TestKeeps, Zenon DEF HandleIn
    <3>2. driver' \in {"DP", "TMDS"} /\ sel' \in {"DP", "TMDS"}
      BY <1>0, <1>10, Zenon DEF HandleIn, SelectEphyMode, Places
    <3>3. UNCHANGED <<DPEphyMode, monitor, PowerState, Mode, disp, sink, hpd>>
      BY <1>10 DEF HandleIn
    <3>. QED
      BY <1>0, <3>1, <3>2, <3>3 DEF Places
  <2>3. LinkTypes' /\ MainLinkIsLocked'
    <3>1. CASE HandleTestRequest
      BY <3>1, TestKeeps
    <3>2. CASE UNCHANGED link_vars
      BY <1>1, <3>2, LinkIdle
    <3>3. CASE NoTraining /\ (NotAnswered \/ UNCHANGED faults)
      BY <1>1, <3>3, FaultsKeep, LinkIdle DEF NoTraining
    <3>. QED
      BY <1>10, <3>1, <3>2, <3>3, Zenon DEF HandleIn
  <2>4. Numbers'
    BY <1>0, <1>10, BoundsAssumption DEF HandleIn, SelectEphyMode, Numbers
  <2>. QED
    BY <2>1, <2>2, <2>3, <2>4, TypeSplitPrime
<1>11. CASE HandleIrq
  <2>1. Truths'
    BY <1>0, <1>11, Zenon DEF HandleIrq, SelectEphyMode, Truths
  <2>2. Places'
    <3>1. /\ work' \in {"plug", "idle"} /\ asks' \in {asks, "none"}
          /\ edid' \in {edid, sink, NoSink}
      BY <1>11, TestKeeps, Zenon DEF HandleIrq
    <3>2. driver' \in {"DP", "TMDS"} /\ sel' \in {"DP", "TMDS"}
      BY <1>0, <1>11, Zenon DEF HandleIrq, SelectEphyMode, Places
    <3>3. UNCHANGED <<DPEphyMode, monitor, PowerState, Mode, disp, sink, hpd>>
      BY <1>11 DEF HandleIrq
    <3>. QED
      BY <1>0, <3>1, <3>2, <3>3 DEF Places
  <2>3. LinkTypes' /\ MainLinkIsLocked'
    <3>1. CASE HandleTestRequest
      BY <3>1, TestKeeps
    <3>2. CASE TrainAndSetUp(sinkMax, awake, 0)
      BY <1>0, <3>2, LinkTrainingKeeps DEF Numbers
    <3>3. CASE NoTraining /\ (NotAnswered \/ UNCHANGED faults)
      BY <1>1, <3>3, FaultsKeep, LinkIdle DEF NoTraining
    <3>. QED
      BY <1>11, <3>1, <3>2, <3>3, Zenon DEF HandleIrq, TrainAndSetUp
  <2>4. Numbers'
    BY <1>0, <1>11, BoundsAssumption DEF HandleIrq, SelectEphyMode, Numbers
  <2>. QED
    BY <2>1, <2>2, <2>3, <2>4, TypeSplitPrime
<1>12. CASE DetectPlug
  <2>5. (cbDualModeDetect \/ board = "DVIForce") \in BOOLEAN
    BY DEF cbDualModeDetect
  <2>6. bDualMode' \in BOOLEAN /\ found' \in BOOLEAN /\ unseen' \in BOOLEAN
    BY <1>0, <1>12, <2>5, Zenon DEF DetectPlug, Truths
  <2>1. Truths'
    BY <1>0, <1>12, <2>6, Zenon DEF DetectPlug, Truths
  <2>2. Places'
    <3>1. /\ work' \in {"idle", "monitor"} /\ edid' \in {edid, NoSink}
          /\ Mode' \in {Mode, driver}
      BY <1>12 DEF DetectPlug
    <3>2. UNCHANGED <<DPEphyMode, monitor, PowerState, driver, sel, disp, sink, hpd, asks>>
      BY <1>12 DEF DetectPlug
    <3>. QED
      BY <1>0, <3>1, <3>2 DEF Places
  <2>3. LinkTypes' /\ MainLinkIsLocked'
    BY <1>1, <1>12, LinkIdle DEF DetectPlug
  <2>4. Numbers'
    BY <1>0, <1>12, BoundsAssumption DEF DetectPlug, Numbers
  <2>. QED
    BY <2>1, <2>2, <2>3, <2>4, TypeSplitPrime
<1>13. CASE DetectHdmi
  <2>1. Truths'
    BY <1>0, <1>13, Zenon DEF DetectHdmi, Found, NotFound, SelectEphyMode, Truths
  <2>2. Places'
    BY <1>0, <1>13 DEF DetectHdmi, Found, NotFound, SelectEphyMode, Places
  <2>3. LinkTypes' /\ MainLinkIsLocked'
    BY <1>1, <1>13, LinkIdle DEF DetectHdmi, Found, NotFound, SelectEphyMode
  <2>4. Numbers'
    BY <1>0, <1>13, BoundsAssumption DEF DetectHdmi, Found, NotFound, SelectEphyMode, Numbers
  <2>. QED
    BY <2>1, <2>2, <2>3, <2>4, TypeSplitPrime
<1>14. CASE DetectDp
  <2>5. Speaks \in BOOLEAN /\ (swapped \/ (PowerState = "on" /\ DPEphyMode # "DP")) \in BOOLEAN
    BY DEF Speaks
  <2>1. Truths'
    BY <1>0, <1>14, <2>5, Zenon DEF DetectDp, Found, NotFound, Truths
  <2>2. Places'
    <3>1. /\ work' = "idle" /\ Mode' = "TMDS" /\ edid' \in {sink, NoSink}
          /\ driver' \in {"DP", Mode} /\ sel' \in {"DP", Mode}
          /\ DPEphyMode' \in {"DP", DPEphyMode} /\ monitor' \in {"DP", monitor}
      BY <1>14, Zenon DEF DetectDp, Found, NotFound, SelectEphyMode
    <3>2. UNCHANGED <<PowerState, disp, sink, hpd, asks>>
      BY <1>14 DEF DetectDp
    <3>. QED
      BY <1>0, <3>1, <3>2 DEF Places
  <2>6. sinkMax' \in SomeLinks
    <3>1. CASE NotFound
      BY <1>0, <3>1 DEF NotFound, Numbers
    <3>2. CASE Answered
      <4>1. Caps[sink] \in SomeLinks
        BY <3>2, SinksAssumption DEF Answered, Speaks, SomeLinks
      <4>2. sinkMax' = Caps[sink] \/ sinkMax' = sinkMax
        BY <1>14, <3>2, Zenon DEF DetectDp, NotFound
      <4>. QED
        BY <1>0, <4>1, <4>2 DEF Numbers
    <3>. QED
      BY <1>14, <3>1, <3>2 DEF DetectDp
  <2>3. LinkTypes' /\ MainLinkIsLocked'
    <3>1. CASE NotAnswered /\ NotFound
      BY <3>1, FaultsKeep, LinkIdle DEF NotFound
    <3>2. ASSUME NEW spent \in Nat, TrainAndSetUp(sinkMax', TRUE, spent)
          PROVE  LinkTypes' /\ MainLinkIsLocked'
      BY <2>6, <3>2, LinkTrainingKeeps
    <3>3. ASSUME NEW spent \in 0..2, spent + faults <= MaxFaults, use' = sinkMax',
                 faults' = faults + spent,
                 UNCHANGED <<auxBusy, timing, main, halved, locked, tested>>
          PROVE  LinkTypes' /\ MainLinkIsLocked'
      <4>1. use' \in AnyLink
        BY <2>6, <3>3, LinkFacts DEF SomeLinks
      <4>2. faults' \in 0..MaxFaults
        BY <1>1, <3>3, BoundsAssumption
      <4>. QED
        BY <1>0, <3>3, <4>1, <4>2, Zenon DEF LinkTypes, MainLinkIsLocked
    <3>4. CASE ~(NotAnswered /\ NotFound)
      <4>1. PICK spent \in 0..2 :
              /\ spent + faults <= MaxFaults
              /\ \/ TrainAndSetUp(sinkMax', TRUE, spent)
                 \/ /\ use' = sinkMax' /\ faults' = faults + spent
                    /\ UNCHANGED <<auxBusy, timing, main, halved, locked, tested>>
        <5>1. PICK capsRead \in BOOLEAN, edidRead \in BOOLEAN, full \in BOOLEAN :
                LET spent == (IF capsRead THEN 0 ELSE 1) + (IF edidRead THEN 0 ELSE 1)
                IN /\ spent + faults <= MaxFaults
                   /\ \/ TrainAndSetUp(sinkMax', TRUE, spent)
                      \/ /\ use' = sinkMax' /\ faults' = faults + spent
                         /\ UNCHANGED <<auxBusy, timing, main, halved, locked, tested>>
          BY <1>14, <3>4, Zenon DEF DetectDp, TrainAndSetUp
        <5>2. (IF capsRead THEN 0 ELSE 1) + (IF edidRead THEN 0 ELSE 1) \in 0..2
          OBVIOUS
        <5>. QED
          BY <5>1, <5>2
      <4>2. spent \in Nat
        OBVIOUS
      <4>3. CASE TrainAndSetUp(sinkMax', TRUE, spent)
        BY <3>2, <4>2, <4>3
      <4>. QED
        BY <3>3, <4>1, <4>3
    <3>. QED
      BY <3>1, <3>4
  <2>4. Numbers'
    BY <1>0, <1>14, <2>6 DEF DetectDp, Numbers
  <2>. QED
    BY <2>1, <2>2, <2>3, <2>4, TypeSplitPrime
<1>15. CASE Unplug
  <2>1. Truths'
    BY <1>0, <1>15, Zenon DEF Unplug, Truths
  <2>2. Places'
    BY <1>0, <1>15 DEF Unplug, Places
  <2>3. LinkTypes' /\ MainLinkIsLocked'
    BY <1>1, <1>15, LinkIdle DEF Unplug
  <2>4. Numbers'
    BY <1>0, <1>15, BoundsAssumption DEF Unplug, Numbers
  <2>. QED
    BY <2>1, <2>2, <2>3, <2>4, TypeSplitPrime
<1>16. CASE LoseLink
  <2>1. Truths'
    BY <1>0, <1>16, Zenon DEF LoseLink, Truths
  <2>2. Places'
    BY <1>0, <1>16 DEF LoseLink, Places
  <2>3. LinkTypes' /\ MainLinkIsLocked'
    BY <1>1, <1>16, LinkIdle DEF LoseLink
  <2>4. Numbers'
    BY <1>0, <1>16, BoundsAssumption DEF LoseLink, Numbers
  <2>. QED
    BY <2>1, <2>2, <2>3, <2>4, TypeSplitPrime
<1>17. CASE AskAgain
  <2>1. Truths'
    BY <1>0, <1>17, Zenon DEF AskAgain, Truths
  <2>2. Places'
    BY <1>0, <1>17 DEF AskAgain, Places
  <2>3. LinkTypes' /\ MainLinkIsLocked'
    BY <1>1, <1>17, LinkIdle DEF AskAgain
  <2>4. Numbers'
    BY <1>0, <1>17, BoundsAssumption DEF AskAgain, Numbers
  <2>. QED
    BY <2>1, <2>2, <2>3, <2>4, TypeSplitPrime
<1>18. CASE AskTest
  <2>1. Truths'
    BY <1>0, <1>18, Zenon DEF AskTest, Truths
  <2>2. Places'
    BY <1>0, <1>18 DEF AskTest, Places
  <2>3. LinkTypes' /\ MainLinkIsLocked'
    BY <1>1, <1>18, LinkIdle DEF AskTest
  <2>4. Numbers'
    BY <1>0, <1>18, BoundsAssumption DEF AskTest, Numbers
  <2>. QED
    BY <2>1, <2>2, <2>3, <2>4, TypeSplitPrime
<1>19. ASSUME NEW s \in DpSinks \cup HdmiSinks, PlugIn(s) PROVE TypeOK' /\ MainLinkIsLocked'
  <2>5. (s \in DpSinks) \in BOOLEAN
    OBVIOUS
  <2>1. Truths'
    BY <1>0, <1>19, <2>5, Zenon DEF PlugIn, Truths
  <2>2. Places'
    BY <1>0, <1>19 DEF PlugIn, Places
  <2>3. LinkTypes' /\ MainLinkIsLocked'
    BY <1>1, <1>19, LinkIdle DEF PlugIn
  <2>4. Numbers'
    BY <1>0, <1>19, BoundsAssumption DEF PlugIn, Numbers
  <2>. QED
    BY <2>1, <2>2, <2>3, <2>4, TypeSplitPrime
<1>20. CASE UNCHANGED vars
  <2>1. Truths'
    BY <1>0, <1>20, Zenon DEF vars, Truths
  <2>4. Places'
    BY <1>0, <1>20 DEF vars, Places
  <2>2. Numbers'
    BY <1>0, <1>20, Zenon DEF vars, Numbers
  <2>3. LinkTypes' /\ MainLinkIsLocked'
    BY <1>1, <1>20, LinkIdle DEF vars
  <2>. QED
    BY <2>1, <2>2, <2>3, <2>4, TypeSplitPrime
<1>. QED
  BY <1>2, <1>3, <1>4, <1>5, <1>6, <1>7, <1>8, <1>9, <1>10, <1>11, <1>12, <1>13,
     <1>14, <1>15, <1>16, <1>17, <1>18, <1>19, <1>20
     DEF Next, Commit, HotPlugWork, Detect, Sink

-------------------------------------------------------------------------------
LEMMA InitIInv == Init => IInv
<1>. SUFFICES ASSUME Init PROVE IInv
  OBVIOUS
<1>1. TypeOK
  <2>1. Truths
    BY Zenon DEF Init, Truths
  <2>2. Places
    BY DEF Init, Places
  <2>3. Numbers
    BY BoundsAssumption DEF Init, Numbers, SomeLinks
  <2>4. LinkTypes
    <3>1. use \in AnyLink /\ main \in SomeLinks /\ locked \in SomeLinks
      BY LinkFacts DEF Init, SomeLinks
    <3>2. timing \in 0..2 /\ halved \in 0..2 /\ faults \in 0..MaxFaults
      BY BoundsAssumption DEF Init
    <3>3. auxBusy \in BOOLEAN /\ tested \in BOOLEAN
      BY Zenon DEF Init
    <3>. QED
      BY <3>1, <3>2, <3>3 DEF LinkTypes
  <2>. QED
    BY <2>1, <2>2, <2>3, <2>4, TypeSplit
<1>. QED
  BY <1>1 DEF Init, IInv, MainLinkIsLocked, Exclusive, SideOfMonitor, SendsOneSide, LinkIsOfSink,
     PulseIsDp, FoundHdmi, PhyOfSide

(* The commit and the detection exclude each other.                         *)
LEMMA ExclusiveStep == IInv /\ [Next]_vars => Exclusive' /\ SideOfMonitor' /\ SendsOneSide'
<1>. SUFFICES ASSUME IInv, [Next]_vars PROVE Exclusive' /\ SideOfMonitor' /\ SendsOneSide'
  OBVIOUS
<1>. USE DEF IInv, Exclusive, SideOfMonitor, SendsOneSide, port_vars, power_vars, side_vars
<1>0. /\ DPEphyMode \in {"none", "DP", "TMDS"} /\ monitor \in {"none", "DP", "HDMI"}
      /\ hpd \in {"none", "in", "out", "irq"}
  BY DEF TypeOK
<1>1. CASE SetMode
  BY <1>0, <1>1 DEF SetMode
<1>2. CASE SwitchOn
  BY <1>2 DEF SwitchOn, ChooseSide, ConnMutexFree
<1>3. CASE SwitchOff
  BY <1>3 DEF SwitchOff, ChooseSide, ConnMutexFree
<1>4. CASE OnMonitor
  BY <1>4 DEF OnMonitor, Side, DPModeOnOff
<1>5. CASE OffMonitor
  BY <1>5 DEF OffMonitor, Side, DPModeOnOff
<1>6. CASE OnOffDone
  BY <1>6 DEF OnOffDone
<1>7. CASE GetInt
  BY <1>0, <1>7 DEF GetInt
<1>8. CASE AskDetect
  BY <1>8 DEF AskDetect
<1>9. CASE HandleIn
  BY <1>9, TestKeeps DEF HandleIn
<1>10. CASE HandleIrq
  BY <1>10, TestKeeps DEF HandleIrq
<1>11. CASE DetectPlug
  BY <1>11 DEF DetectPlug
<1>12. CASE DetectHdmi
  <2>1. disp = "idle" /\ disp' = "idle" /\ work' = "idle"
        /\ UNCHANGED <<PowerState, bIsSrcChanged, video, hdmi>>
    BY <1>12 DEF DetectHdmi
  <2>2. CASE NotFound
    <3>1. ~found' /\ UNCHANGED <<DPEphyMode, monitor, swapped>>
      BY <2>2, Zenon DEF NotFound
    <3>. QED
      BY <2>1, <3>1
  <2>3. CASE Found("TMDS", "HDMI")
    <3>1. DPEphyMode' = "TMDS" /\ monitor' = "HDMI"
      BY <2>3 DEF Found
    <3>2. ~swapped' => ~swapped /\ (PowerState # "on" \/ DPEphyMode = "TMDS")
      BY <2>3, Zenon DEF Found
    <3>. QED
      BY <2>1, <3>1, <3>2
  <2>. QED
    BY <1>12, <2>2, <2>3, Zenon DEF DetectHdmi
<1>13. CASE DetectDp
  <2>1. disp = "idle" /\ disp' = "idle" /\ work' = "idle"
        /\ UNCHANGED <<PowerState, bIsSrcChanged, video, hdmi>>
    BY <1>13 DEF DetectDp
  <2>2. CASE NotFound
    <3>1. ~found' /\ UNCHANGED <<DPEphyMode, monitor, swapped>>
      BY <2>2, Zenon DEF NotFound
    <3>. QED
      BY <2>1, <3>1
  <2>3. CASE Found("DP", "DP")
    <3>1. DPEphyMode' = "DP" /\ monitor' = "DP"
      BY <2>3 DEF Found
    <3>2. ~swapped' => ~swapped /\ (PowerState # "on" \/ DPEphyMode = "DP")
      BY <2>3, Zenon DEF Found
    <3>. QED
      BY <2>1, <3>1, <3>2
  <2>. QED
    BY <1>13, <2>2, <2>3, Zenon DEF DetectDp
<1>14. CASE Unplug
  BY <1>14 DEF Unplug
<1>15. CASE LoseLink
  BY <1>15 DEF LoseLink
<1>16. CASE AskAgain
  BY <1>16 DEF AskAgain
<1>17. CASE AskTest
  BY <1>17 DEF AskTest
<1>18. ASSUME NEW s \in DpSinks \cup HdmiSinks, PlugIn(s)
       PROVE  Exclusive' /\ SideOfMonitor' /\ SendsOneSide'
  BY <1>18 DEF PlugIn
<1>19. CASE UNCHANGED vars
  BY <1>19 DEF vars
<1>. QED
  BY <1>1, <1>2, <1>3, <1>4, <1>5, <1>6, <1>7, <1>8, <1>9, <1>10, <1>11, <1>12,
     <1>13, <1>14, <1>15, <1>16, <1>17, <1>18, <1>19
     DEF Next, Commit, HotPlugWork, Detect, Sink

(* Nothing locks but a DP sink.                                             *)
LEMMA LockedSpeaks ==
  ASSUME LinkIsOfSink, NEW max, NEW able, able => Speaks, NEW spent,
         TrainAndSetUp(max, able, spent) \/ TrainForTest(max, able, spent)
  PROVE  locked' # NoLink => Speaks
<1>1. PICK auto \in BOOLEAN, ok \in BOOLEAN : LinkTraining(auto, ok, max, able, spent)
  BY Zenon DEF TrainAndSetUp, TrainForTest
<1>. QED
  BY <1>1 DEF LinkIsOfSink, LinkTraining, Trained

LEMMA TestLocks ==
  ASSUME LinkIsOfSink, HandleTestRequest
  PROVE  locked' # NoLink => Speaks
<1>1. CASE TrainForTest(sinkMax, awake, 0) \/ TrainAndSetUp(sinkMax, awake, 0)
  BY <1>1, LockedSpeaks, Zenon DEF LinkIsOfSink
<1>2. CASE NoTraining
  BY <1>2 DEF NoTraining, LinkIsOfSink
<1>. QED
  BY <1>1, <1>2, Zenon DEF HandleTestRequest, TrainForTest, TrainAndSetUp

LEMMA LinkOfSinkStep == IInv /\ [Next]_vars => LinkIsOfSink'
<1>. SUFFICES ASSUME IInv, [Next]_vars PROVE LinkIsOfSink'
  OBVIOUS
<1>. USE SinksAssumption DEF IInv, Speaks, port_vars, power_vars, mode_vars, link_vars,
                             main_vars, phy_vars, side_vars, past_vars
<1>1. CASE SetMode
  BY <1>1 DEF SetMode, LinkIsOfSink
<1>2. CASE SwitchOn
  BY <1>2 DEF SwitchOn, ChooseSide, SelectPhySource, SelectEphyMode, LinkIsOfSink
<1>3. CASE SwitchOff
  BY <1>3 DEF SwitchOff, ChooseSide, SelectPhySource, SelectEphyMode, LinkIsOfSink
<1>4. CASE OnMonitor
  <2>1. CASE TrainAndSetUp(sinkMax, Speaks, 0) /\ awake' = Speaks
    BY <1>4, <2>1, LockedSpeaks DEF OnMonitor, LinkIsOfSink
  <2>2. CASE UNCHANGED <<awake, locked>>
    BY <1>4, <2>2 DEF OnMonitor, LinkIsOfSink
  <2>. QED
    BY <1>4, <2>1, <2>2, Zenon DEF OnMonitor, TrainAndSetUp
<1>5. CASE OffMonitor
  BY <1>5 DEF OffMonitor, Side, DPModeOnOff, LinkIsOfSink
<1>6. CASE OnOffDone
  BY <1>6 DEF OnOffDone, LinkIsOfSink
<1>7. CASE GetInt
  BY <1>7 DEF GetInt, LinkIsOfSink
<1>8. CASE AskDetect
  BY <1>8 DEF AskDetect, LinkIsOfSink
<1>9. CASE HandleIn
  <2>1. CASE HandleTestRequest
    BY <1>9, <2>1, TestLocks DEF HandleIn, LinkIsOfSink
  <2>2. CASE UNCHANGED locked
    BY <1>9, <2>2 DEF HandleIn, LinkIsOfSink
  <2>. QED
    BY <1>9, <2>1, <2>2, Zenon DEF HandleIn, NoTraining
<1>10. CASE HandleIrq
  <2>1. CASE HandleTestRequest
    BY <1>10, <2>1, TestLocks DEF HandleIrq, LinkIsOfSink
  <2>2. CASE TrainAndSetUp(sinkMax, awake, 0)
    BY <1>10, <2>2, LockedSpeaks DEF HandleIrq, LinkIsOfSink
  <2>3. CASE UNCHANGED locked
    BY <1>10, <2>3 DEF HandleIrq, LinkIsOfSink
  <2>. QED
    BY <1>10, <2>1, <2>2, <2>3, Zenon DEF HandleIrq, NoTraining, TrainAndSetUp
<1>11. CASE DetectPlug
  BY <1>11 DEF DetectPlug, LinkIsOfSink
<1>12. CASE DetectHdmi
  BY <1>12 DEF DetectHdmi, Found, NotFound, SelectEphyMode, LinkIsOfSink
<1>13. CASE DetectDp
  <2>1. (awake' => Speaks) /\ UNCHANGED sink
    BY <1>13, Zenon DEF DetectDp, Answered
  <2>2. locked' # NoLink => Speaks
    <3>1. CASE NotFound
      BY <3>1 DEF NotFound, LinkIsOfSink
    <3>2. CASE Answered
      BY <3>2 DEF Answered
    <3>. QED
      BY <1>13, <3>1, <3>2, Zenon DEF DetectDp
  <2>. QED
    BY <2>1, <2>2 DEF LinkIsOfSink
<1>14. CASE Unplug
  BY <1>14 DEF Unplug, LinkIsOfSink
<1>15. CASE LoseLink
  BY <1>15 DEF LoseLink, LinkIsOfSink
<1>16. CASE AskAgain
  BY <1>16 DEF AskAgain, LinkIsOfSink
<1>17. CASE AskTest
  BY <1>17 DEF AskTest, LinkIsOfSink
<1>18. ASSUME NEW s \in DpSinks \cup HdmiSinks, PlugIn(s) PROVE LinkIsOfSink'
  BY <1>18 DEF PlugIn, LinkIsOfSink
<1>19. CASE UNCHANGED vars
  BY <1>19 DEF vars, LinkIsOfSink
<1>. QED
  BY <1>1, <1>2, <1>3, <1>4, <1>5, <1>6, <1>7, <1>8, <1>9, <1>10, <1>11, <1>12,
     <1>13, <1>14, <1>15, <1>16, <1>17, <1>18, <1>19
     DEF Next, Commit, HotPlugWork, Detect, Sink

(* Which sink a short pulse can come from.                                  *)
LEMMA PulseStep == IInv /\ [Next]_vars => PulseIsDp'
<1>. SUFFICES ASSUME IInv, [Next]_vars PROVE PulseIsDp'
  OBVIOUS
<1>. USE SinksAssumption DEF IInv, PulseIsDp, FoundHdmi, Speaks, port_vars
<1>1. CASE SetMode
  BY <1>1 DEF SetMode
<1>2. CASE SwitchOn
  BY <1>2 DEF SwitchOn, ChooseSide, SelectPhySource, SelectEphyMode
<1>3. CASE SwitchOff
  BY <1>3 DEF SwitchOff, ChooseSide, SelectPhySource, SelectEphyMode
<1>4. CASE OnMonitor
  BY <1>4 DEF OnMonitor, Side, DPModeOnOff
<1>5. CASE OffMonitor
  BY <1>5 DEF OffMonitor, Side, DPModeOnOff
<1>6. CASE OnOffDone
  BY <1>6 DEF OnOffDone
<1>7. CASE GetInt
  BY <1>7 DEF GetInt
<1>8. CASE AskDetect
  BY <1>8 DEF AskDetect
<1>9. CASE HandleIn
  BY <1>9, TestKeeps DEF HandleIn, cbDualModeDetect
<1>10. CASE HandleIrq
  BY <1>10, TestKeeps DEF HandleIrq
<1>11. CASE DetectPlug
  BY <1>11 DEF DetectPlug
<1>12. CASE DetectHdmi
  BY <1>12 DEF DetectHdmi, Found, NotFound
<1>13. CASE DetectDp
  BY <1>13 DEF DetectDp, Found, NotFound
<1>14. CASE Unplug
  BY <1>14 DEF Unplug
<1>15. CASE LoseLink
  BY <1>15 DEF LoseLink, LinkIsOfSink
<1>16. CASE AskAgain
  BY <1>16 DEF AskAgain
<1>17. CASE AskTest
  BY <1>17 DEF AskTest
<1>18. ASSUME NEW s \in DpSinks \cup HdmiSinks, PlugIn(s) PROVE PulseIsDp'
  BY <1>18 DEF PlugIn
<1>19. CASE UNCHANGED vars
  BY <1>19 DEF vars
<1>. QED
  BY <1>1, <1>2, <1>3, <1>4, <1>5, <1>6, <1>7, <1>8, <1>9, <1>10, <1>11, <1>12,
     <1>13, <1>14, <1>15, <1>16, <1>17, <1>18, <1>19
     DEF Next, Commit, HotPlugWork, Detect, Sink

(* What the PHY drives.                                                     *)
LEMMA PhyStep == IInv /\ [Next]_vars => PhyOfSide'
<1>. SUFFICES ASSUME IInv, [Next]_vars PROVE PhyOfSide'
  OBVIOUS
<1>. USE DEF IInv, PhyOfSide, port_vars, power_vars, phy_vars
<1>0. DPEphyMode \in {"none", "DP", "TMDS"}
  BY DEF TypeOK
<1>1. CASE SetMode
  BY <1>1 DEF SetMode
<1>2. CASE SwitchOn
  BY <1>2 DEF SwitchOn, ChooseSide, ConnMutexFree, SelectPhySource, SelectEphyMode
<1>3. CASE SwitchOff
  BY <1>3 DEF SwitchOff, ChooseSide, ConnMutexFree, SelectPhySource, SelectEphyMode
<1>4. CASE OnMonitor
  BY <1>4 DEF OnMonitor, Side, DPModeOnOff, Exclusive, SideOfMonitor
<1>5. CASE OffMonitor
  BY <1>5 DEF OffMonitor, Side, DPModeOnOff
<1>6. CASE OnOffDone
  BY <1>6 DEF OnOffDone
<1>7. CASE GetInt
  BY <1>7 DEF GetInt
<1>8. CASE AskDetect
  BY <1>8 DEF AskDetect
<1>9. CASE HandleIn
  BY <1>9, TestKeeps DEF HandleIn, SelectEphyMode
<1>10. CASE HandleIrq
  BY <1>0, <1>10, TestKeeps DEF HandleIrq, SelectEphyMode, PulseIsDp, FoundHdmi, SideOfMonitor
<1>11. CASE DetectPlug
  BY <1>11 DEF DetectPlug
<1>12. CASE DetectHdmi
  BY <1>12 DEF DetectHdmi, Found, NotFound, SelectEphyMode
<1>13. CASE DetectDp
  BY <1>13 DEF DetectDp, Found, NotFound, SelectEphyMode
<1>14. CASE Unplug
  BY <1>14 DEF Unplug
<1>15. CASE LoseLink
  BY <1>15 DEF LoseLink
<1>16. CASE AskAgain
  BY <1>16 DEF AskAgain
<1>17. CASE AskTest
  BY <1>17 DEF AskTest
<1>18. ASSUME NEW s \in DpSinks \cup HdmiSinks, PlugIn(s) PROVE PhyOfSide'
  BY <1>18 DEF PlugIn
<1>19. CASE UNCHANGED vars
  BY <1>19 DEF vars
<1>. QED
  BY <1>1, <1>2, <1>3, <1>4, <1>5, <1>6, <1>7, <1>8, <1>9, <1>10, <1>11, <1>12,
     <1>13, <1>14, <1>15, <1>16, <1>17, <1>18, <1>19
     DEF Next, Commit, HotPlugWork, Detect, Sink

LEMMA Inductive == IInv /\ [Next]_vars => IInv'
BY TypeStep, ExclusiveStep, LinkOfSinkStep, PulseStep, PhyStep DEF IInv

LEMMA Invariance == Spec => []IInv
<1>. QED
  BY InitIInv, Inductive, PTL DEF Spec

-------------------------------------------------------------------------------
(* Type correctness: port, PHY and links keep their types for any sinks     *)
(* and bounds; no training asks for more than source and sink have.         *)
THEOREM TypeCorrect == Spec => []TypeOK
<1>1. IInv => TypeOK
  BY DEF IInv
<1>. QED
  BY <1>1, Invariance, PTL

(* A link that somebody trained and nobody lost is the one the main link is *)
(* set up for: each of the four callers of cbDPMonitor_LinkTraining that    *)
(* have a main link sets it up, with what that training left in use.        *)
THEOREM MainLinkFollows == Spec => []MainLinkIsLocked
<1>1. IInv => MainLinkIsLocked
  BY DEF IInv
<1>. QED
  BY <1>1, Invariance, PTL

(* The port that is on drives the side that was detected, because a short   *)
(* pulse, which moves the PHY to DP, never meets a port found to be HDMI.   *)
THEOREM LitPortSelected == Spec => []LitPortIsSelected
<1>1. IInv => LitPortIsSelected
  BY DEF IInv, LitPortIsSelected, PhyOfSide, SideOfMonitor, AtRest, TypeOK
<1>. QED
  BY <1>1, Invariance, PTL

(* A port that was turned off sends nothing, unless it was swapped while on *)
(* (cbDPPort_OnOff).                                                        *)
THEOREM OffPortDark == Spec => []OffPortIsDark
<1>1. IInv => OffPortIsDark
  BY DEF IInv, OffPortIsDark, SendsOneSide, AtRest
<1>. QED
  BY <1>1, Invariance, PTL

-------------------------------------------------------------------------------
(* Why a link comes back, without fairness: nothing a sink needs to ask for *)
(* it, and nothing the training it gets needs to succeed, is ever lost.     *)

(* Video goes to a sink that is awake, whoever found or woke it.            *)
SinkIsAwake == video /\ Speaks => awake

(* The mark of a training does not outlive it: the next one is not skipped. *)
AuxIsFree == ~auxBusy

(* A link that a training of the monitor may ask for has a part that the    *)
(* sink can give.                                                           *)
LinkCanComeBack ==
  Waiting /\ locked = NoLink =>
    /\ awake /\ ~auxBusy /\ LinkIsBad(use.lanes)
    /\ \A asked \in DetermineLinkTrainingPara(sinkMax) :
         LeastLink(asked, Caps[sink]) \in P!Links

LEMMA TrainingLeaves ==
  ASSUME ~auxBusy, NEW max, NEW able, NEW spent,
         TrainAndSetUp(max, able, spent) \/ TrainForTest(max, able, spent)
  PROVE  ~auxBusy'
<1>1. PICK auto \in BOOLEAN, ok \in BOOLEAN : LinkTraining(auto, ok, max, able, spent)
  BY Zenon DEF TrainAndSetUp, TrainForTest
<1>. QED
  BY <1>1, Zenon DEF LinkTraining, Trained

LEMMA TestLeaves ==
  ASSUME ~auxBusy, HandleTestRequest
  PROVE  ~auxBusy'
BY TrainingLeaves, Zenon DEF HandleTestRequest, NoTraining, TrainForTest, TrainAndSetUp

(* A sink that gets video stays awake.                                      *)
LEMMA AwakeStep == SinkIsAwake /\ [Next]_vars => SinkIsAwake'
<1>. SUFFICES ASSUME SinkIsAwake, [Next]_vars PROVE SinkIsAwake'
  OBVIOUS
<1>. USE SinksAssumption DEF SinkIsAwake, Speaks, port_vars, power_vars, mode_vars, link_vars,
                             main_vars, phy_vars, side_vars, past_vars
<1>1. CASE SetMode
  BY <1>1 DEF SetMode
<1>2. CASE SwitchOn
  BY <1>2 DEF SwitchOn, ChooseSide
<1>3. CASE SwitchOff
  BY <1>3 DEF SwitchOff, ChooseSide
<1>4. CASE OnMonitor
  BY <1>4, Zenon DEF OnMonitor
<1>5. CASE OffMonitor
  BY <1>5 DEF OffMonitor, DPModeOnOff
<1>6. CASE OnOffDone
  BY <1>6 DEF OnOffDone
<1>7. CASE GetInt
  BY <1>7 DEF GetInt
<1>8. CASE AskDetect
  BY <1>8 DEF AskDetect
<1>9. CASE HandleIn
  BY <1>9 DEF HandleIn
<1>10. CASE HandleIrq
  BY <1>10 DEF HandleIrq
<1>11. CASE DetectPlug
  BY <1>11 DEF DetectPlug
<1>12. CASE DetectHdmi
  BY <1>12 DEF DetectHdmi, Found, NotFound
<1>13. CASE DetectDp
  <2>1. UNCHANGED <<video, sink>> /\ (Speaks => awake')
    BY <1>13, Zenon DEF DetectDp, Answered, side_vars
  <2>. QED
    BY <2>1
<1>14. CASE Unplug
  BY <1>14 DEF Unplug
<1>15. CASE LoseLink
  BY <1>15 DEF LoseLink
<1>16. CASE AskAgain
  BY <1>16 DEF AskAgain
<1>17. CASE AskTest
  BY <1>17 DEF AskTest
<1>18. ASSUME NEW s \in DpSinks \cup HdmiSinks, PlugIn(s) PROVE SinkIsAwake'
  BY <1>18 DEF PlugIn
<1>19. CASE UNCHANGED vars
  BY <1>19 DEF vars
<1>. QED
  BY <1>1, <1>2, <1>3, <1>4, <1>5, <1>6, <1>7, <1>8, <1>9, <1>10, <1>11, <1>12,
     <1>13, <1>14, <1>15, <1>16, <1>17, <1>18, <1>19
     DEF Next, Commit, HotPlugWork, Detect, Sink

(* No training leaves its mark.                                             *)
LEMMA AuxStep == AuxIsFree /\ [Next]_vars => AuxIsFree'
<1>. SUFFICES ASSUME AuxIsFree, [Next]_vars PROVE AuxIsFree'
  OBVIOUS
<1>. USE SinksAssumption DEF AuxIsFree, port_vars, power_vars, mode_vars, link_vars,
                             main_vars, phy_vars, side_vars, past_vars
<1>1. CASE SetMode
  BY <1>1 DEF SetMode
<1>2. CASE SwitchOn
  BY <1>2 DEF SwitchOn, ChooseSide
<1>3. CASE SwitchOff
  BY <1>3 DEF SwitchOff, ChooseSide
<1>4. CASE OnMonitor
  <2>1. auxBusy' = auxBusy \/ TrainAndSetUp(sinkMax, Speaks, 0)
    BY <1>4, Zenon DEF OnMonitor, TrainAndSetUp
  <2>. QED
    BY <2>1, TrainingLeaves
<1>5. CASE OffMonitor
  BY <1>5 DEF OffMonitor, DPModeOnOff
<1>6. CASE OnOffDone
  BY <1>6 DEF OnOffDone
<1>7. CASE GetInt
  BY <1>7 DEF GetInt
<1>8. CASE AskDetect
  BY <1>8 DEF AskDetect
<1>9. CASE HandleIn
  BY <1>9, TestLeaves, Zenon DEF HandleIn, NoTraining
<1>10. CASE HandleIrq
  <2>1. auxBusy' = auxBusy \/ HandleTestRequest \/ TrainAndSetUp(sinkMax, awake, 0)
    BY <1>10, Zenon DEF HandleIrq, NoTraining, TrainAndSetUp
  <2>. QED
    BY <2>1, TrainingLeaves, TestLeaves
<1>11. CASE DetectPlug
  BY <1>11 DEF DetectPlug
<1>12. CASE DetectHdmi
  BY <1>12 DEF DetectHdmi, Found, NotFound
<1>13. CASE DetectDp
  <2>1. auxBusy' = auxBusy \/ \E spent : TrainAndSetUp(sinkMax', TRUE, spent)
    BY <1>13, Zenon DEF DetectDp, NotFound, TrainAndSetUp
  <2>. QED
    <3>1. ASSUME NEW spent, TrainAndSetUp(sinkMax', TRUE, spent) PROVE ~auxBusy'
      BY <1>13, <3>1, Zenon DEF DetectDp, TrainAndSetUp, LinkTraining, Trained
    <3>. QED
      BY <2>1, <3>1
<1>14. CASE Unplug
  BY <1>14 DEF Unplug
<1>15. CASE LoseLink
  BY <1>15 DEF LoseLink
<1>16. CASE AskAgain
  BY <1>16 DEF AskAgain
<1>17. CASE AskTest
  BY <1>17 DEF AskTest
<1>18. ASSUME NEW s \in DpSinks \cup HdmiSinks, PlugIn(s) PROVE AuxIsFree'
  BY <1>18 DEF PlugIn
<1>19. CASE UNCHANGED vars
  BY <1>19 DEF vars
<1>. QED
  BY <1>1, <1>2, <1>3, <1>4, <1>5, <1>6, <1>7, <1>8, <1>9, <1>10, <1>11, <1>12,
     <1>13, <1>14, <1>15, <1>16, <1>17, <1>18, <1>19
     DEF Next, Commit, HotPlugWork, Detect, Sink

LEMMA LeastIsLink ==
  ASSUME NEW a \in P!Links, NEW b \in P!Links
  PROVE  LeastLink(a, b) \in P!Links
BY DEF LeastLink, P!Links, P!LaneCounts, P!Rates

LEMMA CanComeBack == TypeOK /\ SinkIsAwake /\ AuxIsFree => LinkCanComeBack
<1>. SUFFICES ASSUME TypeOK, SinkIsAwake, AuxIsFree, Waiting, locked = NoLink
              PROVE  /\ awake /\ ~auxBusy /\ LinkIsBad(use.lanes)
                     /\ \A asked \in DetermineLinkTrainingPara(sinkMax) :
                          LeastLink(asked, Caps[sink]) \in P!Links
  BY DEF LinkCanComeBack
<1>1. awake /\ ~auxBusy /\ LinkIsBad(use.lanes)
  BY DEF SinkIsAwake, AuxIsFree, Waiting, LinkIsBad
<1>2. sinkMax \in P!Links /\ SourceMax \in P!Links /\ Caps[sink] \in P!Links
  BY TypeParts, SinksAssumption DEF Waiting, SomeLinks, Speaks
<1>3. ASSUME NEW r \in P!Rates PROVE [lanes |-> sinkMax.lanes, rate |-> r] \in P!Links
  BY <1>2 DEF P!Links
<1>4. ASSUME NEW asked \in DetermineLinkTrainingPara(sinkMax) PROVE asked \in P!Links
  <2>1. PICK r \in P!Rates :
          asked = LeastLink(SourceMax, LeastLink(sinkMax, [lanes |-> sinkMax.lanes, rate |-> r]))
    BY <1>4 DEF DetermineLinkTrainingPara
  <2>2. LeastLink(sinkMax, [lanes |-> sinkMax.lanes, rate |-> r]) \in P!Links
    BY <1>2, <1>3, LeastIsLink
  <2>. QED
    BY <1>2, <2>1, <2>2, LeastIsLink
<1>. QED
  BY <1>1, <1>2, <1>4, LeastIsLink

(* Whenever a port that is on has lost the link of the DP sink it sends to, *)
(* the sink is awake to ask for it, a short pulse finds the link bad, the   *)
(* training is not skipped, and source and sink have a link in common for   *)
(* everything it may ask for (cbDPMonitor_ProcLinkStatusCheck).             *)
THEOREM LinkIsRecoverable == Spec => []LinkCanComeBack
<1>. DEFINE I == IInv /\ SinkIsAwake /\ AuxIsFree
<1>1. Init => I
  <2>1. Init => SinkIsAwake /\ AuxIsFree
    BY DEF Init, SinkIsAwake, AuxIsFree
  <2>. QED
    BY <2>1, InitIInv
<1>2. I /\ [Next]_vars => I'
  BY Inductive, AwakeStep, AuxStep
<1>3. I => LinkCanComeBack
  BY CanComeBack DEF IInv
<1>. QED
  BY <1>1, <1>2, <1>3, PTL DEF Spec

===============================================================================
