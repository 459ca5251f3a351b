----------------------------- MODULE HotPlugProofs -----------------------------
(***************************************************************************)
(* Proofs about HotPlug: the invariant IInv is inductive, and with it no   *)
(* event waits for nobody, no change of a monitor is forgotten, every      *)
(* change seen is announced and a suspended driver is quiet, whatever the  *)
(* ports, the monitors and the bounds.                                     *)
(***************************************************************************)
EXTENDS HotPlug, TLAPS

USE PortsAssumption, MonitorsAssumption, QueueAssumption, PollAssumption,
    FlagsAssumption, BoundsAssumption

(* The initial state satisfies the invariant.                               *)
LEMMA InitType == Init => TypeOK
  <1>. SUFFICES ASSUME Init PROVE TypeOK OBVIOUS
  <1>1. HwType /\ ConnType
    <2>1. plug \in [Ports -> MonitorOrNone] /\ ddc = plug /\ known = plug /\ told = plug
      BY DEF Init, MonitorOrNone
    <2>2. HwType BY <2>1 DEF Init, HwType
    <2>3. ConnType BY <2>1 DEF Init, ConnType
    <2>. QED BY <2>2, <2>3
  <1>2. SentType
    <2>1. queue \in Seq(Events) /\ Len(queue) = 0 BY DEF Init
    <2>. QED BY <2>1 DEF Init, SentType
  <1>3. IrqType BY DEF Init, IrqType
  <1>4. WorkType
    <2>1. pollPend \in BOOLEAN BY DEF Init
    <2>. QED BY <2>1 DEF Init, WorkType
  <1>5. PollType BY DEF Init, PollType
  <1>6. PmType
    <2>1. suspends \in 0..MaxSuspends BY DEF Init
    <2>. QED BY <2>1 DEF Init, PmType
  <1>. QED BY <1>1, <1>2, <1>3, <1>4, <1>5, <1>6 DEF TypeOK

LEMMA InitIInv == Init => IInv
  <1>. SUFFICES ASSUME Init PROVE IInv OBVIOUS
  <1>1. TypeOK BY InitType
  <1>2. Phases /\ Quiet BY DEF Init, Phases, Quiet
  <1>3. Echo BY DEF Init, Echo
  <1>4. RunningIsTrue /\ ChangesAnnounced BY DEF Init, RunningIsTrue, ChangesAnnounced, Hidden
  <1>5. WorkIsServed
    <2>1. SomethingToPoll => CrtPorts # {} BY DEF Init, SomethingToPoll, HpdPorts, Ports
    <2>2. CrtPorts # {} => pollPend BY DEF Init
    <2>. QED BY <2>1, <2>2 DEF Init, WorkIsServed, QueueServed, MaskServed, PollServed
  <1>6. \A c \in Ports : lag[c] = 0 /\ known[c] = plug[c] BY DEF Init
  <1>7. Lagging BY <1>6 DEF Lagging, Chased, Ports
  <1>8. NothingForgotten BY <1>6 DEF NothingForgotten, Accounted, Ports
  <1>9. DviIsDetected BY <1>6 DEF DviIsDetected, Ports
  <1>. QED BY <1>1, <1>2, <1>3, <1>4, <1>5, <1>7, <1>8, <1>9 DEF IInv

-------------------------------------------------------------------------------
(* Types, one group of variables at a time.                                 *)

LEMMA DetectedType ==
  ASSUME HwType, ConnType, NEW c \in Ports, NEW b
  PROVE  Detected(c, b) \in MonitorOrNone
  BY DEF HwType, ConnType, Detected, MonitorOrNone

LEMMA ProbeType ==
  ASSUME HwType, NEW c \in Ports, Probe(c)
  PROVE  lag' \in [Ports -> 0..MaxLag] /\ ddc' \in [Ports -> MonitorOrNone]
  BY DEF HwType, Probe, MonitorOrNone

LEMMA PollProbeType ==
  ASSUME HwType, NEW c \in Ports, PollProbe(c)
  PROVE  lag' \in [Ports -> 0..MaxLag] /\ ddc' \in [Ports -> MonitorOrNone]
  <1>1. \A n \in 0..MaxLag : n > 1 => n - 2 \in 0..MaxLag
    OBVIOUS
  <1>2. ASSUME ProbeTwice(c)
        PROVE  lag' \in [Ports -> 0..MaxLag] /\ ddc' \in [Ports -> MonitorOrNone]
    BY <1>1, <1>2 DEF HwType, ProbeTwice, MonitorOrNone
  <1>. QED BY <1>2, ProbeType DEF PollProbe

LEMMA PollDetectedType ==
  ASSUME HwType, ConnType, NEW c \in Ports
  PROVE  PollDetected(c) \in MonitorOrNone
  BY DetectedType DEF PollDetected, DetectedTwice, MonitorOrNone

LEMMA HwTypeStep ==
  ASSUME TypeOK, [Next]_vars PROVE HwType'
<1>1. ASSUME Monitor PROVE HwType'
  <2>1. ASSUME NEW c \in Ports, NEW m \in Monitors, Plug(c, m) PROVE HwType'
    BY <2>1 DEF Plug, TypeOK, HwType, hw_vars, HpdPorts, Ports, Latch, MonitorOrNone
  <2>2. ASSUME NEW c \in Ports, NEW more \in 0..MaxLag, Unplug(c, more) PROVE
       HwType'
    BY <2>2 DEF Unplug, TypeOK, HwType, hw_vars, HpdPorts, Ports, Latch,
         MonitorOrNone
  <2>. QED BY <1>1, <2>1, <2>2 DEF Monitor
<1>2. ASSUME Irq PROVE HwType'
  <2>1. ASSUME NEW c \in HpdPorts, IrqMask(c) PROVE HwType'
    BY <2>1 DEF IrqMask, TypeOK, HwType, hw_vars, HpdPorts, Ports, Latch,
         MonitorOrNone
  <2>2. ASSUME NEW c \in HpdPorts, IrqQueue(c) PROVE HwType'
    BY <2>2 DEF IrqQueue, TypeOK, HwType, hw_vars, HpdPorts, Ports, Latch,
         MonitorOrNone
  <2>3. ASSUME IrqEnter \/ IrqUnlock \/ IrqKick PROVE HwType'
    BY <2>3 DEF IrqEnter, IrqUnlock, IrqKick, TypeOK, HwType, hw_vars
  <2>. QED BY <1>2, <2>1, <2>2, <2>3 DEF Irq
<1>3. ASSUME DpWork PROVE HwType'
  BY <1>3 DEF DpWork, DpStart, DpTake, DpDrained, DpHandle, DpPublish, DpKick,
       TypeOK, HwType, hw_vars
<1>4. ASSUME HpWork PROVE HwType'
  <2>1. ASSUME NEW c \in Ports, HpScan(c) PROVE HwType'
    BY <2>1, ProbeType DEF HpScan, TypeOK, HwType, hw_vars
  <2>2. ASSUME HpTake \/ HpLock \/ HpUnlock \/ HpNotify PROVE HwType'
    BY <2>2 DEF HpTake, HpLock, HpUnlock, HpNotify, TypeOK, HwType, hw_vars
  <2>. QED BY <1>4, <2>1, <2>2 DEF HpWork
<1>5. ASSUME PollWork PROVE HwType'
  <2>1. ASSUME NEW c \in Ports, PollScan(c) PROVE HwType'
    BY <2>1, PollProbeType DEF PollScan, TypeOK, HwType, hw_vars
  <2>2. ASSUME PollStart \/ PollUnlock \/ PollOut PROVE HwType'
    BY <2>2 DEF PollStart, PollUnlock, PollOut, TypeOK, HwType, hw_vars
  <2>. QED BY <1>5, <2>1, <2>2 DEF PollWork
<1>6. ASSUME Os PROVE HwType'
  <2>1. ASSUME NEW c \in Ports, OsDetect(c) PROVE HwType'
    BY <2>1, ProbeType DEF OsDetect, TypeOK, HwType, hw_vars
  <2>2. ASSUME (\E c \in Ports : OsDetectFast(c)) PROVE HwType'
    BY <2>2 DEF OsDetectFast, TypeOK, HwType, hw_vars
  <2>. QED BY <1>6, <2>1, <2>2 DEF Os
<1>7. ASSUME Pm PROVE HwType'
  <2>1. ASSUME Resume PROVE HwType'
    BY <2>1 DEF Resume, TypeOK, HwType, hw_vars, HpdPorts, Ports, Latch,
         MonitorOrNone
  <2>2. ASSUME ResumeDetect PROVE HwType'
    BY <2>2 DEF ResumeDetect, TypeOK, HwType, hw_vars, MonitorOrNone
  <2>3. ASSUME Suspend \/ PollCancelled \/ CancelDp \/ CancelHp \/ HpCancelled \/
       ResumePoll \/ ResumeNotify PROVE HwType'
    BY <2>3 DEF Suspend, PollCancelled, CancelDp, CancelHp, HpCancelled, ResumePoll,
         ResumeNotify, TypeOK, HwType, hw_vars
  <2>. QED BY <1>7, <2>1, <2>2, <2>3 DEF Pm
<1>8. ASSUME NEW c \in DpPorts, Pulse(c) PROVE HwType'
  BY <1>8 DEF Pulse, TypeOK, HwType, hw_vars, HpdPorts, Ports, Latch, MonitorOrNone
<1>9. CASE UNCHANGED vars
  BY <1>9 DEF vars, TypeOK, HwType, hw_vars
<1>. QED BY <1>1, <1>2, <1>3, <1>4, <1>5, <1>6, <1>7, <1>8, <1>9 DEF Next

LEMMA ConnTypeStep ==
  ASSUME TypeOK, [Next]_vars PROVE ConnType'
<1>1. ASSUME Monitor PROVE ConnType'
  BY <1>1 DEF Monitor, Plug, Unplug, TypeOK, ConnType, conn_vars
<1>2. ASSUME Irq PROVE ConnType'
  BY <1>2 DEF Irq, IrqEnter, IrqMask, IrqQueue, IrqUnlock, IrqKick, TypeOK,
       ConnType, conn_vars
<1>3. ASSUME DpWork PROVE ConnType'
  BY <1>3 DEF DpWork, DpStart, DpTake, DpDrained, DpHandle, DpPublish, DpKick,
       TypeOK, ConnType, conn_vars
<1>4. ASSUME HpWork PROVE ConnType'
  <2>1. ASSUME NEW c \in Ports, HpScan(c) PROVE ConnType'
    BY <2>1, DetectedType DEF HpScan, TypeOK, ConnType, conn_vars
  <2>2. ASSUME HpNotify PROVE ConnType'
    BY <2>2 DEF HpNotify, TypeOK, ConnType, conn_vars
  <2>3. ASSUME HpTake \/ HpLock \/ HpUnlock PROVE ConnType'
    BY <2>3 DEF HpTake, HpLock, HpUnlock, TypeOK, ConnType, conn_vars
  <2>. QED BY <1>4, <2>1, <2>2, <2>3 DEF HpWork
<1>5. ASSUME PollWork PROVE ConnType'
  <2>1. ASSUME NEW c \in Ports, PollScan(c) PROVE ConnType'
    <3>1. PollDetected(c) \in MonitorOrNone BY PollDetectedType DEF TypeOK
    <3>2. known' \in [Ports -> MonitorOrNone] /\ told' = told
      BY <2>1, <3>1 DEF PollScan, TypeOK, ConnType
    <3>3. \E n \in 0..PollTimes : polltime' = [polltime EXCEPT ![c] = n]
      <4>1. 0 \in 0..PollTimes OBVIOUS
      <4>2. polltime[c] # 0 => polltime[c] - 1 \in 0..PollTimes BY DEF TypeOK, ConnType
      <4>. QED BY <2>1, <4>1, <4>2 DEF PollScan
    <3>. QED BY <3>2, <3>3 DEF TypeOK, ConnType
  <2>2. ASSUME PollOut PROVE ConnType'
    BY <2>2 DEF PollOut, TypeOK, ConnType, conn_vars
  <2>3. ASSUME PollStart \/ PollUnlock PROVE ConnType'
    BY <2>3 DEF PollStart, PollUnlock, TypeOK, ConnType, conn_vars
  <2>. QED BY <1>5, <2>1, <2>2, <2>3 DEF PollWork
<1>6. ASSUME Os PROVE ConnType'
  <2>1. ASSUME NEW c \in Ports, OsDetect(c) PROVE ConnType'
    BY <2>1, DetectedType DEF OsDetect, TypeOK, ConnType, conn_vars
  <2>2. ASSUME NEW c \in Ports, OsDetectFast(c) PROVE ConnType'
    BY <2>2 DEF OsDetectFast, TypeOK, ConnType, conn_vars
  <2>. QED BY <1>6, <2>1, <2>2 DEF Os
<1>7. ASSUME Pm PROVE ConnType'
  <2>1. ASSUME ResumeDetect PROVE ConnType'
    BY <2>1, DetectedType DEF ResumeDetect, TypeOK, ConnType, conn_vars
  <2>2. ASSUME ResumeNotify PROVE ConnType'
    BY <2>2 DEF ResumeNotify, TypeOK, ConnType, conn_vars
  <2>3. ASSUME Suspend \/ PollCancelled \/ CancelDp \/ CancelHp \/ HpCancelled \/
       Resume \/ ResumePoll PROVE ConnType'
    BY <2>3 DEF Suspend, PollCancelled, CancelDp, CancelHp, HpCancelled, Resume,
         ResumePoll, TypeOK, ConnType, conn_vars
  <2>. QED BY <1>7, <2>1, <2>2, <2>3 DEF Pm
<1>8. ASSUME NEW c \in DpPorts, Pulse(c) PROVE ConnType'
  BY <1>8 DEF Pulse, TypeOK, ConnType, conn_vars
<1>9. CASE UNCHANGED vars
  BY <1>9 DEF vars, TypeOK, ConnType, conn_vars
<1>. QED BY <1>1, <1>2, <1>3, <1>4, <1>5, <1>6, <1>7, <1>8, <1>9 DEF Next

LEMMA SentTypeStep ==
  ASSUME TypeOK, Phases, Echo, [Next]_vars PROVE SentType'
<1>1. ASSUME Monitor PROVE SentType'
  <2>1. ASSUME NEW c \in Ports, NEW m \in Monitors, Plug(c, m) PROVE SentType'
    BY <2>1 DEF Plug, TypeOK, SentType, sent_vars
  <2>2. ASSUME NEW c \in Ports, NEW more \in 0..MaxLag, Unplug(c, more) PROVE
       SentType'
    BY <2>2 DEF Unplug, TypeOK, SentType, sent_vars
  <2>. QED BY <1>1, <2>1, <2>2 DEF Monitor
<1>2. ASSUME Irq PROVE SentType'
  <2>1. ASSUME NEW c \in HpdPorts, IrqMask(c) PROVE SentType'
    BY <2>1 DEF IrqMask, TypeOK, SentType, sent_vars
  <2>2. ASSUME NEW c \in HpdPorts, IrqQueue(c) PROVE SentType'
    <3>1. <<c, latch[c]>> \in Events BY <2>2 DEF IrqQueue, Events
    <3>2. queue' \in Seq(Events) /\ Len(queue') <= QueueDepth
      BY <2>2, <3>1 DEF IrqQueue, QueueFull, TypeOK, SentType
    <3>. QED BY <2>2, <3>2 DEF IrqQueue, TypeOK, SentType
  <2>3. ASSUME IrqEnter \/ IrqUnlock \/ IrqKick PROVE SentType'
    BY <2>3 DEF IrqEnter, IrqUnlock, IrqKick, TypeOK, SentType, sent_vars
  <2>. QED BY <1>2, <2>1, <2>2, <2>3 DEF Irq
<1>3. ASSUME DpWork PROVE SentType'
  <2>1. ASSUME DpTake PROVE SentType'
    BY <2>1 DEF DpTake, TypeOK, SentType, sent_vars
  <2>2. ASSUME DpHandle PROVE SentType'
    BY <2>2 DEF DpHandle, TypeOK, SentType, sent_vars, Phases, Events
  <2>3. ASSUME DpPublish PROVE SentType'
    BY <2>3 DEF DpPublish, TypeOK, SentType, sent_vars, WorkType, HpdPorts
  <2>4. ASSUME DpStart \/ DpDrained \/ DpKick PROVE SentType'
    BY <2>4 DEF DpStart, DpDrained, DpKick, TypeOK, SentType, sent_vars
  <2>. QED BY <1>3, <2>1, <2>2, <2>3, <2>4 DEF DpWork
<1>4. ASSUME HpWork PROVE SentType'
  <2>1. ASSUME HpTake PROVE SentType'
    BY <2>1 DEF HpTake, TypeOK, SentType, sent_vars
  <2>2. ASSUME NEW c \in Ports, HpScan(c) PROVE SentType'
    <3>1. Fooled(c) => c \in DpPorts BY DEF Fooled, Echo
    <3>. QED BY <2>2, <3>1 DEF HpScan, TypeOK, SentType, sent_vars
  <2>3. ASSUME HpLock \/ HpUnlock \/ HpNotify PROVE SentType'
    BY <2>3 DEF HpLock, HpUnlock, HpNotify, TypeOK, SentType, sent_vars
  <2>. QED BY <1>4, <2>1, <2>2, <2>3 DEF HpWork
<1>5. ASSUME PollWork PROVE SentType'
  BY <1>5 DEF PollWork, PollStart, PollScan, PollUnlock, PollOut, TypeOK, SentType,
       sent_vars
<1>6. ASSUME Os PROVE SentType'
  BY <1>6 DEF Os, OsDetect, OsDetectFast, TypeOK, SentType, sent_vars
<1>7. ASSUME Pm PROVE SentType'
  BY <1>7 DEF Pm, Suspend, PollCancelled, CancelDp, CancelHp, HpCancelled, Resume,
       ResumePoll, ResumeDetect, ResumeNotify, TypeOK, SentType, sent_vars
<1>8. ASSUME NEW c \in DpPorts, Pulse(c) PROVE SentType'
  BY <1>8 DEF Pulse, TypeOK, SentType, sent_vars
<1>9. CASE UNCHANGED vars
  BY <1>9 DEF vars, TypeOK, SentType, sent_vars
<1>. QED BY <1>1, <1>2, <1>3, <1>4, <1>5, <1>6, <1>7, <1>8, <1>9 DEF Next

LEMMA IrqTypeStep ==
  ASSUME TypeOK, [Next]_vars PROVE IrqType'
<1>1. ASSUME Monitor PROVE IrqType'
  BY <1>1 DEF Monitor, Plug, Unplug, TypeOK, IrqType, irq_vars
<1>2. ASSUME Irq PROVE IrqType'
  <2>1. ASSUME IrqEnter PROVE IrqType'
    BY <2>1 DEF IrqEnter, TypeOK, IrqType, irq_vars
  <2>2. ASSUME NEW c \in HpdPorts, IrqMask(c) PROVE IrqType'
    BY <2>2 DEF IrqMask, TypeOK, IrqType, irq_vars
  <2>3. ASSUME NEW c \in HpdPorts, IrqQueue(c) PROVE IrqType'
    BY <2>3 DEF IrqQueue, TypeOK, IrqType, irq_vars
  <2>4. ASSUME IrqUnlock PROVE IrqType'
    BY <2>4 DEF IrqUnlock, TypeOK, IrqType, irq_vars
  <2>5. ASSUME IrqKick PROVE IrqType'
    BY <2>5 DEF IrqKick, TypeOK, IrqType, irq_vars
  <2>. QED BY <1>2, <2>1, <2>2, <2>3, <2>4, <2>5 DEF Irq
<1>3. ASSUME DpWork PROVE IrqType'
  BY <1>3 DEF DpWork, DpStart, DpTake, DpDrained, DpHandle, DpPublish, DpKick,
       TypeOK, IrqType, irq_vars
<1>4. ASSUME HpWork PROVE IrqType'
  BY <1>4 DEF HpWork, HpTake, HpLock, HpScan, HpUnlock, HpNotify, TypeOK, IrqType,
       irq_vars
<1>5. ASSUME PollWork PROVE IrqType'
  BY <1>5 DEF PollWork, PollStart, PollScan, PollUnlock, PollOut, TypeOK, IrqType,
       irq_vars
<1>6. ASSUME Os PROVE IrqType'
  BY <1>6 DEF Os, OsDetect, OsDetectFast, TypeOK, IrqType, irq_vars
<1>7. ASSUME Pm PROVE IrqType'
  <2>1. ASSUME CancelDp PROVE IrqType'
    BY <2>1 DEF CancelDp, TypeOK, IrqType, irq_vars
  <2>2. ASSUME Resume PROVE IrqType'
    BY <2>2 DEF Resume, TypeOK, IrqType, irq_vars
  <2>3. ASSUME Suspend \/ PollCancelled \/ CancelHp \/ HpCancelled \/ ResumePoll \/
       ResumeDetect \/ ResumeNotify PROVE IrqType'
    BY <2>3 DEF Suspend, PollCancelled, CancelHp, HpCancelled, ResumePoll,
         ResumeDetect, ResumeNotify, TypeOK, IrqType, irq_vars
  <2>. QED BY <1>7, <2>1, <2>2, <2>3 DEF Pm
<1>8. ASSUME NEW c \in DpPorts, Pulse(c) PROVE IrqType'
  BY <1>8 DEF Pulse, TypeOK, IrqType, irq_vars
<1>9. CASE UNCHANGED vars
  BY <1>9 DEF vars, TypeOK, IrqType, irq_vars
<1>. QED BY <1>1, <1>2, <1>3, <1>4, <1>5, <1>6, <1>7, <1>8, <1>9 DEF Next

LEMMA WorkTypeStep ==
  ASSUME TypeOK, Phases, [Next]_vars PROVE WorkType'
<1>1. ASSUME Monitor PROVE WorkType'
  BY <1>1 DEF Monitor, Plug, Unplug, TypeOK, WorkType, work_vars, dp_vars, hp_vars
<1>2. ASSUME Irq PROVE WorkType'
  <2>1. ASSUME IrqKick PROVE WorkType'
    BY <2>1 DEF IrqKick, TypeOK, WorkType, work_vars, dp_vars, hp_vars, IrqType,
         DpQueued, HpQueued
  <2>2. ASSUME IrqEnter \/ (\E c \in HpdPorts : IrqMask(c)) \/ (\E c \in HpdPorts :
       IrqQueue(c)) \/ IrqUnlock PROVE WorkType'
    BY <2>2 DEF IrqEnter, IrqMask, IrqQueue, IrqUnlock, TypeOK, WorkType, work_vars,
         dp_vars, hp_vars
  <2>. QED BY <1>2, <2>1, <2>2 DEF Irq
<1>3. ASSUME DpWork PROVE WorkType'
  <2>1. ASSUME DpStart PROVE WorkType'
    BY <2>1 DEF DpStart, TypeOK, WorkType, work_vars, dp_vars, hp_vars
  <2>2. ASSUME DpTake PROVE WorkType'
    BY <2>2 DEF DpTake, TypeOK, WorkType, work_vars, dp_vars, hp_vars, SentType
  <2>3. ASSUME DpDrained PROVE WorkType'
    BY <2>3 DEF DpDrained, TypeOK, WorkType, work_vars, dp_vars, hp_vars
  <2>4. ASSUME DpHandle PROVE WorkType'
    BY <2>4 DEF DpHandle, TypeOK, WorkType, work_vars, dp_vars, hp_vars, Phases,
         Events
  <2>5. ASSUME DpPublish PROVE WorkType'
    BY <2>5 DEF DpPublish, TypeOK, WorkType, work_vars, dp_vars, hp_vars
  <2>6. ASSUME DpKick PROVE WorkType'
    BY <2>6 DEF DpKick, TypeOK, WorkType, work_vars, dp_vars, hp_vars, HpQueued
  <2>. QED BY <1>3, <2>1, <2>2, <2>3, <2>4, <2>5, <2>6 DEF DpWork
<1>4. ASSUME HpWork PROVE WorkType'
  <2>1. ASSUME HpTake PROVE WorkType'
    BY <2>1 DEF HpTake, TypeOK, WorkType, work_vars, dp_vars, hp_vars, SentType
  <2>2. ASSUME HpLock PROVE WorkType'
    BY <2>2 DEF HpLock, TypeOK, WorkType, work_vars, dp_vars, hp_vars
  <2>3. ASSUME NEW c \in Ports, HpScan(c) PROVE WorkType'
    BY <2>3 DEF HpScan, TypeOK, WorkType, work_vars, dp_vars, hp_vars, PollType
  <2>4. ASSUME HpUnlock PROVE WorkType'
    BY <2>4 DEF HpUnlock, TypeOK, WorkType, work_vars, dp_vars, hp_vars, PollQueued,
         SomethingToPoll
  <2>5. ASSUME HpNotify PROVE WorkType'
    BY <2>5 DEF HpNotify, TypeOK, WorkType, work_vars, dp_vars, hp_vars
  <2>. QED BY <1>4, <2>1, <2>2, <2>3, <2>4, <2>5 DEF HpWork
<1>5. ASSUME PollWork PROVE WorkType'
  <2>1. ASSUME PollStart PROVE WorkType'
    BY <2>1 DEF PollStart, TypeOK, WorkType, work_vars, dp_vars, hp_vars
  <2>2. ASSUME NEW c \in Ports, PollScan(c) PROVE WorkType'
    BY <2>2 DEF PollScan, TypeOK, WorkType, work_vars, dp_vars, hp_vars
  <2>3. ASSUME PollOut PROVE WorkType'
    BY <2>3 DEF PollOut, TypeOK, WorkType, work_vars, dp_vars, hp_vars, PollQueued,
         PollType
  <2>4. ASSUME PollUnlock PROVE WorkType'
    BY <2>4 DEF PollUnlock, TypeOK, WorkType, work_vars, dp_vars, hp_vars
  <2>. QED BY <1>5, <2>1, <2>2, <2>3, <2>4 DEF PollWork
<1>6. ASSUME Os PROVE WorkType'
  <2>1. ASSUME NEW c \in Ports, OsDetect(c) PROVE WorkType'
    BY <2>1 DEF OsDetect, TypeOK, WorkType, work_vars, dp_vars, hp_vars
  <2>2. ASSUME NEW c \in Ports, OsDetectFast(c) PROVE WorkType'
    BY <2>2 DEF OsDetectFast, TypeOK, WorkType, work_vars, dp_vars, hp_vars,
         PollType
  <2>. QED BY <1>6, <2>1, <2>2 DEF Os
<1>7. ASSUME Pm PROVE WorkType'
  <2>1. ASSUME Suspend PROVE WorkType'
    BY <2>1 DEF Suspend, TypeOK, WorkType, work_vars, dp_vars, hp_vars
  <2>2. ASSUME CancelDp PROVE WorkType'
    BY <2>2 DEF CancelDp, TypeOK, WorkType, work_vars, dp_vars, hp_vars
  <2>3. ASSUME CancelHp PROVE WorkType'
    BY <2>3 DEF CancelHp, TypeOK, WorkType, work_vars, dp_vars, hp_vars
  <2>4. ASSUME ResumePoll PROVE WorkType'
    BY <2>4 DEF ResumePoll, TypeOK, WorkType, work_vars, dp_vars, hp_vars,
         SomethingToPoll
  <2>5. ASSUME ResumeDetect PROVE WorkType'
    BY <2>5 DEF ResumeDetect, TypeOK, WorkType, work_vars, dp_vars, hp_vars
  <2>6. ASSUME PollCancelled \/ HpCancelled \/ Resume \/ ResumeNotify PROVE
       WorkType'
    BY <2>6 DEF PollCancelled, HpCancelled, Resume, ResumeNotify, TypeOK, WorkType,
         work_vars, dp_vars, hp_vars
  <2>. QED BY <1>7, <2>1, <2>2, <2>3, <2>4, <2>5, <2>6 DEF Pm
<1>8. ASSUME NEW c \in DpPorts, Pulse(c) PROVE WorkType'
  BY <1>8 DEF Pulse, TypeOK, WorkType, work_vars, dp_vars, hp_vars
<1>9. CASE UNCHANGED vars
  BY <1>9 DEF vars, TypeOK, WorkType, work_vars, dp_vars, hp_vars
<1>. QED BY <1>1, <1>2, <1>3, <1>4, <1>5, <1>6, <1>7, <1>8, <1>9 DEF Next

LEMMA PollTypeStep ==
  ASSUME TypeOK, [Next]_vars PROVE PollType'
<1>1. ASSUME Monitor PROVE PollType'
  BY <1>1 DEF Monitor, Plug, Unplug, TypeOK, PollType, poll_vars
<1>2. ASSUME Irq PROVE PollType'
  BY <1>2 DEF Irq, IrqEnter, IrqMask, IrqQueue, IrqUnlock, IrqKick, TypeOK,
       PollType, poll_vars
<1>3. ASSUME DpWork PROVE PollType'
  BY <1>3 DEF DpWork, DpStart, DpTake, DpDrained, DpHandle, DpPublish, DpKick,
       TypeOK, PollType, poll_vars
<1>4. ASSUME HpWork PROVE PollType'
  BY <1>4 DEF HpWork, HpTake, HpLock, HpScan, HpUnlock, HpNotify, TypeOK, PollType,
       poll_vars
<1>5. ASSUME PollWork PROVE PollType'
  <2>1. ASSUME PollStart PROVE PollType'
    BY <2>1 DEF PollStart, TypeOK, PollType, poll_vars, SomethingToPoll, Ports,
         HpdPorts
  <2>2. ASSUME NEW c \in Ports, PollScan(c) PROVE PollType'
    BY <2>2 DEF PollScan, TypeOK, PollType, poll_vars
  <2>3. ASSUME PollUnlock PROVE PollType'
    BY <2>3 DEF PollUnlock, TypeOK, PollType, poll_vars
  <2>4. ASSUME PollOut PROVE PollType'
    BY <2>4 DEF PollOut, TypeOK, PollType, poll_vars
  <2>. QED BY <1>5, <2>1, <2>2, <2>3, <2>4 DEF PollWork
<1>6. ASSUME Os PROVE PollType'
  BY <1>6 DEF Os, OsDetect, OsDetectFast, TypeOK, PollType, poll_vars
<1>7. ASSUME Pm PROVE PollType'
  BY <1>7 DEF Pm, Suspend, PollCancelled, CancelDp, CancelHp, HpCancelled, Resume,
       ResumePoll, ResumeDetect, ResumeNotify, TypeOK, PollType, poll_vars
<1>8. ASSUME NEW c \in DpPorts, Pulse(c) PROVE PollType'
  BY <1>8 DEF Pulse, TypeOK, PollType, poll_vars
<1>9. CASE UNCHANGED vars
  BY <1>9 DEF vars, TypeOK, PollType, poll_vars
<1>. QED BY <1>1, <1>2, <1>3, <1>4, <1>5, <1>6, <1>7, <1>8, <1>9 DEF Next

LEMMA PmTypeStep ==
  ASSUME TypeOK, [Next]_vars PROVE PmType'
<1>1. ASSUME Monitor PROVE PmType'
  BY <1>1 DEF Monitor, Plug, Unplug, TypeOK, PmType, pm_vars
<1>2. ASSUME Irq PROVE PmType'
  BY <1>2 DEF Irq, IrqEnter, IrqMask, IrqQueue, IrqUnlock, IrqKick, TypeOK, PmType,
       pm_vars
<1>3. ASSUME DpWork PROVE PmType'
  BY <1>3 DEF DpWork, DpStart, DpTake, DpDrained, DpHandle, DpPublish, DpKick,
       TypeOK, PmType, pm_vars
<1>4. ASSUME HpWork PROVE PmType'
  BY <1>4 DEF HpWork, HpTake, HpLock, HpScan, HpUnlock, HpNotify, TypeOK, PmType,
       pm_vars
<1>5. ASSUME PollWork PROVE PmType'
  BY <1>5 DEF PollWork, PollStart, PollScan, PollUnlock, PollOut, TypeOK, PmType,
       pm_vars
<1>6. ASSUME Os PROVE PmType'
  BY <1>6 DEF Os, OsDetect, OsDetectFast, TypeOK, PmType, pm_vars
<1>7. ASSUME Pm PROVE PmType'
  <2>1. ASSUME Suspend PROVE PmType'
    BY <2>1 DEF Suspend, TypeOK, PmType, pm_vars
  <2>2. ASSUME PollCancelled PROVE PmType'
    BY <2>2 DEF PollCancelled, TypeOK, PmType, pm_vars
  <2>3. ASSUME CancelDp PROVE PmType'
    BY <2>3 DEF CancelDp, TypeOK, PmType, pm_vars
  <2>4. ASSUME CancelHp PROVE PmType'
    BY <2>4 DEF CancelHp, TypeOK, PmType, pm_vars
  <2>5. ASSUME HpCancelled PROVE PmType'
    BY <2>5 DEF HpCancelled, TypeOK, PmType, pm_vars
  <2>6. ASSUME Resume PROVE PmType'
    BY <2>6 DEF Resume, TypeOK, PmType, pm_vars
  <2>7. ASSUME ResumePoll PROVE PmType'
    BY <2>7 DEF ResumePoll, TypeOK, PmType, pm_vars
  <2>8. ASSUME ResumeDetect PROVE PmType'
    BY <2>8 DEF ResumeDetect, TypeOK, PmType, pm_vars
  <2>9. ASSUME ResumeNotify PROVE PmType'
    BY <2>9 DEF ResumeNotify, TypeOK, PmType, pm_vars
  <2>. QED BY <1>7, <2>1, <2>2, <2>3, <2>4, <2>5, <2>6, <2>7, <2>8, <2>9 DEF Pm
<1>8. ASSUME NEW c \in DpPorts, Pulse(c) PROVE PmType'
  BY <1>8 DEF Pulse, TypeOK, PmType, pm_vars
<1>9. CASE UNCHANGED vars
  BY <1>9 DEF vars, TypeOK, PmType, pm_vars
<1>. QED BY <1>1, <1>2, <1>3, <1>4, <1>5, <1>6, <1>7, <1>8, <1>9 DEF Next

LEMMA TypeStep ==
  ASSUME TypeOK, Phases, Echo, [Next]_vars PROVE TypeOK'
  BY HwTypeStep, ConnTypeStep, SentTypeStep, IrqTypeStep, WorkTypeStep, PollTypeStep,
     PmTypeStep DEF TypeOK

-------------------------------------------------------------------------------
(* The parts of the invariant.                                              *)

LEMMA PhasesStep ==
  ASSUME TypeOK, Phases, [Next]_vars PROVE Phases'
<1>1. ASSUME Monitor PROVE Phases'
  BY <1>1 DEF Monitor, Plug, Unplug, TypeOK, Phases, irq_vars, dp_vars, hp_vars,
       poll_vars, pm_vars
<1>2. ASSUME Irq PROVE Phases'
  <2>1. ASSUME IrqEnter PROVE Phases'
    BY <2>1 DEF IrqEnter, TypeOK, Phases, irq_vars, dp_vars, hp_vars, poll_vars,
         pm_vars
  <2>2. ASSUME NEW c \in HpdPorts, IrqMask(c) PROVE Phases'
    BY <2>2 DEF IrqMask, TypeOK, Phases, irq_vars, dp_vars, hp_vars, poll_vars,
         pm_vars
  <2>3. ASSUME NEW c \in HpdPorts, IrqQueue(c) PROVE Phases'
    BY <2>3 DEF IrqQueue, TypeOK, Phases, irq_vars, dp_vars, hp_vars, poll_vars,
         pm_vars
  <2>4. ASSUME IrqUnlock PROVE Phases'
    BY <2>4 DEF IrqUnlock, TypeOK, Phases, irq_vars, dp_vars, hp_vars, poll_vars,
         pm_vars
  <2>5. ASSUME IrqKick PROVE Phases'
    BY <2>5 DEF IrqKick, TypeOK, Phases, irq_vars, dp_vars, hp_vars, poll_vars,
         pm_vars
  <2>. QED BY <1>2, <2>1, <2>2, <2>3, <2>4, <2>5 DEF Irq
<1>3. ASSUME DpWork PROVE Phases'
  <2>1. ASSUME DpStart PROVE Phases'
    BY <2>1 DEF DpStart, TypeOK, Phases, irq_vars, dp_vars, hp_vars, poll_vars,
         pm_vars
  <2>2. ASSUME DpTake PROVE Phases'
    BY <2>2 DEF DpTake, TypeOK, Phases, irq_vars, dp_vars, hp_vars, poll_vars,
         pm_vars, SentType
  <2>3. ASSUME DpDrained PROVE Phases'
    BY <2>3 DEF DpDrained, TypeOK, Phases, irq_vars, dp_vars, hp_vars, poll_vars,
         pm_vars
  <2>4. ASSUME DpHandle PROVE Phases'
    BY <2>4 DEF DpHandle, TypeOK, Phases, irq_vars, dp_vars, hp_vars, poll_vars,
         pm_vars, MutexFree
  <2>5. ASSUME DpPublish PROVE Phases'
    BY <2>5 DEF DpPublish, TypeOK, Phases, irq_vars, dp_vars, hp_vars, poll_vars,
         pm_vars
  <2>6. ASSUME DpKick PROVE Phases'
    BY <2>6 DEF DpKick, TypeOK, Phases, irq_vars, dp_vars, hp_vars, poll_vars,
         pm_vars
  <2>. QED BY <1>3, <2>1, <2>2, <2>3, <2>4, <2>5, <2>6 DEF DpWork
<1>4. ASSUME HpWork PROVE Phases'
  <2>1. ASSUME HpTake PROVE Phases'
    BY <2>1 DEF HpTake, TypeOK, Phases, irq_vars, dp_vars, hp_vars, poll_vars,
         pm_vars
  <2>2. ASSUME HpLock PROVE Phases'
    BY <2>2 DEF HpLock, TypeOK, Phases, irq_vars, dp_vars, hp_vars, poll_vars,
         pm_vars, MutexFree
  <2>3. ASSUME NEW c \in Ports, HpScan(c) PROVE Phases'
    BY <2>3 DEF HpScan, TypeOK, Phases, irq_vars, dp_vars, hp_vars, poll_vars,
         pm_vars, WorkType
  <2>4. ASSUME HpUnlock PROVE Phases'
    BY <2>4 DEF HpUnlock, TypeOK, Phases, irq_vars, dp_vars, hp_vars, poll_vars,
         pm_vars
  <2>5. ASSUME HpNotify PROVE Phases'
    BY <2>5 DEF HpNotify, TypeOK, Phases, irq_vars, dp_vars, hp_vars, poll_vars,
         pm_vars
  <2>. QED BY <1>4, <2>1, <2>2, <2>3, <2>4, <2>5 DEF HpWork
<1>5. ASSUME PollWork PROVE Phases'
  <2>1. ASSUME PollStart PROVE Phases'
    BY <2>1 DEF PollStart, TypeOK, Phases, irq_vars, dp_vars, hp_vars, poll_vars,
         pm_vars, MutexFree
  <2>2. ASSUME NEW c \in Ports, PollScan(c) PROVE Phases'
    BY <2>2 DEF PollScan, TypeOK, Phases, irq_vars, dp_vars, hp_vars, poll_vars,
         pm_vars
  <2>3. ASSUME PollUnlock PROVE Phases'
    BY <2>3 DEF PollUnlock, TypeOK, Phases, irq_vars, dp_vars, hp_vars, poll_vars,
         pm_vars
  <2>4. ASSUME PollOut PROVE Phases'
    BY <2>4 DEF PollOut, TypeOK, Phases, irq_vars, dp_vars, hp_vars, poll_vars,
         pm_vars
  <2>. QED BY <1>5, <2>1, <2>2, <2>3, <2>4 DEF PollWork
<1>6. ASSUME Os PROVE Phases'
  <2>1. ASSUME NEW c \in Ports, OsDetect(c) PROVE Phases'
    BY <2>1 DEF OsDetect, TypeOK, Phases, irq_vars, dp_vars, hp_vars, poll_vars,
         pm_vars
  <2>2. ASSUME NEW c \in Ports, OsDetectFast(c) PROVE Phases'
    BY <2>2 DEF OsDetectFast, TypeOK, Phases, irq_vars, dp_vars, hp_vars, poll_vars,
         pm_vars
  <2>. QED BY <1>6, <2>1, <2>2 DEF Os
<1>7. ASSUME Pm PROVE Phases'
  <2>1. ASSUME Suspend PROVE Phases'
    BY <2>1 DEF Suspend, TypeOK, Phases, irq_vars, dp_vars, hp_vars, poll_vars,
         pm_vars, PmType
  <2>2. ASSUME PollCancelled PROVE Phases'
    BY <2>2 DEF PollCancelled, TypeOK, Phases, irq_vars, dp_vars, hp_vars,
         poll_vars, pm_vars
  <2>3. ASSUME CancelDp PROVE Phases'
    BY <2>3 DEF CancelDp, TypeOK, Phases, irq_vars, dp_vars, hp_vars, poll_vars,
         pm_vars
  <2>4. ASSUME CancelHp PROVE Phases'
    BY <2>4 DEF CancelHp, TypeOK, Phases, irq_vars, dp_vars, hp_vars, poll_vars,
         pm_vars
  <2>5. ASSUME HpCancelled PROVE Phases'
    BY <2>5 DEF HpCancelled, TypeOK, Phases, irq_vars, dp_vars, hp_vars, poll_vars,
         pm_vars
  <2>6. ASSUME Resume PROVE Phases'
    BY <2>6 DEF Resume, TypeOK, Phases, irq_vars, dp_vars, hp_vars, poll_vars,
         pm_vars
  <2>7. ASSUME ResumePoll PROVE Phases'
    BY <2>7 DEF ResumePoll, TypeOK, Phases, irq_vars, dp_vars, hp_vars, poll_vars,
         pm_vars, MutexFree
  <2>8. ASSUME ResumeDetect PROVE Phases'
    BY <2>8 DEF ResumeDetect, TypeOK, Phases, irq_vars, dp_vars, hp_vars, poll_vars,
         pm_vars, MutexFree
  <2>9. ASSUME ResumeNotify PROVE Phases'
    BY <2>9 DEF ResumeNotify, TypeOK, Phases, irq_vars, dp_vars, hp_vars, poll_vars,
         pm_vars
  <2>. QED BY <1>7, <2>1, <2>2, <2>3, <2>4, <2>5, <2>6, <2>7, <2>8, <2>9 DEF Pm
<1>8. ASSUME NEW c \in DpPorts, Pulse(c) PROVE Phases'
  BY <1>8 DEF Pulse, TypeOK, Phases, irq_vars, dp_vars, hp_vars, poll_vars, pm_vars
<1>9. CASE UNCHANGED vars
  BY <1>9 DEF vars, TypeOK, Phases, irq_vars, dp_vars, hp_vars, poll_vars, pm_vars
<1>. QED BY <1>1, <1>2, <1>3, <1>4, <1>5, <1>6, <1>7, <1>8, <1>9 DEF Next

LEMMA EchoStep ==
  ASSUME HwType, Echo, [Next]_vars PROVE Echo'
<1>1. ASSUME Monitor PROVE Echo'
  <2>1. ASSUME NEW c \in Ports, NEW m \in Monitors, Plug(c, m) PROVE Echo'
    BY <2>1 DEF Plug, HwType, Echo, hw_vars
  <2>2. ASSUME NEW c \in Ports, NEW more \in 0..MaxLag, Unplug(c, more) PROVE Echo'
    BY <2>2 DEF Unplug, HwType, Echo, hw_vars
  <2>. QED BY <1>1, <2>1, <2>2 DEF Monitor
<1>2. ASSUME Irq PROVE Echo'
  BY <1>2 DEF Irq, IrqEnter, IrqMask, IrqQueue, IrqUnlock, IrqKick, HwType, Echo,
       hw_vars
<1>3. ASSUME DpWork PROVE Echo'
  BY <1>3 DEF DpWork, DpStart, DpTake, DpDrained, DpHandle, DpPublish, DpKick,
       HwType, Echo, hw_vars
<1>4. ASSUME HpWork PROVE Echo'
  <2>1. ASSUME NEW c \in Ports, HpScan(c) PROVE Echo'
    BY <2>1 DEF HpScan, HwType, Echo, hw_vars, Probe
  <2>2. ASSUME HpTake \/ HpLock \/ HpUnlock \/ HpNotify PROVE Echo'
    BY <2>2 DEF HpTake, HpLock, HpUnlock, HpNotify, HwType, Echo, hw_vars
  <2>. QED BY <1>4, <2>1, <2>2 DEF HpWork
<1>5. ASSUME PollWork PROVE Echo'
  <2>1. ASSUME NEW c \in Ports, PollScan(c) PROVE Echo'
    BY <2>1 DEF PollScan, HwType, Echo, hw_vars, Probe, ProbeTwice, PollProbe
  <2>2. ASSUME PollStart \/ PollUnlock \/ PollOut PROVE Echo'
    BY <2>2 DEF PollStart, PollUnlock, PollOut, HwType, Echo, hw_vars
  <2>. QED BY <1>5, <2>1, <2>2 DEF PollWork
<1>6. ASSUME Os PROVE Echo'
  <2>1. ASSUME NEW c \in Ports, OsDetect(c) PROVE Echo'
    BY <2>1 DEF OsDetect, HwType, Echo, hw_vars, Probe
  <2>2. ASSUME (\E c \in Ports : OsDetectFast(c)) PROVE Echo'
    BY <2>2 DEF OsDetectFast, HwType, Echo, hw_vars
  <2>. QED BY <1>6, <2>1, <2>2 DEF Os
<1>7. ASSUME Pm PROVE Echo'
  <2>1. ASSUME Resume PROVE Echo'
    BY <2>1 DEF Resume, HwType, Echo, hw_vars
  <2>2. ASSUME ResumeDetect PROVE Echo'
    BY <2>2 DEF ResumeDetect, HwType, Echo, hw_vars
  <2>3. ASSUME Suspend \/ PollCancelled \/ CancelDp \/ CancelHp \/ HpCancelled \/
       ResumePoll \/ ResumeNotify PROVE Echo'
    BY <2>3 DEF Suspend, PollCancelled, CancelDp, CancelHp, HpCancelled, ResumePoll,
         ResumeNotify, HwType, Echo, hw_vars
  <2>. QED BY <1>7, <2>1, <2>2, <2>3 DEF Pm
<1>8. ASSUME NEW c \in DpPorts, Pulse(c) PROVE Echo'
  BY <1>8 DEF Pulse, HwType, Echo, hw_vars
<1>9. CASE UNCHANGED vars
  BY <1>9 DEF vars, HwType, Echo, hw_vars
<1>. QED BY <1>1, <1>2, <1>3, <1>4, <1>5, <1>6, <1>7, <1>8, <1>9 DEF Next

LEMMA QuietStep ==
  ASSUME TypeOK, Phases, Quiet, [Next]_vars PROVE Quiet'
<1>1. ASSUME Monitor PROVE Quiet'
  BY <1>1 DEF Monitor, Plug, Unplug, TypeOK, Quiet, IrqType, WorkType, PmType,
       irq_vars, work_vars, dp_vars, hp_vars, pm_vars
<1>2. ASSUME Irq PROVE Quiet'
  <2>1. ASSUME IrqEnter PROVE Quiet'
    BY <2>1 DEF IrqEnter, TypeOK, Quiet, IrqType, WorkType, PmType, irq_vars,
         work_vars, dp_vars, hp_vars, pm_vars
  <2>2. ASSUME IrqUnlock PROVE Quiet'
    BY <2>2 DEF IrqUnlock, TypeOK, Quiet, IrqType, WorkType, PmType, irq_vars,
         work_vars, dp_vars, hp_vars, pm_vars
  <2>3. ASSUME IrqKick PROVE Quiet'
    BY <2>3 DEF IrqKick, TypeOK, Quiet, IrqType, WorkType, PmType, irq_vars,
         work_vars, dp_vars, hp_vars, pm_vars
  <2>4. ASSUME (\E c \in HpdPorts : IrqMask(c)) \/ (\E c \in HpdPorts : IrqQueue(c))
       PROVE Quiet'
    BY <2>4 DEF IrqMask, IrqQueue, TypeOK, Quiet, IrqType, WorkType, PmType,
         irq_vars, work_vars, dp_vars, hp_vars, pm_vars
  <2>. QED BY <1>2, <2>1, <2>2, <2>3, <2>4 DEF Irq
<1>3. ASSUME DpWork PROVE Quiet'
  <2>1. ASSUME DpStart PROVE Quiet'
    BY <2>1 DEF DpStart, TypeOK, Quiet, IrqType, WorkType, PmType, irq_vars,
         work_vars, dp_vars, hp_vars, pm_vars
  <2>2. ASSUME DpTake PROVE Quiet'
    BY <2>2 DEF DpTake, TypeOK, Quiet, IrqType, WorkType, PmType, irq_vars,
         work_vars, dp_vars, hp_vars, pm_vars
  <2>3. ASSUME DpDrained PROVE Quiet'
    BY <2>3 DEF DpDrained, TypeOK, Quiet, IrqType, WorkType, PmType, irq_vars,
         work_vars, dp_vars, hp_vars, pm_vars
  <2>4. ASSUME DpHandle PROVE Quiet'
    BY <2>4 DEF DpHandle, TypeOK, Quiet, IrqType, WorkType, PmType, irq_vars,
         work_vars, dp_vars, hp_vars, pm_vars
  <2>5. ASSUME DpPublish PROVE Quiet'
    BY <2>5 DEF DpPublish, TypeOK, Quiet, IrqType, WorkType, PmType, irq_vars,
         work_vars, dp_vars, hp_vars, pm_vars
  <2>6. ASSUME DpKick PROVE Quiet'
    BY <2>6 DEF DpKick, TypeOK, Quiet, IrqType, WorkType, PmType, irq_vars,
         work_vars, dp_vars, hp_vars, pm_vars
  <2>. QED BY <1>3, <2>1, <2>2, <2>3, <2>4, <2>5, <2>6 DEF DpWork
<1>4. ASSUME HpWork PROVE Quiet'
  <2>1. ASSUME HpTake PROVE Quiet'
    BY <2>1 DEF HpTake, TypeOK, Quiet, IrqType, WorkType, PmType, irq_vars,
         work_vars, dp_vars, hp_vars, pm_vars
  <2>2. ASSUME HpLock PROVE Quiet'
    BY <2>2 DEF HpLock, TypeOK, Quiet, IrqType, WorkType, PmType, irq_vars,
         work_vars, dp_vars, hp_vars, pm_vars
  <2>3. ASSUME HpUnlock PROVE Quiet'
    BY <2>3 DEF HpUnlock, TypeOK, Quiet, IrqType, WorkType, PmType, irq_vars,
         work_vars, dp_vars, hp_vars, pm_vars
  <2>4. ASSUME HpNotify PROVE Quiet'
    BY <2>4 DEF HpNotify, TypeOK, Quiet, IrqType, WorkType, PmType, irq_vars,
         work_vars, dp_vars, hp_vars, pm_vars
  <2>5. ASSUME (\E c \in Ports : HpScan(c)) PROVE Quiet'
    BY <2>5 DEF HpScan, TypeOK, Quiet, IrqType, WorkType, PmType, irq_vars,
         work_vars, dp_vars, hp_vars, pm_vars
  <2>. QED BY <1>4, <2>1, <2>2, <2>3, <2>4, <2>5 DEF HpWork
<1>5. ASSUME PollWork PROVE Quiet'
  <2>1. ASSUME PollStart PROVE Quiet'
    BY <2>1 DEF PollStart, TypeOK, Quiet, IrqType, WorkType, PmType, irq_vars,
         work_vars, dp_vars, hp_vars, pm_vars
  <2>2. ASSUME NEW c \in Ports, PollScan(c) PROVE Quiet'
    BY <2>2 DEF PollScan, TypeOK, Quiet, IrqType, WorkType, PmType, irq_vars,
         work_vars, dp_vars, hp_vars, pm_vars
  <2>3. ASSUME PollOut PROVE Quiet'
    BY <2>3 DEF PollOut, TypeOK, Quiet, IrqType, WorkType, PmType, irq_vars,
         work_vars, dp_vars, hp_vars, pm_vars
  <2>4. ASSUME PollUnlock PROVE Quiet'
    BY <2>4 DEF PollUnlock, TypeOK, Quiet, IrqType, WorkType, PmType, irq_vars,
         work_vars, dp_vars, hp_vars, pm_vars
  <2>. QED BY <1>5, <2>1, <2>2, <2>3, <2>4 DEF PollWork
<1>6. ASSUME Os PROVE Quiet'
  BY <1>6 DEF Os, OsDetect, OsDetectFast, TypeOK, Quiet, IrqType, WorkType, PmType,
       irq_vars, work_vars, dp_vars, hp_vars, pm_vars
<1>7. ASSUME Pm PROVE Quiet'
  <2>1. ASSUME Suspend PROVE Quiet'
    BY <2>1 DEF Suspend, TypeOK, Quiet, IrqType, WorkType, PmType, irq_vars,
         work_vars, dp_vars, hp_vars, pm_vars
  <2>2. ASSUME CancelDp PROVE Quiet'
    BY <2>2 DEF CancelDp, TypeOK, Quiet, IrqType, WorkType, PmType, irq_vars,
         work_vars, dp_vars, hp_vars, pm_vars
  <2>3. ASSUME CancelHp PROVE Quiet'
    BY <2>3 DEF CancelHp, TypeOK, Quiet, IrqType, WorkType, PmType, irq_vars,
         work_vars, dp_vars, hp_vars, pm_vars
  <2>4. ASSUME HpCancelled PROVE Quiet'
    BY <2>4 DEF HpCancelled, TypeOK, Quiet, IrqType, WorkType, PmType, irq_vars,
         work_vars, dp_vars, hp_vars, pm_vars
  <2>5. ASSUME Resume PROVE Quiet'
    BY <2>5 DEF Resume, TypeOK, Quiet, IrqType, WorkType, PmType, irq_vars,
         work_vars, dp_vars, hp_vars, pm_vars
  <2>6. ASSUME ResumePoll PROVE Quiet'
    BY <2>6 DEF ResumePoll, TypeOK, Quiet, IrqType, WorkType, PmType, irq_vars,
         work_vars, dp_vars, hp_vars, pm_vars
  <2>7. ASSUME PollCancelled \/ ResumeDetect \/ ResumeNotify PROVE Quiet'
    BY <2>7 DEF PollCancelled, ResumeDetect, ResumeNotify, TypeOK, Quiet, IrqType,
         WorkType, PmType, irq_vars, work_vars, dp_vars, hp_vars, pm_vars
  <2>. QED BY <1>7, <2>1, <2>2, <2>3, <2>4, <2>5, <2>6, <2>7 DEF Pm
<1>8. ASSUME NEW c \in DpPorts, Pulse(c) PROVE Quiet'
  BY <1>8 DEF Pulse, TypeOK, Quiet, IrqType, WorkType, PmType, irq_vars, work_vars,
       dp_vars, hp_vars, pm_vars
<1>9. CASE UNCHANGED vars
  BY <1>9 DEF vars, TypeOK, Quiet, IrqType, WorkType, PmType, irq_vars, work_vars,
       dp_vars, hp_vars, pm_vars
<1>. QED BY <1>1, <1>2, <1>3, <1>4, <1>5, <1>6, <1>7, <1>8, <1>9 DEF Next

LEMMA RunningStep ==
  ASSUME TypeOK, Phases, RunningIsTrue, [Next]_vars PROVE RunningIsTrue'
<1>1. ASSUME Monitor PROVE RunningIsTrue'
  <2>1. ASSUME NEW c \in Ports, NEW m \in Monitors, Plug(c, m) PROVE RunningIsTrue'
    BY <2>1 DEF Plug, TypeOK, PmType, PollType, WorkType, Phases, RunningIsTrue,
         work_vars, poll_vars, pm_vars
  <2>2. ASSUME NEW c \in Ports, NEW more \in 0..MaxLag, Unplug(c, more) PROVE
       RunningIsTrue'
    BY <2>2 DEF Unplug, TypeOK, PmType, PollType, WorkType, Phases, RunningIsTrue,
         work_vars, poll_vars, pm_vars
  <2>. QED BY <1>1, <2>1, <2>2 DEF Monitor
<1>2. ASSUME Irq PROVE RunningIsTrue'
  BY <1>2 DEF Irq, IrqEnter, IrqMask, IrqQueue, IrqUnlock, IrqKick, TypeOK, PmType,
       PollType, WorkType, Phases, RunningIsTrue, work_vars, poll_vars, pm_vars
<1>3. ASSUME DpWork PROVE RunningIsTrue'
  BY <1>3 DEF DpWork, DpStart, DpTake, DpDrained, DpHandle, DpPublish, DpKick,
       TypeOK, PmType, PollType, WorkType, Phases, RunningIsTrue, work_vars,
       poll_vars, pm_vars
<1>4. ASSUME HpWork PROVE RunningIsTrue'
  BY <1>4 DEF HpWork, HpTake, HpLock, HpScan, HpUnlock, HpNotify, TypeOK, PmType,
       PollType, WorkType, Phases, RunningIsTrue, work_vars, poll_vars, pm_vars
<1>5. ASSUME PollWork PROVE RunningIsTrue'
  <2>1. ASSUME PollStart PROVE RunningIsTrue'
    BY <2>1 DEF PollStart, TypeOK, PmType, PollType, WorkType, Phases,
         RunningIsTrue, work_vars, poll_vars, pm_vars
  <2>2. ASSUME PollUnlock PROVE RunningIsTrue'
    BY <2>2 DEF PollUnlock, TypeOK, PmType, PollType, WorkType, Phases,
         RunningIsTrue, work_vars, poll_vars, pm_vars
  <2>3. ASSUME PollOut PROVE RunningIsTrue'
    BY <2>3 DEF PollOut, TypeOK, PmType, PollType, WorkType, Phases, RunningIsTrue,
         work_vars, poll_vars, pm_vars, PollQueued
  <2>4. ASSUME (\E c \in Ports : PollScan(c)) PROVE RunningIsTrue'
    BY <2>4 DEF PollScan, TypeOK, PmType, PollType, WorkType, Phases, RunningIsTrue,
         work_vars, poll_vars, pm_vars
  <2>. QED BY <1>5, <2>1, <2>2, <2>3, <2>4 DEF PollWork
<1>6. ASSUME Os PROVE RunningIsTrue'
  <2>1. ASSUME NEW c \in Ports, OsDetect(c) PROVE RunningIsTrue'
    BY <2>1 DEF OsDetect, TypeOK, PmType, PollType, WorkType, Phases, RunningIsTrue,
         work_vars, poll_vars, pm_vars
  <2>2. ASSUME NEW c \in Ports, OsDetectFast(c) PROVE RunningIsTrue'
    BY <2>2 DEF OsDetectFast, TypeOK, PmType, PollType, WorkType, Phases,
         RunningIsTrue, work_vars, poll_vars, pm_vars
  <2>. QED BY <1>6, <2>1, <2>2 DEF Os
<1>7. ASSUME Pm PROVE RunningIsTrue'
  <2>1. ASSUME Suspend PROVE RunningIsTrue'
    BY <2>1 DEF Suspend, TypeOK, PmType, PollType, WorkType, Phases, RunningIsTrue,
         work_vars, poll_vars, pm_vars
  <2>2. ASSUME PollCancelled \/ CancelDp \/ CancelHp \/ HpCancelled \/ Resume \/
       ResumePoll \/ ResumeDetect \/ ResumeNotify PROVE RunningIsTrue'
    BY <2>2 DEF PollCancelled, CancelDp, CancelHp, HpCancelled, Resume, ResumePoll,
         ResumeDetect, ResumeNotify, TypeOK, PmType, PollType, WorkType, Phases,
         RunningIsTrue, work_vars, poll_vars, pm_vars
  <2>. QED BY <1>7, <2>1, <2>2 DEF Pm
<1>8. ASSUME NEW c \in DpPorts, Pulse(c) PROVE RunningIsTrue'
  BY <1>8 DEF Pulse, TypeOK, PmType, PollType, WorkType, Phases, RunningIsTrue,
       work_vars, poll_vars, pm_vars
<1>9. CASE UNCHANGED vars
  BY <1>9 DEF vars, TypeOK, PmType, PollType, WorkType, Phases, RunningIsTrue,
       work_vars, poll_vars, pm_vars
<1>. QED BY <1>1, <1>2, <1>3, <1>4, <1>5, <1>6, <1>7, <1>8, <1>9 DEF Next

LEMMA QueueStep ==
  ASSUME TypeOK, Phases, suspends = 0 => QueueServed, [Next]_vars
  PROVE  (suspends = 0 => QueueServed)'
<1>1. ASSUME Monitor PROVE (suspends = 0 => QueueServed)'
  BY <1>1 DEF Monitor, Plug, Unplug, TypeOK, PmType, IrqType, WorkType, Phases,
       QueueServed, sent_vars, work_vars, irq_vars, dp_vars, pm_vars
<1>2. ASSUME Irq PROVE (suspends = 0 => QueueServed)'
  <2>1. ASSUME IrqEnter PROVE (suspends = 0 => QueueServed)'
    BY <2>1 DEF IrqEnter, TypeOK, PmType, IrqType, WorkType, Phases, QueueServed,
         sent_vars, work_vars, irq_vars, dp_vars, pm_vars
  <2>2. ASSUME NEW c \in HpdPorts, IrqQueue(c) PROVE (suspends = 0 => QueueServed)'
    BY <2>2 DEF IrqQueue, TypeOK, PmType, IrqType, WorkType, Phases, QueueServed,
         sent_vars, work_vars, irq_vars, dp_vars, pm_vars, QueueFull, SentType
  <2>3. ASSUME IrqUnlock PROVE (suspends = 0 => QueueServed)'
    BY <2>3 DEF IrqUnlock, TypeOK, PmType, IrqType, WorkType, Phases, QueueServed,
         sent_vars, work_vars, irq_vars, dp_vars, pm_vars
  <2>4. ASSUME IrqKick PROVE (suspends = 0 => QueueServed)'
    BY <2>4 DEF IrqKick, TypeOK, PmType, IrqType, WorkType, Phases, QueueServed,
         sent_vars, work_vars, irq_vars, dp_vars, pm_vars, DpQueued
  <2>5. ASSUME (\E c \in HpdPorts : IrqMask(c)) PROVE (suspends = 0 => QueueServed)'
    BY <2>5 DEF IrqMask, TypeOK, PmType, IrqType, WorkType, Phases, QueueServed,
         sent_vars, work_vars, irq_vars, dp_vars, pm_vars
  <2>. QED BY <1>2, <2>1, <2>2, <2>3, <2>4, <2>5 DEF Irq
<1>3. ASSUME DpWork PROVE (suspends = 0 => QueueServed)'
  <2>1. ASSUME DpStart PROVE (suspends = 0 => QueueServed)'
    BY <2>1 DEF DpStart, TypeOK, PmType, IrqType, WorkType, Phases, QueueServed,
         sent_vars, work_vars, irq_vars, dp_vars, pm_vars
  <2>2. ASSUME DpTake PROVE (suspends = 0 => QueueServed)'
    BY <2>2 DEF DpTake, TypeOK, PmType, IrqType, WorkType, Phases, QueueServed,
         sent_vars, work_vars, irq_vars, dp_vars, pm_vars
  <2>3. ASSUME DpDrained PROVE (suspends = 0 => QueueServed)'
    BY <2>3 DEF DpDrained, TypeOK, PmType, IrqType, WorkType, Phases, QueueServed,
         sent_vars, work_vars, irq_vars, dp_vars, pm_vars
  <2>4. ASSUME DpHandle PROVE (suspends = 0 => QueueServed)'
    BY <2>4 DEF DpHandle, TypeOK, PmType, IrqType, WorkType, Phases, QueueServed,
         sent_vars, work_vars, irq_vars, dp_vars, pm_vars
  <2>5. ASSUME DpPublish \/ DpKick PROVE (suspends = 0 => QueueServed)'
    BY <2>5 DEF DpPublish, DpKick, TypeOK, PmType, IrqType, WorkType, Phases,
         QueueServed, sent_vars, work_vars, irq_vars, dp_vars, pm_vars
  <2>. QED BY <1>3, <2>1, <2>2, <2>3, <2>4, <2>5 DEF DpWork
<1>4. ASSUME HpWork PROVE (suspends = 0 => QueueServed)'
  BY <1>4 DEF HpWork, HpTake, HpLock, HpScan, HpUnlock, HpNotify, TypeOK, PmType,
       IrqType, WorkType, Phases, QueueServed, sent_vars, work_vars, irq_vars,
       dp_vars, pm_vars
<1>5. ASSUME PollWork PROVE (suspends = 0 => QueueServed)'
  BY <1>5 DEF PollWork, PollStart, PollScan, PollUnlock, PollOut, TypeOK, PmType,
       IrqType, WorkType, Phases, QueueServed, sent_vars, work_vars, irq_vars,
       dp_vars, pm_vars
<1>6. ASSUME Os PROVE (suspends = 0 => QueueServed)'
  <2>1. ASSUME NEW c \in Ports, OsDetect(c) PROVE (suspends = 0 => QueueServed)'
    BY <2>1 DEF OsDetect, TypeOK, PmType, IrqType, WorkType, Phases, QueueServed,
         sent_vars, work_vars, irq_vars, dp_vars, pm_vars
  <2>2. ASSUME NEW c \in Ports, OsDetectFast(c) PROVE (suspends = 0 => QueueServed)'
    BY <2>2 DEF OsDetectFast, TypeOK, PmType, IrqType, WorkType, Phases,
         QueueServed, sent_vars, work_vars, irq_vars, dp_vars, pm_vars
  <2>. QED BY <1>6, <2>1, <2>2 DEF Os
<1>7. ASSUME Pm PROVE (suspends = 0 => QueueServed)'
  <2>1. ASSUME Suspend PROVE (suspends = 0 => QueueServed)'
    BY <2>1 DEF Suspend, TypeOK, PmType, IrqType, WorkType, Phases, QueueServed,
         sent_vars, work_vars, irq_vars, dp_vars, pm_vars
  <2>2. ASSUME PollCancelled \/ CancelDp \/ CancelHp \/ HpCancelled \/ Resume \/
       ResumePoll \/ ResumeDetect \/ ResumeNotify PROVE (suspends = 0 =>
       QueueServed)'
    BY <2>2 DEF PollCancelled, CancelDp, CancelHp, HpCancelled, Resume, ResumePoll,
         ResumeDetect, ResumeNotify, TypeOK, PmType, IrqType, WorkType, Phases,
         QueueServed, sent_vars, work_vars, irq_vars, dp_vars, pm_vars
  <2>. QED BY <1>7, <2>1, <2>2 DEF Pm
<1>8. ASSUME NEW c \in DpPorts, Pulse(c) PROVE (suspends = 0 => QueueServed)'
  BY <1>8 DEF Pulse, TypeOK, PmType, IrqType, WorkType, Phases, QueueServed,
       sent_vars, work_vars, irq_vars, dp_vars, pm_vars
<1>9. CASE UNCHANGED vars
  BY <1>9 DEF vars, TypeOK, PmType, IrqType, WorkType, Phases, QueueServed,
       sent_vars, work_vars, irq_vars, dp_vars, pm_vars
<1>. QED BY <1>1, <1>2, <1>3, <1>4, <1>5, <1>6, <1>7, <1>8, <1>9 DEF Next

LEMMA MaskStep ==
  ASSUME TypeOK, Phases, suspends = 0 => MaskServed, [Next]_vars
  PROVE  (suspends = 0 => MaskServed)'
<1>1. ASSUME Monitor PROVE (suspends = 0 => MaskServed)'
  BY <1>1 DEF Monitor, Plug, Unplug, TypeOK, PmType, IrqType, WorkType, Phases,
       MaskServed, sent_vars, work_vars, irq_vars, dp_vars, pm_vars
<1>2. ASSUME Irq PROVE (suspends = 0 => MaskServed)'
  <2>1. ASSUME IrqEnter PROVE (suspends = 0 => MaskServed)'
    BY <2>1 DEF IrqEnter, TypeOK, PmType, IrqType, WorkType, Phases, MaskServed,
         sent_vars, work_vars, irq_vars, dp_vars, pm_vars
  <2>2. ASSUME NEW c \in HpdPorts, IrqMask(c) PROVE (suspends = 0 => MaskServed)'
    BY <2>2 DEF IrqMask, TypeOK, PmType, IrqType, WorkType, Phases, MaskServed,
         sent_vars, work_vars, irq_vars, dp_vars, pm_vars
  <2>3. ASSUME IrqUnlock PROVE (suspends = 0 => MaskServed)'
    BY <2>3 DEF IrqUnlock, TypeOK, PmType, IrqType, WorkType, Phases, MaskServed,
         sent_vars, work_vars, irq_vars, dp_vars, pm_vars
  <2>4. ASSUME IrqKick PROVE (suspends = 0 => MaskServed)'
    BY <2>4 DEF IrqKick, TypeOK, PmType, IrqType, WorkType, Phases, MaskServed,
         sent_vars, work_vars, irq_vars, dp_vars, pm_vars, HpQueued
  <2>5. ASSUME (\E c \in HpdPorts : IrqQueue(c)) PROVE (suspends = 0 => MaskServed)'
    BY <2>5 DEF IrqQueue, TypeOK, PmType, IrqType, WorkType, Phases, MaskServed,
         sent_vars, work_vars, irq_vars, dp_vars, pm_vars
  <2>. QED BY <1>2, <2>1, <2>2, <2>3, <2>4, <2>5 DEF Irq
<1>3. ASSUME DpWork PROVE (suspends = 0 => MaskServed)'
  <2>1. ASSUME DpStart PROVE (suspends = 0 => MaskServed)'
    BY <2>1 DEF DpStart, TypeOK, PmType, IrqType, WorkType, Phases, MaskServed,
         sent_vars, work_vars, irq_vars, dp_vars, pm_vars
  <2>2. ASSUME DpPublish PROVE (suspends = 0 => MaskServed)'
    BY <2>2 DEF DpPublish, TypeOK, PmType, IrqType, WorkType, Phases, MaskServed,
         sent_vars, work_vars, irq_vars, dp_vars, pm_vars
  <2>3. ASSUME DpKick PROVE (suspends = 0 => MaskServed)'
    BY <2>3 DEF DpKick, TypeOK, PmType, IrqType, WorkType, Phases, MaskServed,
         sent_vars, work_vars, irq_vars, dp_vars, pm_vars, HpQueued
  <2>4. ASSUME DpTake \/ DpDrained \/ DpHandle PROVE (suspends = 0 => MaskServed)'
    BY <2>4 DEF DpTake, DpDrained, DpHandle, TypeOK, PmType, IrqType, WorkType,
         Phases, MaskServed, sent_vars, work_vars, irq_vars, dp_vars, pm_vars
  <2>. QED BY <1>3, <2>1, <2>2, <2>3, <2>4 DEF DpWork
<1>4. ASSUME HpWork PROVE (suspends = 0 => MaskServed)'
  <2>1. ASSUME HpTake PROVE (suspends = 0 => MaskServed)'
    BY <2>1 DEF HpTake, TypeOK, PmType, IrqType, WorkType, Phases, MaskServed,
         sent_vars, work_vars, irq_vars, dp_vars, pm_vars
  <2>2. ASSUME HpLock \/ (\E c \in Ports : HpScan(c)) \/ HpUnlock \/ HpNotify PROVE
       (suspends = 0 => MaskServed)'
    BY <2>2 DEF HpLock, HpScan, HpUnlock, HpNotify, TypeOK, PmType, IrqType,
         WorkType, Phases, MaskServed, sent_vars, work_vars, irq_vars, dp_vars,
         pm_vars
  <2>. QED BY <1>4, <2>1, <2>2 DEF HpWork
<1>5. ASSUME PollWork PROVE (suspends = 0 => MaskServed)'
  BY <1>5 DEF PollWork, PollStart, PollScan, PollUnlock, PollOut, TypeOK, PmType,
       IrqType, WorkType, Phases, MaskServed, sent_vars, work_vars, irq_vars,
       dp_vars, pm_vars
<1>6. ASSUME Os PROVE (suspends = 0 => MaskServed)'
  <2>1. ASSUME NEW c \in Ports, OsDetect(c) PROVE (suspends = 0 => MaskServed)'
    BY <2>1 DEF OsDetect, TypeOK, PmType, IrqType, WorkType, Phases, MaskServed,
         sent_vars, work_vars, irq_vars, dp_vars, pm_vars
  <2>2. ASSUME NEW c \in Ports, OsDetectFast(c) PROVE (suspends = 0 => MaskServed)'
    BY <2>2 DEF OsDetectFast, TypeOK, PmType, IrqType, WorkType, Phases, MaskServed,
         sent_vars, work_vars, irq_vars, dp_vars, pm_vars
  <2>. QED BY <1>6, <2>1, <2>2 DEF Os
<1>7. ASSUME Pm PROVE (suspends = 0 => MaskServed)'
  <2>1. ASSUME Suspend PROVE (suspends = 0 => MaskServed)'
    BY <2>1 DEF Suspend, TypeOK, PmType, IrqType, WorkType, Phases, MaskServed,
         sent_vars, work_vars, irq_vars, dp_vars, pm_vars
  <2>2. ASSUME PollCancelled \/ CancelDp \/ CancelHp \/ HpCancelled \/ Resume \/
       ResumePoll \/ ResumeDetect \/ ResumeNotify PROVE (suspends = 0 =>
       MaskServed)'
    BY <2>2 DEF PollCancelled, CancelDp, CancelHp, HpCancelled, Resume, ResumePoll,
         ResumeDetect, ResumeNotify, TypeOK, PmType, IrqType, WorkType, Phases,
         MaskServed, sent_vars, work_vars, irq_vars, dp_vars, pm_vars
  <2>. QED BY <1>7, <2>1, <2>2 DEF Pm
<1>8. ASSUME NEW c \in DpPorts, Pulse(c) PROVE (suspends = 0 => MaskServed)'
  BY <1>8 DEF Pulse, TypeOK, PmType, IrqType, WorkType, Phases, MaskServed,
       sent_vars, work_vars, irq_vars, dp_vars, pm_vars
<1>9. CASE UNCHANGED vars
  BY <1>9 DEF vars, TypeOK, PmType, IrqType, WorkType, Phases, MaskServed,
       sent_vars, work_vars, irq_vars, dp_vars, pm_vars
<1>. QED BY <1>1, <1>2, <1>3, <1>4, <1>5, <1>6, <1>7, <1>8, <1>9 DEF Next

LEMMA PollStep ==
  ASSUME TypeOK, Phases, RunningIsTrue, suspends = 0 => PollServed, [Next]_vars
  PROVE  (suspends = 0 => PollServed)'
<1>1. ASSUME Monitor PROVE (suspends = 0 => PollServed)'
  BY <1>1 DEF Monitor, Plug, Unplug, TypeOK, PmType, PollType, WorkType, Phases,
       PollServed, SomethingToPoll, conn_vars, work_vars, hp_vars, poll_vars,
       pm_vars
<1>2. ASSUME Irq PROVE (suspends = 0 => PollServed)'
  BY <1>2 DEF Irq, IrqEnter, IrqMask, IrqQueue, IrqUnlock, IrqKick, TypeOK, PmType,
       PollType, WorkType, Phases, PollServed, SomethingToPoll, conn_vars,
       work_vars, hp_vars, poll_vars, pm_vars
<1>3. ASSUME DpWork PROVE (suspends = 0 => PollServed)'
  BY <1>3 DEF DpWork, DpStart, DpTake, DpDrained, DpHandle, DpPublish, DpKick,
       TypeOK, PmType, PollType, WorkType, Phases, PollServed, SomethingToPoll,
       conn_vars, work_vars, hp_vars, poll_vars, pm_vars
<1>4. ASSUME HpWork PROVE (suspends = 0 => PollServed)'
  <2>1. ASSUME HpLock PROVE (suspends = 0 => PollServed)'
    BY <2>1 DEF HpLock, TypeOK, PmType, PollType, WorkType, Phases, PollServed,
         SomethingToPoll, conn_vars, work_vars, hp_vars, poll_vars, pm_vars
  <2>2. ASSUME NEW c \in Ports, HpScan(c) PROVE (suspends = 0 => PollServed)'
    <3>. SUFFICES ASSUME suspends = 0, SomethingToPoll', ~hpNeedPoll' PROVE PollServed'
      BY <2>2 DEF HpScan, PollServed, pm_vars
    <3>1. ~hpNeedPoll /\ hpPc = "scan" /\ pollPc # "scan"
      BY <2>2 DEF HpScan, Phases, TypeOK, WorkType
    <3>2. CASE SomethingToPoll
      BY <3>1, <3>2, <2>2 DEF HpScan, PollServed, work_vars, poll_vars
    <3>3. CASE ~SomethingToPoll
      <4>1. polltime'[c] > 0 /\ polltime[c] = 0
        BY <3>3, <2>2 DEF HpScan, SomethingToPoll, TypeOK, ConnType, Ports, HpdPorts
      <4>2. Detected(c, c \in hpComp) = known[c] /\ known[c] \in HdmiMonitors
        BY <4>1, <2>2 DEF HpScan, TypeOK, ConnType
      <4>3. pollRunning BY <4>2, <2>2 DEF HpScan
      <4>. QED BY <4>3, <3>1, <2>2 DEF HpScan, RunningIsTrue, PollServed, work_vars, poll_vars
    <3>. QED BY <3>2, <3>3
  <2>3. ASSUME HpUnlock PROVE (suspends = 0 => PollServed)'
    BY <2>3 DEF HpUnlock, TypeOK, PmType, PollType, WorkType, Phases, PollServed,
         SomethingToPoll, conn_vars, work_vars, hp_vars, poll_vars, pm_vars,
         PollQueued
  <2>4. ASSUME HpTake \/ HpNotify PROVE (suspends = 0 => PollServed)'
    BY <2>4 DEF HpTake, HpNotify, TypeOK, PmType, PollType, WorkType, Phases,
         PollServed, SomethingToPoll, conn_vars, work_vars, hp_vars, poll_vars,
         pm_vars
  <2>. QED BY <1>4, <2>1, <2>2, <2>3, <2>4 DEF HpWork
<1>5. ASSUME PollWork PROVE (suspends = 0 => PollServed)'
  <2>1. ASSUME PollStart PROVE (suspends = 0 => PollServed)'
    BY <2>1 DEF PollStart, TypeOK, PmType, PollType, WorkType, Phases, PollServed,
         SomethingToPoll, conn_vars, work_vars, hp_vars, poll_vars, pm_vars
  <2>2. ASSUME NEW c \in Ports, PollScan(c) PROVE (suspends = 0 => PollServed)'
    <3>0. \/ polltime' = [polltime EXCEPT ![c] = 0]
          \/ polltime[c] # 0 /\ polltime' = [polltime EXCEPT ![c] = polltime[c] - 1]
      BY <2>2 DEF PollScan
    <3>1. \A d \in Ports : polltime'[d] > 0 => polltime[d] > 0
      BY <3>0 DEF TypeOK, ConnType
    <3>2. SomethingToPoll' => SomethingToPoll
      BY <3>1 DEF SomethingToPoll, HpdPorts, Ports
    <3>. QED BY <3>2, <2>2 DEF PollScan, PollServed, pm_vars, hp_vars, work_vars
  <2>3. ASSUME PollUnlock PROVE (suspends = 0 => PollServed)'
    BY <2>3 DEF PollUnlock, TypeOK, PmType, PollType, WorkType, Phases, PollServed,
         SomethingToPoll, conn_vars, work_vars, hp_vars, poll_vars, pm_vars
  <2>4. ASSUME PollOut PROVE (suspends = 0 => PollServed)'
    BY <2>4 DEF PollOut, TypeOK, PmType, PollType, WorkType, Phases, PollServed,
         SomethingToPoll, conn_vars, work_vars, hp_vars, poll_vars, pm_vars,
         PollQueued
  <2>. QED BY <1>5, <2>1, <2>2, <2>3, <2>4 DEF PollWork
<1>6. ASSUME Os PROVE (suspends = 0 => PollServed)'
  <2>1. ASSUME NEW c \in Ports, OsDetect(c) PROVE (suspends = 0 => PollServed)'
    BY <2>1 DEF OsDetect, TypeOK, PmType, PollType, WorkType, Phases, PollServed,
         SomethingToPoll, conn_vars, work_vars, hp_vars, poll_vars, pm_vars
  <2>2. ASSUME NEW c \in Ports, OsDetectFast(c) PROVE (suspends = 0 => PollServed)'
    BY <2>2 DEF OsDetectFast, TypeOK, PmType, PollType, WorkType, Phases,
         PollServed, SomethingToPoll, conn_vars, work_vars, hp_vars, poll_vars,
         pm_vars, RunningIsTrue, MutexFree
  <2>. QED BY <1>6, <2>1, <2>2 DEF Os
<1>7. ASSUME Pm PROVE (suspends = 0 => PollServed)'
  <2>1. ASSUME Suspend PROVE (suspends = 0 => PollServed)'
    BY <2>1 DEF Suspend, TypeOK, PmType, PollType, WorkType, Phases, PollServed,
         SomethingToPoll, conn_vars, work_vars, hp_vars, poll_vars, pm_vars
  <2>2. ASSUME PollCancelled \/ CancelDp \/ CancelHp \/ HpCancelled \/ Resume \/
       ResumePoll \/ ResumeDetect \/ ResumeNotify PROVE (suspends = 0 =>
       PollServed)'
    BY <2>2 DEF PollCancelled, CancelDp, CancelHp, HpCancelled, Resume, ResumePoll,
         ResumeDetect, ResumeNotify, TypeOK, PmType, PollType, WorkType, Phases,
         PollServed, SomethingToPoll, conn_vars, work_vars, hp_vars, poll_vars,
         pm_vars
  <2>. QED BY <1>7, <2>1, <2>2 DEF Pm
<1>8. ASSUME NEW c \in DpPorts, Pulse(c) PROVE (suspends = 0 => PollServed)'
  BY <1>8 DEF Pulse, TypeOK, PmType, PollType, WorkType, Phases, PollServed,
       SomethingToPoll, conn_vars, work_vars, hp_vars, poll_vars, pm_vars
<1>9. CASE UNCHANGED vars
  BY <1>9 DEF vars, TypeOK, PmType, PollType, WorkType, Phases, PollServed,
       SomethingToPoll, conn_vars, work_vars, hp_vars, poll_vars, pm_vars
<1>. QED BY <1>1, <1>2, <1>3, <1>4, <1>5, <1>6, <1>7, <1>8, <1>9 DEF Next

LEMMA AnnouncedStep ==
  ASSUME TypeOK, Phases, ChangesAnnounced, [Next]_vars PROVE ChangesAnnounced'
<1>1. ASSUME Monitor PROVE ChangesAnnounced'
  BY <1>1 DEF Monitor, Plug, Unplug, TypeOK, ConnType, WorkType, PollType, PmType,
       Phases, ChangesAnnounced, Hidden, conn_vars, hp_vars, poll_vars, pm_vars
<1>2. ASSUME Irq PROVE ChangesAnnounced'
  BY <1>2 DEF Irq, IrqEnter, IrqMask, IrqQueue, IrqUnlock, IrqKick, TypeOK,
       ConnType, WorkType, PollType, PmType, Phases, ChangesAnnounced, Hidden, conn_vars,
       hp_vars, poll_vars, pm_vars
<1>3. ASSUME DpWork PROVE ChangesAnnounced'
  BY <1>3 DEF DpWork, DpStart, DpTake, DpDrained, DpHandle, DpPublish, DpKick,
       TypeOK, ConnType, WorkType, PollType, PmType, Phases, ChangesAnnounced,
       Hidden, conn_vars, hp_vars, poll_vars, pm_vars
<1>4. ASSUME HpWork PROVE ChangesAnnounced'
  <2>1. ASSUME NEW c \in Ports, HpScan(c) PROVE ChangesAnnounced'
    <3>. SUFFICES ASSUME NEW x \in Ports, told[x] # known'[x], ~Hidden(x)', ~hpChanged'
                  PROVE  pollChanged \/ pmChanged
      BY <2>1 DEF HpScan, ChangesAnnounced, poll_vars, pm_vars
    <3>0. ConnType /\ hpChanged \in BOOLEAN
      BY DEF TypeOK, WorkType
    <3>1. ~hpChanged /\ (known'[c] # known[c] => SpecialPolled(c) /\ known'[c] = None)
      BY <2>1, <3>0 DEF HpScan, ConnType
    <3>2. known'[x] = known[x]
      <4>1. CASE x = c
        BY <2>1, <3>1, <4>1 DEF HpScan, Hidden, SpecialPolled
      <4>2. CASE x # c
        BY <2>1, <3>0, <4>2 DEF HpScan, ConnType
      <4>. QED BY <4>1, <4>2
    <3>. QED BY <2>1, <3>1, <3>2 DEF HpScan, ChangesAnnounced, Hidden
  <2>2. ASSUME HpUnlock PROVE ChangesAnnounced'
    BY <2>2 DEF HpUnlock, TypeOK, ConnType, WorkType, PollType, PmType, Phases,
         ChangesAnnounced, Hidden, conn_vars, hp_vars, poll_vars, pm_vars
  <2>3. ASSUME HpNotify PROVE ChangesAnnounced'
    BY <2>3 DEF HpNotify, TypeOK, ConnType, WorkType, PollType, PmType, Phases,
         ChangesAnnounced, Hidden, conn_vars, hp_vars, poll_vars, pm_vars
  <2>4. ASSUME HpTake \/ HpLock PROVE ChangesAnnounced'
    BY <2>4 DEF HpTake, HpLock, TypeOK, ConnType, WorkType, PollType, PmType,
         Phases, ChangesAnnounced, Hidden, conn_vars, hp_vars, poll_vars, pm_vars
  <2>. QED BY <1>4, <2>1, <2>2, <2>3, <2>4 DEF HpWork
<1>5. ASSUME PollWork PROVE ChangesAnnounced'
  <2>1. ASSUME NEW c \in Ports, PollScan(c) PROVE ChangesAnnounced'
    <3>. SUFFICES ASSUME NEW x \in Ports, told[x] # known'[x], ~Hidden(x)', ~pollChanged'
                  PROVE  hpChanged \/ pmChanged
      BY <2>1 DEF PollScan, ChangesAnnounced, hp_vars, pm_vars
    <3>0. HwType /\ ConnType /\ pollChanged \in BOOLEAN
      BY DEF TypeOK, PollType
    <3>1. ~pollChanged /\ (PollDetected(c) = None) = (known[c] = None)
      BY <2>1, <3>0 DEF PollScan
    <3>2. PollDetected(c) = known[c]
      BY <3>0, <3>1 DEF PollDetected, DetectedTwice, Detected
    <3>3. known' = known
      BY <2>1, <3>0, <3>2 DEF PollScan, ConnType
    <3>. QED BY <2>1, <3>1, <3>3 DEF PollScan, ChangesAnnounced, Hidden
  <2>2. ASSUME PollOut PROVE ChangesAnnounced'
    BY <2>2 DEF PollOut, TypeOK, ConnType, WorkType, PollType, PmType, Phases,
         ChangesAnnounced, Hidden, conn_vars, hp_vars, poll_vars, pm_vars
  <2>3. ASSUME PollStart \/ PollUnlock PROVE ChangesAnnounced'
    BY <2>3 DEF PollStart, PollUnlock, TypeOK, ConnType, WorkType, PollType, PmType,
         Phases, ChangesAnnounced, Hidden, conn_vars, hp_vars, poll_vars, pm_vars
  <2>. QED BY <1>5, <2>1, <2>2, <2>3 DEF PollWork
<1>6. ASSUME Os PROVE ChangesAnnounced'
  <2>1. ASSUME NEW c \in Ports, OsDetect(c) PROVE ChangesAnnounced'
    BY <2>1 DEF OsDetect, TypeOK, ConnType, WorkType, PollType, PmType, Phases,
         ChangesAnnounced, Hidden, conn_vars, hp_vars, poll_vars, pm_vars
  <2>2. ASSUME NEW c \in Ports, OsDetectFast(c) PROVE ChangesAnnounced'
    BY <2>2 DEF OsDetectFast, TypeOK, ConnType, WorkType, PollType, PmType, Phases,
         ChangesAnnounced, Hidden, conn_vars, hp_vars, poll_vars, pm_vars
  <2>. QED BY <1>6, <2>1, <2>2 DEF Os
<1>7. ASSUME Pm PROVE ChangesAnnounced'
  <2>1. ASSUME ResumeDetect PROVE ChangesAnnounced'
    BY <2>1 DEF ResumeDetect, TypeOK, ConnType, WorkType, PollType, PmType, Phases,
         ChangesAnnounced, Hidden, conn_vars, hp_vars, poll_vars, pm_vars
  <2>2. ASSUME ResumeNotify PROVE ChangesAnnounced'
    BY <2>2 DEF ResumeNotify, TypeOK, ConnType, WorkType, PollType, PmType, Phases,
         ChangesAnnounced, Hidden, conn_vars, hp_vars, poll_vars, pm_vars
  <2>3. ASSUME Suspend \/ PollCancelled \/ CancelDp \/ CancelHp \/ HpCancelled \/
       Resume \/ ResumePoll PROVE ChangesAnnounced'
    BY <2>3 DEF Suspend, PollCancelled, CancelDp, CancelHp, HpCancelled, Resume,
         ResumePoll, TypeOK, ConnType, WorkType, PollType, PmType, Phases,
         ChangesAnnounced, Hidden, conn_vars, hp_vars, poll_vars, pm_vars
  <2>. QED BY <1>7, <2>1, <2>2, <2>3 DEF Pm
<1>8. ASSUME NEW c \in DpPorts, Pulse(c) PROVE ChangesAnnounced'
  BY <1>8 DEF Pulse, TypeOK, ConnType, WorkType, PollType, PmType, Phases,
       ChangesAnnounced, Hidden, conn_vars, hp_vars, poll_vars, pm_vars
<1>9. CASE UNCHANGED vars
  BY <1>9 DEF vars, TypeOK, ConnType, WorkType, PollType, PmType, Phases,
       ChangesAnnounced, Hidden, conn_vars, hp_vars, poll_vars, pm_vars
<1>. QED BY <1>1, <1>2, <1>3, <1>4, <1>5, <1>6, <1>7, <1>8, <1>9 DEF Next

LEMMA DviStep ==
  ASSUME TypeOK, Phases, Echo, DviIsDetected, [Next]_vars PROVE DviIsDetected'
<1>1. ASSUME Monitor PROVE DviIsDetected'
  <2>1. ASSUME NEW c \in Ports, NEW m \in Monitors, Plug(c, m) PROVE DviIsDetected'
    BY <2>1 DEF Plug, TypeOK, HwType, ConnType, PmType, Phases, DviIsDetected,
         HpdPorts, Ports, hw_vars, conn_vars, sent_vars, hp_vars, pm_vars, Latch
  <2>2. ASSUME NEW c \in Ports, NEW more \in 0..MaxLag, Unplug(c, more) PROVE
       DviIsDetected'
    BY <2>2 DEF Unplug, TypeOK, HwType, ConnType, PmType, Phases, DviIsDetected,
         HpdPorts, Ports, hw_vars, conn_vars, sent_vars, hp_vars, pm_vars, Latch
  <2>. QED BY <1>1, <2>1, <2>2 DEF Monitor
<1>2. ASSUME Irq PROVE DviIsDetected'
  <2>1. ASSUME NEW c \in HpdPorts, IrqMask(c) PROVE DviIsDetected'
    BY <2>1 DEF IrqMask, TypeOK, HwType, ConnType, PmType, Phases, DviIsDetected,
         HpdPorts, Ports, hw_vars, conn_vars, sent_vars, hp_vars, pm_vars
  <2>2. ASSUME NEW c \in HpdPorts, IrqQueue(c) PROVE DviIsDetected'
    BY <2>2 DEF IrqQueue, TypeOK, HwType, ConnType, PmType, Phases, DviIsDetected,
         HpdPorts, Ports, hw_vars, conn_vars, sent_vars, hp_vars, pm_vars
  <2>3. ASSUME IrqEnter \/ IrqUnlock \/ IrqKick PROVE DviIsDetected'
    BY <2>3 DEF IrqEnter, IrqUnlock, IrqKick, TypeOK, HwType, ConnType, PmType,
         Phases, DviIsDetected, HpdPorts, Ports, hw_vars, conn_vars, sent_vars,
         hp_vars, pm_vars
  <2>. QED BY <1>2, <2>1, <2>2, <2>3 DEF Irq
<1>3. ASSUME DpWork PROVE DviIsDetected'
  <2>1. ASSUME DpPublish PROVE DviIsDetected'
    BY <2>1 DEF DpPublish, TypeOK, HwType, ConnType, PmType, Phases, DviIsDetected,
         HpdPorts, Ports, hw_vars, conn_vars, sent_vars, hp_vars, pm_vars
  <2>2. ASSUME DpStart \/ DpTake \/ DpDrained \/ DpHandle \/ DpKick PROVE
       DviIsDetected'
    BY <2>2 DEF DpStart, DpTake, DpDrained, DpHandle, DpKick, TypeOK, HwType,
         ConnType, PmType, Phases, DviIsDetected, HpdPorts, Ports, hw_vars,
         conn_vars, sent_vars, hp_vars, pm_vars
  <2>. QED BY <1>3, <2>1, <2>2 DEF DpWork
<1>4. ASSUME HpWork PROVE DviIsDetected'
  <2>1. ASSUME HpTake PROVE DviIsDetected'
    BY <2>1 DEF HpTake, TypeOK, HwType, ConnType, PmType, Phases, DviIsDetected,
         HpdPorts, Ports, hw_vars, conn_vars, sent_vars, hp_vars, pm_vars
  <2>2. ASSUME NEW c \in Ports, HpScan(c) PROVE DviIsDetected'
    BY <2>2 DEF HpScan, TypeOK, HwType, ConnType, PmType, Phases, DviIsDetected,
         HpdPorts, Ports, hw_vars, conn_vars, sent_vars, hp_vars, pm_vars, Echo,
         Detected, Probe
  <2>3. ASSUME HpLock \/ HpUnlock \/ HpNotify PROVE DviIsDetected'
    BY <2>3 DEF HpLock, HpUnlock, HpNotify, TypeOK, HwType, ConnType, PmType,
         Phases, DviIsDetected, HpdPorts, Ports, hw_vars, conn_vars, sent_vars,
         hp_vars, pm_vars
  <2>. QED BY <1>4, <2>1, <2>2, <2>3 DEF HpWork
<1>5. ASSUME PollWork PROVE DviIsDetected'
  <2>1. ASSUME NEW c \in Ports, PollScan(c) PROVE DviIsDetected'
    BY <2>1 DEF PollScan, TypeOK, HwType, ConnType, PmType, Phases, DviIsDetected,
         HpdPorts, Ports, hw_vars, conn_vars, sent_vars, hp_vars, pm_vars, Echo,
         Detected, Probe,
         PollDetected, DetectedTwice, PollProbe, ProbeTwice
  <2>2. ASSUME PollStart \/ PollUnlock \/ PollOut PROVE DviIsDetected'
    BY <2>2 DEF PollStart, PollUnlock, PollOut, TypeOK, HwType, ConnType, PmType,
         Phases, DviIsDetected, HpdPorts, Ports, hw_vars, conn_vars, sent_vars,
         hp_vars, pm_vars
  <2>. QED BY <1>5, <2>1, <2>2 DEF PollWork
<1>6. ASSUME Os PROVE DviIsDetected'
  <2>1. ASSUME NEW c \in Ports, OsDetect(c) PROVE DviIsDetected'
    BY <2>1 DEF OsDetect, TypeOK, HwType, ConnType, PmType, Phases, DviIsDetected,
         HpdPorts, Ports, hw_vars, conn_vars, sent_vars, hp_vars, pm_vars, Echo,
         Detected, Probe
  <2>2. ASSUME (\E c \in Ports : OsDetectFast(c)) PROVE DviIsDetected'
    BY <2>2 DEF OsDetectFast, TypeOK, HwType, ConnType, PmType, Phases,
         DviIsDetected, HpdPorts, Ports, hw_vars, conn_vars, sent_vars, hp_vars,
         pm_vars
  <2>. QED BY <1>6, <2>1, <2>2 DEF Os
<1>7. ASSUME Pm PROVE DviIsDetected'
  <2>1. ASSUME Suspend PROVE DviIsDetected'
    BY <2>1 DEF Suspend, TypeOK, HwType, ConnType, PmType, Phases, DviIsDetected,
         HpdPorts, Ports, hw_vars, conn_vars, sent_vars, hp_vars, pm_vars
  <2>2. ASSUME PollCancelled \/ CancelDp \/ CancelHp \/ HpCancelled \/ Resume \/
       ResumePoll \/ ResumeDetect \/ ResumeNotify PROVE DviIsDetected'
    BY <2>2 DEF PollCancelled, CancelDp, CancelHp, HpCancelled, Resume, ResumePoll,
         ResumeDetect, ResumeNotify, TypeOK, HwType, ConnType, PmType, Phases,
         DviIsDetected, HpdPorts, Ports, hw_vars, conn_vars, sent_vars, hp_vars,
         pm_vars
  <2>. QED BY <1>7, <2>1, <2>2 DEF Pm
<1>8. ASSUME NEW c \in DpPorts, Pulse(c) PROVE DviIsDetected'
  BY <1>8 DEF Pulse, TypeOK, HwType, ConnType, PmType, Phases, DviIsDetected,
       HpdPorts, Ports, hw_vars, conn_vars, sent_vars, hp_vars, pm_vars
<1>9. CASE UNCHANGED vars
  BY <1>9 DEF vars, TypeOK, HwType, ConnType, PmType, Phases, DviIsDetected,
       HpdPorts, Ports, hw_vars, conn_vars, sent_vars, hp_vars, pm_vars
<1>. QED BY <1>1, <1>2, <1>3, <1>4, <1>5, <1>6, <1>7, <1>8, <1>9 DEF Next

-------------------------------------------------------------------------------
(* News of a port: nothing that still has to find out about it is lost.     *)

LEMMA NothingUnmissed ==
  ASSUME TypeOK, [Next]_vars, suspends' = 0
  PROVE  suspends = 0 /\ (missed \subseteq missed' \/ Monitor)
<1>1. ASSUME Monitor PROVE suspends = 0 /\ (missed \subseteq missed' \/ Monitor)
  <2>1. ASSUME NEW c \in Ports, NEW m \in Monitors, Plug(c, m) PROVE suspends = 0 /\
       (missed \subseteq missed' \/ Monitor)
    BY <2>1 DEF Plug, TypeOK, PmType, pm_vars, Monitor
  <2>2. ASSUME NEW c \in Ports, NEW more \in 0..MaxLag, Unplug(c, more) PROVE
       suspends = 0 /\ (missed \subseteq missed' \/ Monitor)
    BY <2>2 DEF Unplug, TypeOK, PmType, pm_vars, Monitor
  <2>. QED BY <1>1, <2>1, <2>2 DEF Monitor
<1>2. ASSUME Irq PROVE suspends = 0 /\ (missed \subseteq missed' \/ Monitor)
  <2>1. ASSUME NEW c \in HpdPorts, IrqQueue(c) PROVE suspends = 0 /\ (missed
       \subseteq missed' \/ Monitor)
    BY <2>1 DEF IrqQueue, TypeOK, PmType, pm_vars
  <2>2. ASSUME IrqEnter \/ (\E c \in HpdPorts : IrqMask(c)) \/ IrqUnlock \/ IrqKick
       PROVE suspends = 0 /\ (missed \subseteq missed' \/ Monitor)
    BY <2>2 DEF IrqEnter, IrqMask, IrqUnlock, IrqKick, TypeOK, PmType, pm_vars
  <2>. QED BY <1>2, <2>1, <2>2 DEF Irq
<1>3. ASSUME DpWork PROVE suspends = 0 /\ (missed \subseteq missed' \/ Monitor)
  <2>1. ASSUME DpHandle PROVE suspends = 0 /\ (missed \subseteq missed' \/ Monitor)
    BY <2>1 DEF DpHandle, TypeOK, PmType, pm_vars
  <2>2. ASSUME DpStart \/ DpTake \/ DpDrained \/ DpPublish \/ DpKick PROVE suspends
       = 0 /\ (missed \subseteq missed' \/ Monitor)
    BY <2>2 DEF DpStart, DpTake, DpDrained, DpPublish, DpKick, TypeOK, PmType,
         pm_vars
  <2>. QED BY <1>3, <2>1, <2>2 DEF DpWork
<1>4. ASSUME HpWork PROVE suspends = 0 /\ (missed \subseteq missed' \/ Monitor)
  <2>1. ASSUME NEW c \in Ports, HpScan(c) PROVE suspends = 0 /\ (missed \subseteq
       missed' \/ Monitor)
    BY <2>1 DEF HpScan, TypeOK, PmType, pm_vars
  <2>2. ASSUME HpTake \/ HpLock \/ HpUnlock \/ HpNotify PROVE suspends = 0 /\
       (missed \subseteq missed' \/ Monitor)
    BY <2>2 DEF HpTake, HpLock, HpUnlock, HpNotify, TypeOK, PmType, pm_vars
  <2>. QED BY <1>4, <2>1, <2>2 DEF HpWork
<1>5. ASSUME PollWork PROVE suspends = 0 /\ (missed \subseteq missed' \/ Monitor)
  BY <1>5 DEF PollWork, PollStart, PollScan, PollUnlock, PollOut, TypeOK, PmType,
       pm_vars
<1>6. ASSUME Os PROVE suspends = 0 /\ (missed \subseteq missed' \/ Monitor)
  BY <1>6 DEF Os, OsDetect, OsDetectFast, TypeOK, PmType, pm_vars
<1>7. ASSUME Pm PROVE suspends = 0 /\ (missed \subseteq missed' \/ Monitor)
  <2>1. ASSUME Suspend PROVE suspends = 0 /\ (missed \subseteq missed' \/ Monitor)
    BY <2>1 DEF Suspend, TypeOK, PmType, pm_vars
  <2>2. ASSUME PollCancelled \/ CancelDp \/ CancelHp \/ HpCancelled \/ Resume \/
       ResumePoll \/ ResumeDetect \/ ResumeNotify PROVE suspends = 0 /\ (missed
       \subseteq missed' \/ Monitor)
    BY <2>2 DEF PollCancelled, CancelDp, CancelHp, HpCancelled, Resume, ResumePoll,
         ResumeDetect, ResumeNotify, TypeOK, PmType, pm_vars
  <2>. QED BY <1>7, <2>1, <2>2 DEF Pm
<1>8. ASSUME NEW c \in DpPorts, Pulse(c) PROVE suspends = 0 /\ (missed \subseteq
     missed' \/ Monitor)
  BY <1>8 DEF Pulse, TypeOK, PmType, pm_vars
<1>9. CASE UNCHANGED vars
  BY <1>9 DEF vars, TypeOK, PmType, pm_vars
<1>. QED BY <1>1, <1>2, <1>3, <1>4, <1>5, <1>6, <1>7, <1>8, <1>9 DEF Next

(* A port whose monitor and whose known monitor stay is still accounted for *)
(* when what will find out stays.                                           *)
LEMMA NewsKept ==
  ASSUME NEW c \in DpPorts, Accounted(c), known'[c] = known[c], plug'[c] = plug[c],
         WillCompare(c) => WillCompare(c)', WillDetect(c) => WillDetect(c)'
  PROVE  Accounted(c)'
  BY DEF Accounted

LEMMA TakeFirst ==
  ASSUME NEW S, NEW q \in Seq(S), q # <<>>, NEW e, NEW i \in 1..Len(q), q[i] = e
  PROVE  e = Head(q) \/ \E k \in 1..Len(Tail(q)) : Tail(q)[k] = e
  <1>1. CASE i = 1 BY <1>1
  <1>2. CASE i # 1
    <2>1. i - 1 \in 1..Len(Tail(q)) /\ Tail(q)[i - 1] = e BY <1>2
    <2>. QED BY <2>1
  <1>. QED BY <1>1, <1>2

(* What a detection does to the port: nothing to the others.                *)
LEMMA Looked ==
  ASSUME HwType, NEW c \in Ports, Probe(c), NEW x \in Ports
  PROVE  /\ x # c => lag'[x] = lag[x] /\ ddc'[x] = ddc[x]
         /\ lag[x] = 0 => lag'[x] = 0 /\ ddc'[x] = ddc[x]
         /\ x = c /\ lag[x] > 0 => lag'[x] = lag[x] - 1
         /\ lag'[x] > 0 => ddc'[x] = ddc[x]
  BY DEF HwType, Probe

(* The same of a poll, which uses up one answer or two.                     *)
LEMMA PollLooked ==
  ASSUME HwType, NEW c \in Ports, PollProbe(c), NEW x \in Ports
  PROVE  /\ x # c => lag'[x] = lag[x] /\ ddc'[x] = ddc[x]
         /\ lag[x] = 0 => lag'[x] = 0 /\ ddc'[x] = ddc[x]
         /\ x = c /\ lag[x] > 0 => lag'[x] \in 0..(lag[x] - 1)
         /\ lag'[x] > 0 => ddc'[x] = ddc[x]
  <1>1. lag[x] \in 0..MaxLag /\ lag[c] \in 0..MaxLag BY DEF HwType
  <1>2. CASE Probe(c) BY <1>1, <1>2, Looked
  <1>3. CASE ProbeTwice(c) BY <1>1, <1>3 DEF HwType, ProbeTwice
  <1>. QED BY <1>2, <1>3 DEF PollProbe

(* What a poll finds is what a detection finds, unless the answer it uses   *)
(* up first was the last.                                                   *)
LEMMA PollFinds ==
  ASSUME HwType, NEW c \in Ports, PollProbe(c)
  PROVE  /\ lag[c] = 0 \/ lag'[c] > 0 => PollDetected(c) = Detected(c, FALSE)
         /\ PollDetected(c) \in {None, Detected(c, FALSE)}
  <1>1. lag[c] \in 0..MaxLag BY DEF HwType
  <1>2. CASE lag[c] = 1
    <2>1. lag'[c] \in 0..(lag[c] - 1) BY <1>2, PollLooked
    <2>2. lag'[c] = 0 BY <1>2, <2>1
    <2>3. PollDetected(c) = None \/ PollDetected(c) = Detected(c, FALSE)
      BY Zenon DEF PollDetected, DetectedTwice
    <2>4. lag[c] # 0 /\ ~(lag'[c] > 0) BY <1>2, <2>2
    <2>. QED BY <2>3, <2>4, Zenon
  <1>3. CASE lag[c] # 1 BY <1>1, <1>3 DEF PollDetected, DetectedTwice
  <1>. QED BY <1>2, <1>3

(* A detection without comparison leaves a port with what is plugged, or    *)
(* with the known monitor where another one has taken its place.            *)
LEMMA DetectedPlugged ==
  ASSUME HwType, Echo, NEW x \in DpPorts, lag[x] = 0, NEW b,
         Detected(x, b) # plug[x]
  PROVE  known[x] # None /\ plug[x] # None /\ ~b /\ Detected(x, b) = known[x]
  BY DEF Echo, Detected, Ports

LEMMA DetectedLagging ==
  ASSUME HwType, Echo, NEW x \in DpPorts, lag[x] > 0, NEW b
  PROVE  /\ plug[x] = None /\ ddc[x] \in HdmiMonitors /\ ddc[x] # None
         /\ known[x] = ddc[x] => Detected(x, b) = known[x]
  BY DEF HwType, Echo, Detected, Ports

LEMMA NewsStep ==
  ASSUME TypeOK, Phases, Echo, Lagging, [Next]_vars, suspends = 0,
         NEW x \in DpPorts, x \notin missed, x \notin missed', Accounted(x)
  PROVE  Accounted(x)'
<1>1. ASSUME Monitor PROVE Accounted(x)'
  <2>1. ASSUME NEW c \in Ports, NEW m \in Monitors, Plug(c, m) PROVE Accounted(x)'
    BY <2>1 DEF Plug, Accounted, WillCompare, WillDetect, InQueued, hw_vars,
         conn_vars, sent_vars, dp_vars, hp_vars, Latch, TypeOK, HwType, ConnType,
         SentType, WorkType, Ports, HpdPorts
  <2>2. ASSUME NEW c \in Ports, NEW more \in 0..MaxLag, Unplug(c, more) PROVE
       Accounted(x)'
    BY <2>2 DEF Unplug, Accounted, WillCompare, WillDetect, InQueued, hw_vars,
         conn_vars, sent_vars, dp_vars, hp_vars, Latch, TypeOK, HwType, ConnType,
         SentType, WorkType, Ports, HpdPorts
  <2>. QED BY <1>1, <2>1, <2>2 DEF Monitor
<1>2. ASSUME Irq PROVE Accounted(x)'
  <2>1. ASSUME NEW c \in HpdPorts, IrqMask(c) PROVE Accounted(x)'
    BY <2>1 DEF IrqMask, Accounted, WillCompare, WillDetect, InQueued, hw_vars,
         conn_vars, sent_vars, dp_vars, hp_vars, TypeOK, HwType, ConnType, SentType,
         WorkType, Ports, HpdPorts
  <2>2. ASSUME NEW c \in HpdPorts, IrqQueue(c) PROVE Accounted(x)'
    BY <2>2, SMTT(60) DEF IrqQueue, Accounted, WillCompare, WillDetect, InQueued, hw_vars,
         conn_vars, sent_vars, dp_vars, hp_vars
  <2>3. ASSUME IrqEnter \/ IrqUnlock \/ IrqKick PROVE Accounted(x)'
    BY <2>3 DEF IrqEnter, IrqUnlock, IrqKick, Accounted, WillCompare, WillDetect,
         InQueued, hw_vars, conn_vars, sent_vars, dp_vars, hp_vars
  <2>. QED BY <1>2, <2>1, <2>2, <2>3 DEF Irq
<1>3. ASSUME DpWork PROVE Accounted(x)'
  <2>1. ASSUME DpTake PROVE Accounted(x)'
    <3>1. InQueued(x) => dpEv' = <<x, "in">> \/ InQueued(x)'
      <4>. SUFFICES ASSUME NEW i \in 1..Len(queue), queue[i] = <<x, "in">>
           PROVE  dpEv' = <<x, "in">> \/ InQueued(x)'
        BY DEF InQueued
      <4>1. <<x, "in">> = Head(queue)
            \/ \E k \in 1..Len(Tail(queue)) : Tail(queue)[k] = <<x, "in">>
        BY TakeFirst, <2>1 DEF DpTake, TypeOK, SentType
      <4>. QED BY <4>1, <2>1 DEF DpTake, InQueued
    <3>2. dpEv # <<x, "in">> BY <2>1 DEF DpTake, Phases, NoEvent
    <3>. QED BY <3>1, <3>2, NewsKept, <2>1
         DEF DpTake, WillCompare, WillDetect, hw_vars, conn_vars, hp_vars
  <2>2. ASSUME DpHandle PROVE Accounted(x)'
    BY <2>2 DEF DpHandle, Accounted, WillCompare, WillDetect, InQueued, hw_vars,
         conn_vars, sent_vars, dp_vars, hp_vars
  <2>3. ASSUME DpPublish PROVE Accounted(x)'
    BY <2>3 DEF DpPublish, Accounted, WillCompare, WillDetect, InQueued, hw_vars,
         conn_vars, sent_vars, dp_vars, hp_vars
  <2>4. ASSUME DpStart \/ DpDrained \/ DpKick PROVE Accounted(x)'
    BY <2>4 DEF DpStart, DpDrained, DpKick, Accounted, WillCompare, WillDetect,
         InQueued, hw_vars, conn_vars, sent_vars, dp_vars, hp_vars
  <2>. QED BY <1>3, <2>1, <2>2, <2>3, <2>4 DEF DpWork
<1>4. ASSUME HpWork PROVE Accounted(x)'
  <2>1. ASSUME HpTake PROVE Accounted(x)'
    <3>1. hpTodo = {} /\ cmp \subseteq hpd BY <2>1 DEF HpTake, Phases, TypeOK, SentType
    <3>2. InQueued(x)' = InQueued(x) BY <2>1 DEF HpTake, InQueued
    <3>. QED BY <3>1, <3>2, NewsKept, <2>1
         DEF HpTake, WillCompare, WillDetect, hw_vars, conn_vars, dp_vars
  <2>2. ASSUME NEW c \in Ports, HpScan(c) PROVE Accounted(x)'
    <3>. x \in Ports BY DEF Ports
    <3>1. CASE x # c
      <4>1. known'[x] = known[x] /\ plug'[x] = plug[x] /\ polltime'[x] = polltime[x]
        BY <3>1, <2>2 DEF HpScan, TypeOK, ConnType
      <4>2. lag'[x] = lag[x] BY <3>1, <2>2, Looked DEF HpScan, TypeOK
      <4>. QED BY <3>1, <4>1, <4>2, NewsKept, <2>2
           DEF HpScan, WillCompare, WillDetect, InQueued, dp_vars, sent_vars
    <3>2. CASE x = c
      <4>. DEFINE new == Detected(c, c \in hpComp)
      <4>1. known'[x] = new /\ plug' = plug BY <3>2, <2>2 DEF HpScan, TypeOK, ConnType
      <4>2. CASE lag[x] = 0
        <5>. SUFFICES ASSUME new # plug[x] PROVE Accounted(x)' BY <4>1 DEF Accounted
        <5>1. known[x] # None /\ plug[x] # None /\ x \notin hpComp /\ new = known[x]
          BY <3>2, <4>2, DetectedPlugged DEF TypeOK
        <5>2. WillCompare(x) BY <5>1 DEF Accounted
        <5>3. WillCompare(x)'
          BY <5>1, <5>2, <2>2 DEF HpScan, WillCompare, InQueued, dp_vars, sent_vars
        <5>. QED BY <5>1, <5>3, <4>1 DEF Accounted
      <4>3. CASE lag[x] > 0
        <5>1. plug[x] = None /\ ddc[x] \in HdmiMonitors
          BY <4>3, DetectedLagging DEF TypeOK
        <5>2. WillDetect(x)'
          <6>1. CASE latch[x] = "out" \/ x \in hpd BY <6>1, <2>2 DEF HpScan, WillDetect, sent_vars
          <6>2. CASE ~(latch[x] = "out" \/ x \in hpd)
            <7>1. known[x] = ddc[x] BY <3>2, <4>3, <6>2, <2>2 DEF HpScan, Fooled
            <7>2. new = known[x] /\ new \in HdmiMonitors
              BY <3>2, <4>3, <7>1, DetectedLagging DEF TypeOK
            <7>3. polltime'[x] = PollTimes
              BY <3>2, <7>2, <2>2 DEF HpScan, TypeOK, ConnType
            <7>4. lag'[x] = lag[x] - 1 /\ lag[x] \in 0..MaxLag
              BY <3>2, <4>3, Looked, <2>2 DEF HpScan, TypeOK, HwType
            <7>. QED BY <7>3, <7>4 DEF WillDetect
          <6>. QED BY <6>1, <6>2
        <5>. QED BY <4>1, <5>1, <5>2 DEF Accounted
      <4>4. lag[x] \in Nat BY DEF TypeOK, HwType
      <4>. QED BY <4>2, <4>3, <4>4
    <3>. QED BY <3>1, <3>2
  <2>3. ASSUME HpLock \/ HpUnlock \/ HpNotify PROVE Accounted(x)'
    BY <2>3 DEF HpLock, HpUnlock, HpNotify, Accounted, WillCompare, WillDetect,
         InQueued, hw_vars, conn_vars, sent_vars, dp_vars, hp_vars
  <2>. QED BY <1>4, <2>1, <2>2, <2>3 DEF HpWork
<1>5. ASSUME PollWork PROVE Accounted(x)'
  <2>1. ASSUME NEW c \in Ports, PollScan(c) PROVE Accounted(x)'
    <3>. x \in Ports BY DEF Ports
    <3>0. PollProbe(c) BY <2>1 DEF PollScan
    <3>1. CASE x # c
      <4>1. known'[x] = known[x] /\ plug'[x] = plug[x] /\ polltime'[x] = polltime[x]
        BY <3>1, <2>1 DEF PollScan, TypeOK, ConnType
      <4>2. lag'[x] = lag[x] BY <3>0, <3>1, PollLooked DEF TypeOK
      <4>. QED BY <3>1, <4>1, <4>2, NewsKept, <2>1
           DEF PollScan, WillCompare, WillDetect, InQueued, dp_vars, hp_vars, sent_vars
    <3>2. CASE x = c
      <4>1. known'[x] = PollDetected(x) /\ plug' = plug
        BY <3>2, <2>1 DEF PollScan, TypeOK, ConnType
      <4>2. CASE lag[x] = 0
        <5>. SUFFICES ASSUME PollDetected(x) # plug[x] PROVE Accounted(x)'
          BY <4>1 DEF Accounted
        <5>0. PollDetected(x) = Detected(x, FALSE)
          BY <3>0, <3>2, <4>2, PollFinds DEF TypeOK
        <5>1. known[x] # None /\ plug[x] # None /\ PollDetected(x) = known[x]
          BY <4>2, <5>0, DetectedPlugged DEF TypeOK
        <5>2. WillCompare(x) BY <5>1 DEF Accounted
        <5>3. WillCompare(x)'
          BY <5>2, <2>1 DEF PollScan, WillCompare, InQueued, dp_vars, hp_vars, sent_vars
        <5>. QED BY <5>1, <5>3, <4>1 DEF Accounted
      <4>3. CASE lag[x] > 0
        <5>1. plug[x] = None BY <4>3, DetectedLagging DEF TypeOK
        <5>. SUFFICES ASSUME PollDetected(x) # None PROVE WillDetect(x)'
          BY <4>1, <5>1 DEF Accounted
        <5>0. PollDetected(x) = Detected(x, FALSE)
          BY <3>0, <3>2, PollFinds DEF TypeOK
        <5>2. CASE latch[x] = "out" \/ x \in hpd \/ x \in hpTodo
          BY <5>2, <2>1 DEF PollScan, WillDetect, hp_vars, sent_vars
        <5>3. CASE known[x] = ddc[x] /\ polltime[x] > lag[x]
          <6>1. PollDetected(x) = known[x] /\ known[x] # None
            BY <4>3, <5>0, <5>3, DetectedLagging DEF TypeOK
          <6>2. lag[x] \in Nat /\ polltime[x] \in Nat BY DEF TypeOK, HwType, ConnType
          <6>3. lag'[x] \in Nat /\ lag'[x] < lag[x]
            BY <3>0, <3>2, <4>3, <6>2, PollLooked DEF TypeOK
          <6>4. polltime' = [polltime EXCEPT ![x] = IF polltime[x] = 0 THEN 0
                                                    ELSE polltime[x] - 1]
            BY <3>2, <6>1, <2>1 DEF PollScan
          <6>5. polltime'[x] = IF polltime[x] = 0 THEN 0 ELSE polltime[x] - 1
            BY <6>4 DEF TypeOK, ConnType
          <6>. QED BY <5>3, <6>2, <6>3, <6>5 DEF WillDetect
        <5>. QED BY <5>2, <5>3, <4>3 DEF Lagging, Chased
      <4>4. lag[x] \in Nat BY DEF TypeOK, HwType
      <4>. QED BY <4>2, <4>3, <4>4
    <3>. QED BY <3>1, <3>2
  <2>2. ASSUME PollStart \/ PollUnlock \/ PollOut PROVE Accounted(x)'
    BY <2>2 DEF PollStart, PollUnlock, PollOut, Accounted, WillCompare, WillDetect,
         InQueued, hw_vars, conn_vars, sent_vars, dp_vars, hp_vars
  <2>. QED BY <1>5, <2>1, <2>2 DEF PollWork
<1>6. ASSUME Os PROVE Accounted(x)'
  <2>1. ASSUME NEW c \in Ports, OsDetect(c) PROVE Accounted(x)'
    <3>. x \in Ports BY DEF Ports
    <3>1. CASE x # c
      <4>1. known'[x] = known[x] /\ plug'[x] = plug[x] /\ polltime'[x] = polltime[x]
        BY <3>1, <2>1 DEF OsDetect, TypeOK, ConnType
      <4>2. lag'[x] = lag[x] BY <3>1, <2>1, Looked DEF OsDetect, TypeOK
      <4>. QED BY <3>1, <4>1, <4>2, NewsKept, <2>1
           DEF OsDetect, WillCompare, WillDetect, InQueued, dp_vars, hp_vars, sent_vars
    <3>2. CASE x = c
      <4>1. known'[x] = Detected(x, FALSE) /\ plug' = plug
        BY <3>2, <2>1 DEF OsDetect, TypeOK, ConnType
      <4>2. CASE lag[x] = 0
        <5>. SUFFICES ASSUME Detected(x, FALSE) # plug[x] PROVE Accounted(x)'
          BY <4>1 DEF Accounted
        <5>1. known[x] # None /\ plug[x] # None /\ Detected(x, FALSE) = known[x]
          BY <4>2, DetectedPlugged DEF TypeOK
        <5>2. WillCompare(x) BY <5>1 DEF Accounted
        <5>3. WillCompare(x)'
          BY <5>2, <2>1 DEF OsDetect, WillCompare, InQueued, dp_vars, hp_vars, sent_vars
        <5>. QED BY <5>1, <5>3, <4>1 DEF Accounted
      <4>3. CASE lag[x] > 0
        <5>1. plug[x] = None BY <4>3, DetectedLagging DEF TypeOK
        <5>2. WillDetect(x)'
          <6>1. CASE latch[x] = "out" \/ x \in hpd \/ x \in hpTodo
            BY <6>1, <2>1 DEF OsDetect, WillDetect, hp_vars, sent_vars
          <6>2. CASE known[x] = ddc[x] /\ polltime[x] > lag[x]
            <7>1. Detected(x, FALSE) = known[x] /\ known[x] # None
              BY <4>3, <6>2, DetectedLagging DEF TypeOK
            <7>2. lag'[x] = lag[x] - 1 BY <3>2, <4>3, Looked, <2>1 DEF OsDetect, TypeOK
            <7>3. polltime' = polltime BY <2>1 DEF OsDetect
            <7>4. lag[x] \in Nat /\ polltime[x] \in Nat BY DEF TypeOK, HwType, ConnType
            <7>5. polltime'[x] = polltime[x] BY <7>3
            <7>. QED BY <6>2, <7>2, <7>4, <7>5 DEF WillDetect
          <6>. QED BY <6>1, <6>2, <4>3 DEF Lagging, Chased
        <5>. QED BY <4>1, <5>1, <5>2 DEF Accounted
      <4>4. lag[x] \in Nat BY DEF TypeOK, HwType
      <4>. QED BY <4>2, <4>3, <4>4
    <3>. QED BY <3>1, <3>2
  <2>2. ASSUME NEW c \in Ports, OsDetectFast(c) PROVE Accounted(x)'
    <3>. x \in Ports BY DEF Ports
    <3>1. polltime'[x] >= polltime[x] /\ lag[x] \in Nat /\ polltime[x] \in Nat
          /\ polltime'[x] \in Nat
      BY <2>2 DEF OsDetectFast, TypeOK, ConnType, HwType
    <3>2. WillCompare(x) => WillCompare(x)'
      BY <2>2 DEF OsDetectFast, WillCompare, InQueued, hw_vars, dp_vars, hp_vars, sent_vars
    <3>3. WillDetect(x) => WillDetect(x)'
      BY <2>2, <3>1, <3>2 DEF OsDetectFast, WillDetect, hw_vars, hp_vars, sent_vars
    <3>. QED BY <3>2, <3>3, NewsKept, <2>2 DEF OsDetectFast, hw_vars
  <2>. QED BY <1>6, <2>1, <2>2 DEF Os
<1>7. ASSUME Pm PROVE Accounted(x)'
  <2>1. ASSUME Suspend PROVE Accounted(x)'
    BY <2>1 DEF Suspend, Accounted, WillCompare, WillDetect, InQueued, hw_vars,
         conn_vars, sent_vars, dp_vars, hp_vars
  <2>2. ASSUME PollCancelled PROVE Accounted(x)'
    BY <2>2 DEF PollCancelled, Accounted, WillCompare, WillDetect, InQueued,
         hw_vars, conn_vars, sent_vars, dp_vars, hp_vars
  <2>3. ASSUME CancelDp PROVE Accounted(x)'
    BY <2>3 DEF CancelDp, Accounted, WillCompare, WillDetect, InQueued, hw_vars,
         conn_vars, sent_vars, dp_vars, hp_vars
  <2>4. ASSUME CancelHp PROVE Accounted(x)'
    BY <2>4 DEF CancelHp, Accounted, WillCompare, WillDetect, InQueued, hw_vars,
         conn_vars, sent_vars, dp_vars, hp_vars
  <2>5. ASSUME HpCancelled PROVE Accounted(x)'
    BY <2>5 DEF HpCancelled, Accounted, WillCompare, WillDetect, InQueued, hw_vars,
         conn_vars, sent_vars, dp_vars, hp_vars
  <2>6. ASSUME Resume PROVE Accounted(x)'
    BY <2>6 DEF Resume, Accounted, WillCompare, WillDetect, InQueued, hw_vars,
         conn_vars, sent_vars, dp_vars, hp_vars, Phases
  <2>7. ASSUME ResumePoll PROVE Accounted(x)'
    BY <2>7 DEF ResumePoll, Accounted, WillCompare, WillDetect, InQueued, hw_vars,
         conn_vars, sent_vars, dp_vars, hp_vars
  <2>8. ASSUME ResumeDetect PROVE Accounted(x)'
    BY <2>8 DEF ResumeDetect, Accounted, WillCompare, WillDetect, InQueued, hw_vars,
         conn_vars, sent_vars, dp_vars, hp_vars, Phases
  <2>9. ASSUME ResumeNotify PROVE Accounted(x)'
    BY <2>9 DEF ResumeNotify, Accounted, WillCompare, WillDetect, InQueued, hw_vars,
         conn_vars, sent_vars, dp_vars, hp_vars
  <2>. QED BY <1>7, <2>1, <2>2, <2>3, <2>4, <2>5, <2>6, <2>7, <2>8, <2>9 DEF Pm
<1>8. ASSUME NEW c \in DpPorts, Pulse(c) PROVE Accounted(x)'
  BY <1>8 DEF Pulse, Accounted, WillCompare, WillDetect, InQueued, hw_vars,
       conn_vars, sent_vars, dp_vars, hp_vars, TypeOK, HwType, ConnType, SentType,
       WorkType, Ports, HpdPorts
<1>9. CASE UNCHANGED vars
  BY <1>9 DEF vars, Accounted, WillCompare, WillDetect, InQueued, hw_vars,
       conn_vars, sent_vars, dp_vars, hp_vars
<1>. QED BY <1>1, <1>2, <1>3, <1>4, <1>5, <1>6, <1>7, <1>8, <1>9 DEF Next

LEMMA ChasedStep ==
  ASSUME TypeOK, Phases, Echo, [Next]_vars, suspends = 0,
         NEW x \in DpPorts, x \notin missed, x \notin missed', Chased(x)
  PROVE  Chased(x)'
<1>1. ASSUME Monitor PROVE Chased(x)'
  <2>1. ASSUME NEW c \in Ports, NEW m \in Monitors, Plug(c, m) PROVE Chased(x)'
    BY <2>1 DEF Plug, Chased, hw_vars, conn_vars, sent_vars, hp_vars, Latch, TypeOK,
         HwType, ConnType, Ports, HpdPorts
  <2>2. ASSUME NEW c \in Ports, NEW more \in 0..MaxLag, Unplug(c, more) PROVE
       Chased(x)'
    BY <2>2 DEF Unplug, Chased, hw_vars, conn_vars, sent_vars, hp_vars, Latch,
         TypeOK, HwType, ConnType, Ports, HpdPorts
  <2>. QED BY <1>1, <2>1, <2>2 DEF Monitor
<1>2. ASSUME Irq PROVE Chased(x)'
  <2>1. ASSUME NEW c \in HpdPorts, IrqMask(c) PROVE Chased(x)'
    BY <2>1 DEF IrqMask, Chased, hw_vars, conn_vars, sent_vars, hp_vars, TypeOK,
         HwType, ConnType, Ports, HpdPorts
  <2>2. ASSUME NEW c \in HpdPorts, IrqQueue(c) PROVE Chased(x)'
    BY <2>2 DEF IrqQueue, Chased, hw_vars, conn_vars, sent_vars, hp_vars, TypeOK,
         HwType, ConnType, Ports, HpdPorts
  <2>3. ASSUME IrqEnter \/ IrqUnlock \/ IrqKick PROVE Chased(x)'
    BY <2>3 DEF IrqEnter, IrqUnlock, IrqKick, Chased, hw_vars, conn_vars, sent_vars,
         hp_vars
  <2>. QED BY <1>2, <2>1, <2>2, <2>3 DEF Irq
<1>3. ASSUME DpWork PROVE Chased(x)'
  <2>1. ASSUME DpPublish PROVE Chased(x)'
    BY <2>1 DEF DpPublish, Chased, hw_vars, conn_vars, sent_vars, hp_vars
  <2>2. ASSUME DpStart \/ DpTake \/ DpDrained \/ DpHandle \/ DpKick PROVE Chased(x)'
    BY <2>2 DEF DpStart, DpTake, DpDrained, DpHandle, DpKick, Chased, hw_vars,
         conn_vars, sent_vars, hp_vars
  <2>. QED BY <1>3, <2>1, <2>2 DEF DpWork
<1>4. ASSUME HpWork PROVE Chased(x)'
  <2>1. ASSUME HpTake PROVE Chased(x)'
    BY <2>1 DEF HpTake, Chased, hw_vars, conn_vars, sent_vars, hp_vars, Phases
  <2>2. ASSUME NEW c \in Ports, HpScan(c) PROVE Chased(x)'
    <3>. x \in Ports BY DEF Ports
    <3>. SUFFICES ASSUME lag'[x] > 0, latch[x] # "out", x \notin hpd, x \notin hpTodo'
         PROVE  known'[x] = ddc'[x] /\ polltime'[x] > lag'[x]
      BY <2>2 DEF HpScan, Chased, sent_vars
    <3>0. lag[x] \in 0..MaxLag /\ lag[x] > 0 /\ ddc'[x] = ddc[x]
      BY Looked, <2>2 DEF HpScan, TypeOK, HwType
    <3>1. CASE x # c
      <4>1. lag'[x] = lag[x] BY <3>1, Looked, <2>2 DEF HpScan, TypeOK
      <4>2. known'[x] = known[x] /\ polltime'[x] = polltime[x] /\ x \notin hpTodo
        BY <3>1, <2>2 DEF HpScan, TypeOK, ConnType
      <4>. QED BY <3>0, <4>1, <4>2 DEF Chased
    <3>2. CASE x = c
      <4>1. lag'[x] = lag[x] - 1 BY <3>0, <3>2, Looked, <2>2 DEF HpScan, TypeOK
      <4>2. known[x] = ddc[x] BY <3>0, <3>2, <2>2 DEF HpScan, Fooled
      <4>3. Detected(x, x \in hpComp) = known[x] /\ known[x] \in HdmiMonitors
        BY <3>0, <4>2, DetectedLagging DEF TypeOK
      <4>4. known'[x] = known[x] /\ polltime'[x] = PollTimes
        BY <3>2, <4>3, <2>2 DEF HpScan, TypeOK, ConnType
      <4>. QED BY <3>0, <4>1, <4>2, <4>4
    <3>. QED BY <3>1, <3>2
  <2>3. ASSUME HpLock \/ HpUnlock \/ HpNotify PROVE Chased(x)'
    BY <2>3 DEF HpLock, HpUnlock, HpNotify, Chased, hw_vars, conn_vars, sent_vars,
         hp_vars
  <2>. QED BY <1>4, <2>1, <2>2, <2>3 DEF HpWork
<1>5. ASSUME PollWork PROVE Chased(x)'
  <2>1. ASSUME NEW c \in Ports, PollScan(c) PROVE Chased(x)'
    <3>. x \in Ports BY DEF Ports
    <3>. SUFFICES ASSUME lag'[x] > 0, latch[x] # "out", x \notin hpd, x \notin hpTodo
         PROVE  known'[x] = ddc'[x] /\ polltime'[x] > lag'[x]
      BY <2>1 DEF PollScan, Chased, sent_vars, hp_vars
    <3>. PollProbe(c) BY <2>1 DEF PollScan
    <3>0. lag[x] \in 0..MaxLag /\ lag[x] > 0 /\ ddc'[x] = ddc[x]
      BY PollLooked DEF TypeOK, HwType
    <3>1. known[x] = ddc[x] /\ polltime[x] > lag[x] BY <3>0 DEF Chased
    <3>2. CASE x # c
      <4>1. lag'[x] = lag[x] BY <3>2, PollLooked DEF TypeOK
      <4>2. known'[x] = known[x] /\ polltime'[x] = polltime[x]
        BY <3>2, <2>1 DEF PollScan, TypeOK, ConnType
      <4>. QED BY <3>0, <3>1, <4>1, <4>2
    <3>3. CASE x = c
      <4>1. lag'[x] \in 0..(lag[x] - 1) BY <3>0, <3>3, PollLooked DEF TypeOK
      <4>2. PollDetected(x) = known[x] /\ known[x] # None
        BY <3>0, <3>1, <3>3, DetectedLagging, PollFinds DEF TypeOK
      <4>3. known'[x] = known[x] BY <3>3, <4>2, <2>1 DEF PollScan, TypeOK, ConnType
      <4>4. polltime' = [polltime EXCEPT ![x] = IF polltime[x] = 0 THEN 0
                                                ELSE polltime[x] - 1]
        BY <3>3, <4>2, <2>1 DEF PollScan
      <4>5. lag[x] \in Nat /\ polltime[x] \in Nat BY DEF TypeOK, HwType, ConnType
      <4>6. polltime'[x] = IF polltime[x] = 0 THEN 0 ELSE polltime[x] - 1
        BY <4>4 DEF TypeOK, ConnType
      <4>. QED BY <3>0, <3>1, <4>1, <4>3, <4>5, <4>6
    <3>. QED BY <3>2, <3>3
  <2>2. ASSUME PollStart \/ PollUnlock \/ PollOut PROVE Chased(x)'
    BY <2>2 DEF PollStart, PollUnlock, PollOut, Chased, hw_vars, conn_vars,
         sent_vars, hp_vars
  <2>. QED BY <1>5, <2>1, <2>2 DEF PollWork
<1>6. ASSUME Os PROVE Chased(x)'
  <2>1. ASSUME NEW c \in Ports, OsDetect(c) PROVE Chased(x)'
    <3>. x \in Ports BY DEF Ports
    <3>. SUFFICES ASSUME lag'[x] > 0, latch[x] # "out", x \notin hpd, x \notin hpTodo
         PROVE  known'[x] = ddc'[x] /\ polltime'[x] > lag'[x]
      BY <2>1 DEF OsDetect, Chased, sent_vars, hp_vars
    <3>0. lag[x] \in 0..MaxLag /\ lag[x] > 0 /\ ddc'[x] = ddc[x]
      BY Looked, <2>1 DEF OsDetect, TypeOK, HwType
    <3>1. known[x] = ddc[x] /\ polltime[x] > lag[x] BY <3>0 DEF Chased
    <3>2. CASE x # c
      <4>1. lag'[x] = lag[x] BY <3>2, Looked, <2>1 DEF OsDetect, TypeOK
      <4>2. known'[x] = known[x] /\ polltime'[x] = polltime[x]
        BY <3>2, <2>1 DEF OsDetect, TypeOK, ConnType
      <4>. QED BY <3>0, <3>1, <4>1, <4>2
    <3>3. CASE x = c
      <4>1. lag'[x] = lag[x] - 1 BY <3>0, <3>3, Looked, <2>1 DEF OsDetect, TypeOK
      <4>2. Detected(x, FALSE) = known[x] /\ known[x] # None
        BY <3>0, <3>1, DetectedLagging DEF TypeOK
      <4>3. known'[x] = known[x] BY <3>3, <4>2, <2>1 DEF OsDetect, TypeOK, ConnType
      <4>4. polltime' = polltime BY <2>1 DEF OsDetect
      <4>5. lag[x] \in Nat /\ polltime[x] \in Nat BY DEF TypeOK, HwType, ConnType
      <4>6. polltime'[x] = polltime[x] BY <4>4
      <4>. QED BY <3>0, <3>1, <4>1, <4>3, <4>5, <4>6
    <3>. QED BY <3>2, <3>3
  <2>2. ASSUME NEW c \in Ports, OsDetectFast(c) PROVE Chased(x)'
    <3>. x \in Ports BY DEF Ports
    <3>1. polltime'[x] >= polltime[x] /\ lag[x] \in Nat /\ polltime[x] \in Nat
          /\ polltime'[x] \in Nat
      BY <2>2 DEF OsDetectFast, TypeOK, ConnType, HwType
    <3>. QED BY <3>1, <2>2 DEF OsDetectFast, Chased, hw_vars, hp_vars, sent_vars
  <2>. QED BY <1>6, <2>1, <2>2 DEF Os
<1>7. ASSUME Pm PROVE Chased(x)'
  <2>1. ASSUME Suspend PROVE Chased(x)'
    BY <2>1 DEF Suspend, Chased, hw_vars, conn_vars, sent_vars, hp_vars
  <2>2. ASSUME PollCancelled PROVE Chased(x)'
    BY <2>2 DEF PollCancelled, Chased, hw_vars, conn_vars, sent_vars, hp_vars
  <2>3. ASSUME CancelDp PROVE Chased(x)'
    BY <2>3 DEF CancelDp, Chased, hw_vars, conn_vars, sent_vars, hp_vars
  <2>4. ASSUME CancelHp PROVE Chased(x)'
    BY <2>4 DEF CancelHp, Chased, hw_vars, conn_vars, sent_vars, hp_vars
  <2>5. ASSUME HpCancelled PROVE Chased(x)'
    BY <2>5 DEF HpCancelled, Chased, hw_vars, conn_vars, sent_vars, hp_vars
  <2>6. ASSUME Resume PROVE Chased(x)'
    BY <2>6 DEF Resume, Chased, hw_vars, conn_vars, sent_vars, hp_vars, Phases
  <2>7. ASSUME ResumePoll PROVE Chased(x)'
    BY <2>7 DEF ResumePoll, Chased, hw_vars, conn_vars, sent_vars, hp_vars
  <2>8. ASSUME ResumeDetect PROVE Chased(x)'
    BY <2>8 DEF ResumeDetect, Chased, hw_vars, conn_vars, sent_vars, hp_vars, Phases
  <2>9. ASSUME ResumeNotify PROVE Chased(x)'
    BY <2>9 DEF ResumeNotify, Chased, hw_vars, conn_vars, sent_vars, hp_vars
  <2>. QED BY <1>7, <2>1, <2>2, <2>3, <2>4, <2>5, <2>6, <2>7, <2>8, <2>9 DEF Pm
<1>8. ASSUME NEW c \in DpPorts, Pulse(c) PROVE Chased(x)'
  BY <1>8 DEF Pulse, Chased, hw_vars, conn_vars, sent_vars, hp_vars, TypeOK, HwType,
       ConnType, Ports, HpdPorts
<1>9. CASE UNCHANGED vars
  BY <1>9 DEF vars, Chased, hw_vars, conn_vars, sent_vars, hp_vars
<1>. QED BY <1>1, <1>2, <1>3, <1>4, <1>5, <1>6, <1>7, <1>8, <1>9 DEF Next

-------------------------------------------------------------------------------
(* A step keeps the invariant, and the invariant holds in every state.      *)

(* A change of the monitor is news of its port, whatever was missed before. *)
LEMMA MonitorNews ==
  ASSUME HwType, Monitor, NEW x \in DpPorts, x \notin missed',
         x \notin missed => Accounted(x) /\ Chased(x)
  PROVE  x \notin missed \/ (Accounted(x)' /\ Chased(x)')
  <1>. SUFFICES ASSUME x \in missed PROVE Accounted(x)' /\ Chased(x)' OBVIOUS
  <1>0. x \in HpdPorts /\ x \in Ports BY DEF HpdPorts, Ports
  <1>1. ASSUME NEW c \in Ports, NEW m \in Monitors, Plug(c, m)
        PROVE  Accounted(x)' /\ Chased(x)'
    <2>1. x = c BY <1>1 DEF Plug
    <2>2. latch'[x] = "in" /\ lag'[x] = 0
      BY <1>0, <1>1, <2>1 DEF Plug, Latch, HwType
    <2>. QED BY <2>2 DEF Accounted, WillDetect, WillCompare, Chased
  <1>2. ASSUME NEW c \in Ports, NEW more \in 0..MaxLag, Unplug(c, more)
        PROVE  Accounted(x)' /\ Chased(x)'
    <2>1. x = c BY <1>2 DEF Unplug
    <2>2. latch'[x] = "out" /\ plug'[x] = None
      BY <1>0, <1>2, <2>1 DEF Unplug, Latch, HwType
    <2>. QED BY <2>2 DEF Accounted, WillDetect, Chased
  <1>. QED BY <1>1, <1>2 DEF Monitor

LEMMA NewsParts ==
  ASSUME TypeOK, Phases, Echo, Lagging, NothingForgotten, [Next]_vars
  PROVE  Lagging' /\ NothingForgotten'
  <1>. SUFFICES ASSUME suspends' = 0, NEW x \in DpPorts, x \notin missed'
       PROVE  Accounted(x)' /\ Chased(x)'
    BY DEF Lagging, NothingForgotten
  <1>1. suspends = 0 /\ (missed \subseteq missed' \/ Monitor) BY NothingUnmissed
  <1>2. x \notin missed => Accounted(x) /\ Chased(x)
    BY <1>1 DEF Lagging, NothingForgotten
  <1>3. CASE x \notin missed BY <1>1, <1>2, <1>3, NewsStep, ChasedStep
  <1>4. CASE x \in missed BY <1>1, <1>2, <1>4, MonitorNews DEF TypeOK
  <1>. QED BY <1>3, <1>4

LEMMA ServedStep ==
  ASSUME TypeOK, Phases, RunningIsTrue, WorkIsServed, [Next]_vars PROVE WorkIsServed'
  <1>1. (suspends = 0 => QueueServed)' BY QueueStep DEF WorkIsServed
  <1>2. (suspends = 0 => MaskServed)' BY MaskStep DEF WorkIsServed
  <1>3. (suspends = 0 => PollServed)' BY PollStep DEF WorkIsServed
  <1>. QED BY <1>1, <1>2, <1>3 DEF WorkIsServed

LEMMA Inductive == ASSUME IInv, [Next]_vars PROVE IInv'
  <1>1. TypeOK /\ Phases /\ Echo /\ Quiet /\ RunningIsTrue /\ WorkIsServed
        /\ Lagging /\ NothingForgotten /\ DviIsDetected /\ ChangesAnnounced
    BY DEF IInv
  <1>2. TypeOK' BY <1>1, TypeStep
  <1>3. Phases' /\ Echo' /\ Quiet'
    BY <1>1, PhasesStep, EchoStep, QuietStep DEF TypeOK
  <1>4. RunningIsTrue' /\ WorkIsServed' BY <1>1, RunningStep, ServedStep
  <1>5. Lagging' /\ NothingForgotten' BY <1>1, NewsParts
  <1>6. DviIsDetected' /\ ChangesAnnounced' BY <1>1, DviStep, AnnouncedStep
  <1>. QED BY <1>2, <1>3, <1>4, <1>5, <1>6 DEF IInv

THEOREM Invariance == Spec => []IInv
  <1>1. Init => IInv BY InitIInv
  <1>2. IInv /\ [Next]_vars => IInv' BY Inductive
  <1>. QED BY <1>1, <1>2, PTL DEF Spec

-------------------------------------------------------------------------------
(* What a reader should know of.                                            *)

(* Every variable keeps its type: the ring never holds more than its depth, *)
(* compare_edid_outputs stays within hpd_outputs and polling_time never     *)
(* leaves 0..INIT_POLLING_TIME (zx_irq.c:614, 832 and 1257).                *)
THEOREM TypeCorrect == Spec => []TypeOK
  BY Invariance, PTL DEF IInv

(* Before any suspend, events in the queue, ports in the mask and ports to  *)
(* poll always have a work item pending, running or about to be scheduled:  *)
(* scheduling dp_irq_work only on the empty queue, and the poll work only   *)
(* when poll_running is clear, loses no wake-up (zx_irq.c:609, 993).         *)
THEOREM WorkServed == Spec => []WorkIsServed
  BY Invariance, PTL DEF IInv

(* Between the latch of a plug or unplug and its detection the news is      *)
(* always somewhere: in the latch, the queue, dp_irq_work's hands, the two  *)
(* masks, hotplug_work's hands or the polling count (zx_irq.c:574-1042).    *)
THEOREM NewsKeptSafe == Spec => []NothingForgotten
  BY Invariance, PTL DEF IInv

(* A DVI port says only that something happened, and nothing queues its     *)
(* change: the bit that the handler sets and hotplug_work takes is enough   *)
(* for every change between plugged and unplugged (zx_irq.c:625, 944-1034). *)
THEOREM DviDetected == Spec => []DviIsDetected
  BY Invariance, PTL DEF IInv

(* A change of a connector found by one work is announced by that work,     *)
(* whoever detects the port in between (zx_irq.c:1034 and 1282, and         *)
(* zx_connector.c:709).                                                     *)
THEOREM Announced == Spec => []ChangesAnnounced
  BY Invariance, PTL DEF IInv

(* disp_irq_deinit leaves no interrupt work pending or running, although    *)
(* the handler may schedule dp_irq_work and dp_irq_work hotplug_work while  *)
(* they are being cancelled (zx_disp.c:1012-1046, zx_pcie.c:152-196).       *)
THEOREM QuietWhenSuspended == Spec => []SuspendQuiet
  <1>1. IInv => SuspendQuiet BY DEF IInv, Quiet, SuspendQuiet
  <1>. QED BY <1>1, Invariance, PTL

=============================================================================
