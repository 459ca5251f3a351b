-------------------------------- MODULE HotPlug --------------------------------
(***************************************************************************)
(* Hot plug detection: the interrupt handler and the three work items of   *)
(* zx_irq.c, with the suspend and resume paths of zx_disp.c and zx_pcie.c  *)
(* that cancel and restart them.                                           *)
(*                                                                         *)
(* A plug or unplug sets a latch that raises the interrupt.  The handler   *)
(* sends "out" (and everything of a DVI port) to the mask hpd_outputs for  *)
(* hotplug_work, and "in" and "irq" of a DP or HDMI port to a bounded      *)
(* queue for dp_irq_work, which asks the port what happened and passes it  *)
(* on to hotplug_work.  hotplug_work detects again every masked port.  A   *)
(* port that still answers after an HDMI "out" is polled for a while by    *)
(* the poll work, which also polls the CRT port for ever.                  *)
(*                                                                         *)
(* A section under hpd_lock is one step, and so is one port's detection    *)
(* under mode_config.mutex.  The ring of events is a sequence.             *)
(***************************************************************************)
EXTENDS Integers, Sequences, FiniteSets

CONSTANTS DpPorts,        \* ports of DP or HDMI connectors: they have an event type
          DviPorts,       \* ports whose interrupt says only that something happened
          CrtPorts,       \* ports without hot plug interrupt (supp_polling_outputs)
          Monitors,       \* monitors that can be plugged
          HdmiMonitors,   \* those of monitor_type UT_OUTPUT_TYPE_HDMI
          Special,        \* the "special display" of board 0x3900; {} on any other board
          None,           \* no monitor
          QueueDepth,     \* MAX_DP_QUEUE_DEPTH
          PollTimes,      \* INIT_POLLING_TIME
          MaxLag,         \* bound: detections an HDMI monitor answers after "out"
          TestRequests,   \* DP monitors may ask for automated tests
          FastDetect,     \* the board whose .detect never touches the port
          MaxChanges,     \* bound: plugs, unplugs and irq pulses
          MaxSuspends     \* bound: suspends

Ports == DpPorts \cup DviPorts \cup CrtPorts
HpdPorts == DpPorts \cup DviPorts

ASSUME PortsAssumption == /\ DpPorts \cap DviPorts = {} /\ DpPorts \cap CrtPorts = {}
                          /\ DviPorts \cap CrtPorts = {}
ASSUME MonitorsAssumption == /\ HdmiMonitors \subseteq Monitors /\ None \notin Monitors
                             /\ Special \subseteq Monitors
ASSUME QueueAssumption == QueueDepth \in Nat \ {0}
ASSUME PollAssumption == PollTimes \in Nat \ {0} /\ MaxLag \in 0..PollTimes
ASSUME FlagsAssumption == TestRequests \in BOOLEAN /\ FastDetect \in BOOLEAN
ASSUME BoundsAssumption == MaxChanges \in Nat /\ MaxSuspends \in Nat

VARIABLES
  plug,       \* plug[c]: the monitor on the port
  ddc,        \* ddc[c]: the monitor that answers on the port
  lag,        \* lag[c]: detections a monitor that was pulled will still answer
  latch,      \* latch[c]: HPD_Status of the port
  changes,    \* plugs, unplugs and irq pulses so far
  known,      \* known[c]: connector->status and the EDID kept in its sink
  told,       \* told[c]: what user space was last told of the port
  polltime,   \* polltime[c]: polling_time
  queue,      \* disp_info->event from head to tail
  hpd,        \* hpd_outputs
  cmp,        \* compare_edid_outputs
  irqEnabled, \* irq_enabled
  irqPc,      \* where the interrupt handler is; "scan" holds hpd_lock
  irqTodo,    \* ports of this interrupt still to look at
  irqDp,      \* queue_irq_work
  irqHp,      \* hpd_happen
  dpPend,     \* dp_irq_work is pending
  dpPc,       \* where dp_irq_work is
  dpEv,       \* the port and type it took from the queue
  dpDetect,   \* detect_devices and comp_edid_devs: they are always set together
  hpPend,     \* hotplug_work is pending
  hpPc,       \* where hotplug_work is; "scan" holds mode_config.mutex
  hpTodo,     \* hpd_outputs still to detect
  hpComp,     \* comp_edid_outputs
  hpChanged,  \* changed
  hpNeedPoll, \* need_poll
  pollPend,   \* output_poll_work is pending
  pollPc,     \* where the poll work is; "scan" holds mode_config.mutex
  pollTodo,   \* ports still to poll
  pollChanged,\* changed
  repoll,     \* repoll
  pollRunning,\* disp_info->poll_running
  pm,         \* where suspend and resume are
  pmChanged,  \* changed, in zx_detect_and_update_connectors
  suspends,   \* suspends so far
  missed      \* ports whose last change was lost in a way named below (history)

hw_vars   == <<plug, ddc, lag, latch, changes>>
conn_vars == <<known, told, polltime>>
sent_vars == <<queue, hpd, cmp>>
irq_vars  == <<irqEnabled, irqPc, irqTodo, irqDp, irqHp>>
work_vars == <<dpPend, hpPend, pollPend>>
dp_vars   == <<dpPc, dpEv, dpDetect>>
hp_vars   == <<hpPc, hpTodo, hpComp, hpChanged, hpNeedPoll>>
poll_vars == <<pollPc, pollTodo, pollChanged, repoll, pollRunning>>
pm_vars   == <<pm, pmChanged, suspends>>
vars == <<plug, ddc, lag, latch, changes, known, told, polltime, queue, hpd, cmp,
          irqEnabled, irqPc, irqTodo, irqDp, irqHp, dpPend, hpPend, pollPend, dpPc,
          dpEv, dpDetect, hpPc, hpTodo, hpComp, hpChanged, hpNeedPoll, pollPc,
          pollTodo, pollChanged, repoll, pollRunning, pm, pmChanged, suspends,
          missed>>

NoEvent == <<None, "none">>

MutexFree == hpPc # "scan" /\ pollPc # "scan"     \* mode_config.mutex
HpdUnlocked == irqPc # "scan"                     \* hpd_lock

(* schedule_work and schedule_delayed_work do nothing while                 *)
(* cancel_work_sync waits for the work to end.                              *)
DpQueued   == pm \notin {"dpWait", "dpWait2"}
HpQueued   == pm \notin {"hpWait", "hpWait2"}
PollQueued == pm # "pollWait"

(* zx_poll_enable_locked finds something to poll.                           *)
SomethingToPoll == CrtPorts # {} \/ \E c \in HpdPorts : polltime[c] > 0

(* zx_connector_detect_internal: the EDID is read when the port was         *)
(* disconnected or is to be compared, else the one in the sink stays.       *)
Detected(c, compare) ==
  IF ddc[c] = None THEN None
  ELSE IF known[c] = None \/ compare THEN ddc[c] ELSE known[c]

(* A detection of c uses up one answer of a monitor that was pulled.        *)
Probe(c) ==
  /\ lag' = [lag EXCEPT ![c] = IF lag[c] > 0 THEN lag[c] - 1 ELSE 0]
  /\ ddc' = [ddc EXCEPT ![c] = IF lag[c] = 1 THEN None ELSE ddc[c]]

(* Two detections in a row: the first one may use up the last answer.       *)
ProbeTwice(c) ==
  /\ lag' = [lag EXCEPT ![c] = IF lag[c] > 1 THEN lag[c] - 2 ELSE 0]
  /\ ddc' = [ddc EXCEPT ![c] = IF lag[c] \in 1..2 THEN None ELSE ddc[c]]
DetectedTwice(c) == IF lag[c] = 1 THEN None ELSE Detected(c, FALSE)

(* Board 0x3900: the EDID user space last read is the special display's,    *)
(* and no poll has been made since hotplug_work asked for polling.          *)
SpecialPolled(c) == told[c] \in Special /\ polltime[c] = PollTimes

(* A poll detects the special display once more at first.                   *)
PollProbe(c)    == IF SpecialPolled(c) THEN ProbeTwice(c) ELSE Probe(c)
PollDetected(c) == IF SpecialPolled(c) THEN DetectedTwice(c) ELSE Detected(c, FALSE)

(* The detection of c that the "out" interrupt asked for is answered by a   *)
(* monitor that was pulled before the driver knew it.                       *)
Fooled(c) == lag[c] > 0 /\ known[c] # ddc[c] /\ latch[c] # "out" /\ c \notin hpd

Init ==
  /\ plug \in [Ports -> Monitors \cup {None}]
  /\ ddc = plug /\ known = plug /\ told = plug
  /\ lag = [c \in Ports |-> 0] /\ latch = [c \in Ports |-> "none"]
  /\ changes = 0 /\ suspends = 0 /\ missed = {}
  /\ polltime = [c \in Ports |-> 0]
  /\ queue = <<>> /\ hpd = {} /\ cmp = {}
  /\ irqEnabled = TRUE /\ irqPc = "idle" /\ irqTodo = {}
  /\ irqDp = FALSE /\ irqHp = FALSE
  /\ dpPend = FALSE /\ dpPc = "idle" /\ dpEv = NoEvent
  /\ dpDetect = {}
  /\ hpPend = FALSE /\ hpPc = "idle" /\ hpTodo = {} /\ hpComp = {}
  /\ hpChanged = FALSE /\ hpNeedPoll = FALSE
  /\ pollPend = (CrtPorts # {}) /\ pollPc = "idle" /\ pollTodo = {}
  /\ pollChanged = FALSE /\ repoll = FALSE /\ pollRunning = FALSE
  /\ pm = "run" /\ pmChanged = FALSE

-------------------------------------------------------------------------------
(* The monitors.  A port without hot plug interrupt latches nothing.        *)

Latch(c, type) == latch' = IF c \in HpdPorts THEN [latch EXCEPT ![c] = type] ELSE latch

Plug(c, m) ==
  /\ plug[c] = None /\ changes < MaxChanges
  /\ plug' = [plug EXCEPT ![c] = m]
  /\ ddc' = [ddc EXCEPT ![c] = m]
  /\ lag' = [lag EXCEPT ![c] = 0]
  /\ Latch(c, "in")
  /\ changes' = changes + 1 /\ missed' = missed \ {c}
  /\ UNCHANGED <<conn_vars, sent_vars, irq_vars, work_vars, dp_vars, hp_vars,
                 poll_vars, pm_vars>>

(* A monitor that is pulled slowly still answers after the interrupt.       *)
Unplug(c, more) ==
  /\ plug[c] # None /\ changes < MaxChanges
  /\ more > 0 => c \in DpPorts /\ plug[c] \in HdmiMonitors
  /\ plug' = [plug EXCEPT ![c] = None]
  /\ ddc' = [ddc EXCEPT ![c] = IF more = 0 THEN None ELSE ddc[c]]
  /\ lag' = [lag EXCEPT ![c] = more]
  /\ Latch(c, "out")
  /\ changes' = changes + 1 /\ missed' = missed \ {c}
  /\ UNCHANGED <<conn_vars, sent_vars, irq_vars, work_vars, dp_vars, hp_vars,
                 poll_vars, pm_vars>>

(* A short pulse: link trouble or a test request of the monitor.            *)
Pulse(c) ==
  /\ plug[c] # None /\ latch[c] = "none" /\ changes < MaxChanges
  /\ latch' = [latch EXCEPT ![c] = "irq"]
  /\ changes' = changes + 1
  /\ UNCHANGED <<plug, ddc, lag, conn_vars, sent_vars, irq_vars, work_vars, dp_vars,
                 hp_vars, poll_vars, pm_vars, missed>>

-------------------------------------------------------------------------------
(* zx_irq_handle and zx_hpd_handle.  atomic_irq_lock keeps a second handler *)
(* out.                                                                     *)

IrqEnter ==
  /\ irqPc = "idle" /\ irqEnabled
  /\ \E c \in HpdPorts : latch[c] # "none"
  /\ irqPc' = "scan"
  /\ irqTodo' = {c \in HpdPorts : latch[c] # "none"}
  /\ UNCHANGED <<hw_vars, conn_vars, sent_vars, irqEnabled, irqDp, irqHp, work_vars,
                 dp_vars, hp_vars, poll_vars, pm_vars, missed>>

(* Mutant: a DVI port sets hpd_happen and no bit of hpd_outputs.            *)
IrqMaskUnsent(c) ==
  /\ irqPc = "scan" /\ c \in irqTodo
  /\ c \in DviPorts \/ latch[c] = "out"
  /\ irqTodo' = irqTodo \ {c}
  /\ latch' = [latch EXCEPT ![c] = "none"]
  /\ hpd' = IF c \in DviPorts THEN hpd ELSE hpd \cup {c}
  /\ irqHp' = TRUE
  /\ UNCHANGED <<plug, ddc, lag, changes, conn_vars, queue, cmp, irqEnabled, irqPc,
                 irqDp, work_vars, dp_vars, hp_vars, poll_vars, pm_vars, missed>>

(* DP_HPD_HDMI_OUT, DP_HPD_DP_OUT, and whatever happened to a DVI port.     *)
IrqMask(c) ==
  /\ irqPc = "scan" /\ c \in irqTodo
  /\ c \in DviPorts \/ latch[c] = "out"
  /\ irqTodo' = irqTodo \ {c}
  /\ latch' = [latch EXCEPT ![c] = "none"]
  /\ hpd' = hpd \cup {c}
  /\ irqHp' = TRUE
  /\ UNCHANGED <<plug, ddc, lag, changes, conn_vars, queue, cmp, irqEnabled, irqPc,
                 irqDp, work_vars, dp_vars, hp_vars, poll_vars, pm_vars, missed>>

QueueFull == Len(queue) >= QueueDepth     \* DP_QUEUE_FULL

(* Mutant: the queue is looked at after the event is in it.                 *)
IrqQueueLate(c) ==
  /\ irqPc = "scan" /\ c \in irqTodo
  /\ c \in DpPorts /\ latch[c] \in {"in", "irq"}
  /\ irqTodo' = irqTodo \ {c}
  /\ latch' = [latch EXCEPT ![c] = "none"]
  /\ queue' = IF QueueFull THEN queue ELSE Append(queue, <<c, latch[c]>>)
  /\ missed' = IF QueueFull /\ latch[c] = "in" THEN missed \cup {c} ELSE missed
  /\ irqDp' = (irqDp \/ queue' = <<>>)
  /\ UNCHANGED <<plug, ddc, lag, changes, conn_vars, hpd, cmp, irqEnabled, irqPc,
                 irqHp, work_vars, dp_vars, hp_vars, poll_vars, pm_vars>>

(* DP_HPD_IN and DP_HPD_IRQ: dp_irq_work is scheduled only by the event     *)
(* that finds the queue empty, and an event that finds it full is dropped.  *)
IrqQueue(c) ==
  /\ irqPc = "scan" /\ c \in irqTodo
  /\ c \in DpPorts /\ latch[c] \in {"in", "irq"}
  /\ irqTodo' = irqTodo \ {c}
  /\ latch' = [latch EXCEPT ![c] = "none"]
  /\ irqDp' = (irqDp \/ queue = <<>>)
  /\ queue' = IF QueueFull THEN queue ELSE Append(queue, <<c, latch[c]>>)
  /\ missed' = IF QueueFull /\ latch[c] = "in" THEN missed \cup {c} ELSE missed
  /\ UNCHANGED <<plug, ddc, lag, changes, conn_vars, hpd, cmp, irqEnabled, irqPc,
                 irqHp, work_vars, dp_vars, hp_vars, poll_vars, pm_vars>>

IrqUnlock ==
  /\ irqPc = "scan" /\ irqTodo = {}
  /\ irqPc' = "kick"
  /\ UNCHANGED <<hw_vars, conn_vars, sent_vars, irqEnabled, irqTodo, irqDp, irqHp,
                 work_vars, dp_vars, hp_vars, poll_vars, pm_vars, missed>>

IrqKick ==
  /\ irqPc = "kick"
  /\ irqPc' = "idle" /\ irqDp' = FALSE /\ irqHp' = FALSE
  /\ dpPend' = (dpPend \/ (irqDp /\ DpQueued))
  /\ hpPend' = (hpPend \/ (irqHp /\ HpQueued))
  /\ UNCHANGED <<hw_vars, conn_vars, sent_vars, irqEnabled, irqTodo, pollPend,
                 dp_vars, hp_vars, poll_vars, pm_vars, missed>>

-------------------------------------------------------------------------------
(* zx_dp_irq_work_func.                                                     *)

DpStart ==
  /\ dpPend /\ dpPc = "idle"
  /\ dpPend' = FALSE /\ dpPc' = "loop"
  /\ UNCHANGED <<hw_vars, conn_vars, sent_vars, irq_vars, hpPend, pollPend, dpEv,
                 dpDetect, hp_vars, poll_vars, pm_vars, missed>>

DpTake ==
  /\ dpPc = "loop" /\ HpdUnlocked /\ queue # <<>>
  /\ dpEv' = Head(queue) /\ queue' = Tail(queue)
  /\ dpPc' = "handle"
  /\ UNCHANGED <<hw_vars, conn_vars, hpd, cmp, irq_vars, work_vars, dpDetect,
                 hp_vars, poll_vars, pm_vars, missed>>

(* The queue is empty: the loop ends.                                       *)
DpDrained ==
  /\ dpPc = "loop" /\ HpdUnlocked /\ queue = <<>>
  /\ dpPc' = IF dpDetect = {} THEN "idle" ELSE "publish"
  /\ UNCHANGED <<hw_vars, conn_vars, sent_vars, irq_vars, work_vars, dpEv, dpDetect,
                 hp_vars, poll_vars, pm_vars, missed>>

(* cbDPMonitor_HandleIrq, under mode_config.mutex.  "in" asks for a         *)
(* detection with comparison unless a DP monitor answers with a test        *)
(* request; "irq" asks for one only for some test requests.                 *)
Wanted(c, type) ==
  IF TestRequests /\ ddc[c] \in Monitors \ HdmiMonitors THEN BOOLEAN ELSE {type = "in"}

(* Mutant: detect_devices is assigned, not collected.                       *)
DpHandleLast ==
  /\ dpPc = "handle" /\ MutexFree
  /\ LET c == dpEv[1] IN
     \E need \in Wanted(c, dpEv[2]) :
       /\ dpDetect' = IF need THEN {c} ELSE dpDetect
       /\ missed' = IF ~need /\ dpEv[2] = "in" THEN missed \cup {c} ELSE missed
  /\ dpEv' = NoEvent /\ dpPc' = "loop"
  /\ UNCHANGED <<hw_vars, conn_vars, sent_vars, irq_vars, work_vars, hp_vars,
                 poll_vars, pm_vars>>

DpHandle ==
  /\ dpPc = "handle" /\ MutexFree
  /\ LET c == dpEv[1] IN
     \E need \in Wanted(c, dpEv[2]) :
       /\ dpDetect' = IF need THEN dpDetect \cup {c} ELSE dpDetect
       /\ missed' = IF ~need /\ dpEv[2] = "in" THEN missed \cup {c} ELSE missed
  /\ dpEv' = NoEvent /\ dpPc' = "loop"
  /\ UNCHANGED <<hw_vars, conn_vars, sent_vars, irq_vars, work_vars, hp_vars,
                 poll_vars, pm_vars>>

DpPublish ==
  /\ dpPc = "publish" /\ HpdUnlocked
  /\ hpd' = hpd \cup dpDetect /\ cmp' = cmp \cup dpDetect
  /\ dpDetect' = {} /\ dpPc' = "kick"
  /\ UNCHANGED <<hw_vars, conn_vars, queue, irq_vars, work_vars, dpEv, hp_vars,
                 poll_vars, pm_vars, missed>>

DpKick ==
  /\ dpPc = "kick"
  /\ hpPend' = (hpPend \/ HpQueued)
  /\ dpPc' = "idle"
  /\ UNCHANGED <<hw_vars, conn_vars, sent_vars, irq_vars, dpPend, pollPend, dpEv,
                 dpDetect, hp_vars, poll_vars, pm_vars, missed>>

-------------------------------------------------------------------------------
(* zx_hotplug_work_func.                                                    *)

HpTake ==
  /\ hpPend /\ hpPc = "idle" /\ HpdUnlocked
  /\ hpPend' = FALSE
  /\ hpTodo' = hpd /\ hpComp' = cmp
  /\ hpd' = {} /\ cmp' = {}
  /\ hpPc' = IF hpd = {} THEN "idle" ELSE "lock"
  /\ UNCHANGED <<hw_vars, conn_vars, queue, irq_vars, dpPend, pollPend, dp_vars,
                 hpChanged, hpNeedPoll, poll_vars, pm_vars, missed>>

HpLock ==
  /\ hpPc = "lock" /\ MutexFree
  /\ hpPc' = "scan"
  /\ UNCHANGED <<hw_vars, conn_vars, sent_vars, irq_vars, work_vars, dp_vars,
                 hpTodo, hpComp, hpChanged, hpNeedPoll, poll_vars, pm_vars, missed>>

(* A change ends the polling of the port; an HDMI monitor that is known and *)
(* still answers is polled from now on.  The special display that stops     *)
(* answering is left to the polls: the status changes and nothing else.     *)
HpScan(c) ==
  /\ hpPc = "scan" /\ c \in hpTodo
  /\ LET new    == Detected(c, c \in hpComp)
         skip   == SpecialPolled(c) /\ known[c] # None /\ new = None
         change == new # known[c] /\ ~skip
         watch  == new = known[c] /\ new \in HdmiMonitors
     IN /\ known' = [known EXCEPT ![c] = new]
        /\ polltime' = [polltime EXCEPT ![c] = IF change THEN 0
                                               ELSE IF watch THEN PollTimes ELSE polltime[c]]
        /\ hpChanged' = (hpChanged \/ change)
        /\ hpNeedPoll' = (hpNeedPoll \/ (watch /\ ~pollRunning))
  /\ Probe(c)
  /\ missed' = IF Fooled(c) THEN missed \cup {c} ELSE missed
  /\ hpTodo' = hpTodo \ {c}
  /\ UNCHANGED <<plug, latch, changes, told, sent_vars, irq_vars, work_vars,
                 dp_vars, hpPc, hpComp, poll_vars, pm_vars>>

HpUnlock ==
  /\ hpPc = "scan" /\ hpTodo = {}
  /\ pollPend' = (pollPend \/ (hpNeedPoll /\ SomethingToPoll /\ PollQueued))
  /\ hpPc' = IF hpChanged THEN "notify" ELSE "idle"
  /\ hpComp' = {} /\ hpNeedPoll' = FALSE
  /\ UNCHANGED <<hw_vars, conn_vars, sent_vars, irq_vars, dpPend, hpPend, dp_vars,
                 hpTodo, hpChanged, poll_vars, pm_vars, missed>>

HpNotify ==
  /\ hpPc = "notify"
  /\ told' = known
  /\ hpPc' = "idle" /\ hpChanged' = FALSE
  /\ UNCHANGED <<hw_vars, known, polltime, sent_vars, irq_vars, work_vars, dp_vars,
                 hpTodo, hpComp, hpNeedPoll, poll_vars, pm_vars, missed>>

-------------------------------------------------------------------------------
(* zx_output_poll_work_func.  A mutex_trylock that fails queues the work    *)
(* again, which changes nothing: the step waits for the mutex here.         *)

PollStart ==
  /\ pollPend /\ pollPc = "idle" /\ MutexFree
  /\ pollPend' = FALSE /\ pollPc' = "scan"
  /\ pollTodo' = CrtPorts \cup {c \in HpdPorts : polltime[c] > 0}
  /\ repoll' = SomethingToPoll
  /\ UNCHANGED <<hw_vars, conn_vars, sent_vars, irq_vars, dpPend, hpPend, dp_vars,
                 hp_vars, pollChanged, pollRunning, pm_vars, missed>>

(* Mutant: a change found by polling does not set changed.                  *)
PollScanSilent(c) ==
  /\ pollPc = "scan" /\ c \in pollTodo
  /\ LET new     == PollDetected(c)
         changed == (new = None) # (known[c] = None)
     IN /\ known' = [known EXCEPT ![c] = new]
        /\ polltime' = [polltime EXCEPT ![c] = IF changed \/ polltime[c] = 0 THEN 0
                                               ELSE polltime[c] - 1]
        /\ pollChanged' = pollChanged
  /\ PollProbe(c)
  /\ pollTodo' = pollTodo \ {c}
  /\ UNCHANGED <<plug, latch, changes, told, sent_vars, irq_vars, work_vars,
                 dp_vars, hp_vars, pollPc, repoll, pollRunning, pm_vars, missed>>

PollScan(c) ==
  /\ pollPc = "scan" /\ c \in pollTodo
  /\ LET new     == PollDetected(c)
         changed == (new = None) # (known[c] = None)
     IN /\ known' = [known EXCEPT ![c] = new]
        /\ polltime' = [polltime EXCEPT ![c] = IF changed \/ polltime[c] = 0 THEN 0
                                               ELSE polltime[c] - 1]
        /\ pollChanged' = (pollChanged \/ changed)
  /\ PollProbe(c)
  /\ pollTodo' = pollTodo \ {c}
  /\ UNCHANGED <<plug, latch, changes, told, sent_vars, irq_vars, work_vars,
                 dp_vars, hp_vars, pollPc, repoll, pollRunning, pm_vars, missed>>

PollUnlock ==
  /\ pollPc = "scan" /\ pollTodo = {}
  /\ pollRunning' = repoll
  /\ pollPc' = "out"
  /\ UNCHANGED <<hw_vars, conn_vars, sent_vars, irq_vars, work_vars, dp_vars,
                 hp_vars, pollTodo, pollChanged, repoll, pm_vars, missed>>

PollOut ==
  /\ pollPc = "out"
  /\ told' = IF pollChanged THEN known ELSE told
  /\ pollPend' = (pollPend \/ (repoll /\ PollQueued))
  /\ pollPc' = "idle" /\ pollChanged' = FALSE /\ repoll' = FALSE
  /\ UNCHANGED <<hw_vars, known, polltime, sent_vars, irq_vars, dpPend, hpPend,
                 dp_vars, hp_vars, pollTodo, pollRunning, pm_vars, missed>>

-------------------------------------------------------------------------------
(* zx_connector_detect, called by drm_helper_probe_single_connector_modes   *)
(* for user space, which is frozen during a suspend.  The helper queues the *)
(* poll work when the status changed.                                       *)

OsDetect(c) ==
  /\ ~FastDetect /\ pm = "run" /\ MutexFree
  /\ known' = [known EXCEPT ![c] = Detected(c, FALSE)]
  /\ told' = [told EXCEPT ![c] = Detected(c, FALSE)]
  /\ pollPend' = (pollPend \/ ((Detected(c, FALSE) = None) # (known[c] = None)))
  /\ Probe(c)
  /\ UNCHANGED <<plug, latch, changes, polltime, sent_vars, irq_vars, dpPend,
                 hpPend, dp_vars, hp_vars, poll_vars, pm_vars, missed>>

(* fast_detect: the poll work will look at the port once.                   *)
OsDetectFast(c) ==
  /\ FastDetect /\ pm = "run" /\ MutexFree
  /\ c \in HpdPorts /\ polltime[c] = 0
  /\ polltime' = [polltime EXCEPT ![c] = 1]
  /\ pollPend' = (pollPend \/ ~pollRunning)
  /\ told' = [told EXCEPT ![c] = known[c]]
  /\ UNCHANGED <<hw_vars, known, sent_vars, irq_vars, dpPend, hpPend, dp_vars,
                 hp_vars, poll_vars, pm_vars, missed>>

-------------------------------------------------------------------------------
(* zx_drm_suspend and zx_drm_resume.  cancel_work_sync takes the pending    *)
(* bit, lets nobody set it again and waits for a run to end.                *)

Suspend ==
  /\ pm = "run" /\ suspends < MaxSuspends
  /\ pm' = "pollWait" /\ suspends' = suspends + 1
  /\ pollPend' = FALSE                                   \* zx_poll_disable
  /\ UNCHANGED <<hw_vars, conn_vars, sent_vars, irq_vars, dpPend, hpPend, dp_vars,
                 hp_vars, poll_vars, pmChanged, missed>>

(* zx_poll_disable returns; the atomic state is saved.                      *)
PollCancelled ==
  /\ pm = "pollWait" /\ pollPc = "idle"
  /\ pm' = "save"
  /\ UNCHANGED <<hw_vars, conn_vars, sent_vars, irq_vars, work_vars, dp_vars,
                 hp_vars, poll_vars, pmChanged, suspends, missed>>

(* disp_suspend cancels dp_irq_work; disp_irq_deinit does it once more,     *)
(* after the handler has ended and disp_irq_uninstall has masked it.        *)
CancelDp ==
  /\ \/ pm = "save" /\ pm' = "dpWait" /\ UNCHANGED irqEnabled
     \/ pm = "mask" /\ irqPc = "idle" /\ pm' = "dpWait2" /\ irqEnabled' = FALSE
  /\ dpPend' = FALSE
  /\ UNCHANGED <<hw_vars, conn_vars, sent_vars, irqPc, irqTodo, irqDp, irqHp,
                 hpPend, pollPend, dp_vars, hp_vars, poll_vars, pmChanged, suspends,
                 missed>>

(* Mutant: dp_irq_work is cancelled without waiting for its run.            *)
CancelHpEarly ==
  /\ pm \in {"dpWait", "dpWait2"}
  /\ pm' = IF pm = "dpWait" THEN "hpWait" ELSE "hpWait2"
  /\ hpPend' = FALSE
  /\ UNCHANGED <<hw_vars, conn_vars, sent_vars, irq_vars, dpPend, pollPend, dp_vars,
                 hp_vars, poll_vars, pmChanged, suspends, missed>>

CancelHp ==
  /\ pm \in {"dpWait", "dpWait2"} /\ dpPc = "idle"
  /\ pm' = IF pm = "dpWait" THEN "hpWait" ELSE "hpWait2"
  /\ hpPend' = FALSE
  /\ UNCHANGED <<hw_vars, conn_vars, sent_vars, irq_vars, dpPend, pollPend, dp_vars,
                 hp_vars, poll_vars, pmChanged, suspends, missed>>

HpCancelled ==
  /\ pm \in {"hpWait", "hpWait2"} /\ hpPc = "idle"
  /\ pm' = IF pm = "hpWait" THEN "mask" ELSE "suspended"
  /\ UNCHANGED <<hw_vars, conn_vars, sent_vars, irq_vars, work_vars, dp_vars,
                 hp_vars, poll_vars, pmChanged, suspends, missed>>

(* disp_irq_install clears every interrupt before it enables them.          *)
Resume ==
  /\ pm = "suspended"
  /\ pm' = "poll"
  /\ latch' = [c \in Ports |-> "none"]
  /\ irqEnabled' = TRUE
  /\ UNCHANGED <<plug, ddc, lag, changes, conn_vars, sent_vars, irqPc, irqTodo,
                 irqDp, irqHp, work_vars, dp_vars, hp_vars, poll_vars, pmChanged,
                 suspends, missed>>

ResumePoll ==
  /\ pm = "poll" /\ MutexFree
  /\ pm' = "detect"
  /\ pollPend' = (pollPend \/ SomethingToPoll)           \* zx_poll_enable
  /\ UNCHANGED <<hw_vars, conn_vars, sent_vars, irq_vars, dpPend, hpPend, dp_vars,
                 hp_vars, poll_vars, pmChanged, suspends, missed>>

(* zx_detect_and_update_connectors for every output, then the event.        *)
ResumeDetect ==
  /\ pm = "detect" /\ MutexFree
  /\ known' = [c \in Ports |-> Detected(c, FALSE)]
  /\ pmChanged' = (known' # known)
  /\ lag' = [c \in Ports |-> IF lag[c] > 0 THEN lag[c] - 1 ELSE 0]
  /\ ddc' = [c \in Ports |-> IF lag[c] = 1 THEN None ELSE ddc[c]]
  /\ pm' = "notify"
  /\ UNCHANGED <<plug, latch, changes, told, polltime, sent_vars, irq_vars,
                 work_vars, dp_vars, hp_vars, poll_vars, suspends, missed>>

ResumeNotify ==
  /\ pm = "notify"
  /\ told' = IF pmChanged THEN known ELSE told
  /\ pmChanged' = FALSE /\ pm' = "run"
  /\ UNCHANGED <<hw_vars, known, polltime, sent_vars, irq_vars, work_vars, dp_vars,
                 hp_vars, poll_vars, suspends, missed>>

-------------------------------------------------------------------------------
Monitor == \E c \in Ports : \/ \E m \in Monitors : Plug(c, m)
                            \/ \E more \in 0..MaxLag : Unplug(c, more)
Irq == \/ IrqEnter \/ IrqUnlock \/ IrqKick
       \/ \E c \in HpdPorts : IrqMask(c) \/ IrqQueue(c)
DpWork == DpStart \/ DpTake \/ DpDrained \/ DpHandle \/ DpPublish \/ DpKick
HpWork == HpTake \/ HpLock \/ HpUnlock \/ HpNotify \/ \E c \in Ports : HpScan(c)
PollWork == PollStart \/ PollUnlock \/ PollOut \/ \E c \in Ports : PollScan(c)
Os == \E c \in Ports : OsDetect(c) \/ OsDetectFast(c)
Pm == \/ Suspend \/ PollCancelled \/ CancelDp \/ CancelHp \/ HpCancelled
      \/ Resume \/ ResumePoll \/ ResumeDetect \/ ResumeNotify

Next == \/ Monitor \/ Irq \/ DpWork \/ HpWork \/ PollWork \/ Os \/ Pm
        \/ \E c \in DpPorts : Pulse(c)

Spec == Init /\ [][Next]_vars

(* The kernel runs every queued work and every handler to its end, and a    *)
(* task that sleeps on a mutex is handed it in the end.  Monitors, user     *)
(* space and suspends owe nothing.                                          *)
Fairness ==
  /\ WF_vars(Irq) /\ WF_vars(DpStart \/ DpTake \/ DpDrained \/ DpPublish \/ DpKick)
  /\ SF_vars(DpHandle) /\ SF_vars(HpLock)
  /\ WF_vars(HpTake \/ HpUnlock \/ HpNotify \/ \E c \in Ports : HpScan(c))
  /\ WF_vars(PollWork) /\ WF_vars(Pm)

FairSpec == Spec /\ Fairness

-------------------------------------------------------------------------------
(* Properties.                                                              *)

MonitorOrNone == Monitors \cup {None}
Events == DpPorts \X {"in", "irq"}

(* Type invariant.                                                          *)
HwType ==
  /\ plug \in [Ports -> MonitorOrNone] /\ ddc \in [Ports -> MonitorOrNone]
  /\ lag \in [Ports -> 0..MaxLag]
  /\ latch \in [Ports -> {"none", "in", "out", "irq"}]
  /\ changes \in 0..MaxChanges
ConnType ==
  /\ known \in [Ports -> MonitorOrNone] /\ told \in [Ports -> MonitorOrNone]
  /\ polltime \in [Ports -> 0..PollTimes]
SentType ==
  /\ queue \in Seq(Events) /\ Len(queue) <= QueueDepth
  /\ hpd \subseteq HpdPorts /\ cmp \subseteq hpd /\ missed \subseteq DpPorts
IrqType ==
  /\ irqEnabled \in BOOLEAN /\ irqPc \in {"idle", "scan", "kick"}
  /\ irqTodo \subseteq HpdPorts /\ irqDp \in BOOLEAN /\ irqHp \in BOOLEAN
WorkType ==
  /\ dpPend \in BOOLEAN /\ hpPend \in BOOLEAN /\ pollPend \in BOOLEAN
  /\ dpPc \in {"idle", "loop", "handle", "publish", "kick"}
  /\ dpEv \in Events \cup {NoEvent} /\ dpDetect \subseteq DpPorts
  /\ hpPc \in {"idle", "lock", "scan", "notify"}
  /\ hpTodo \subseteq HpdPorts /\ hpComp \subseteq HpdPorts
  /\ hpChanged \in BOOLEAN /\ hpNeedPoll \in BOOLEAN
PollType ==
  /\ pollPc \in {"idle", "scan", "out"} /\ pollTodo \subseteq Ports
  /\ pollChanged \in BOOLEAN /\ repoll \in BOOLEAN /\ pollRunning \in BOOLEAN
PmType ==
  /\ pm \in {"run", "pollWait", "save", "dpWait", "hpWait", "mask", "dpWait2",
             "hpWait2", "suspended", "poll", "detect", "notify"}
  /\ pmChanged \in BOOLEAN /\ suspends \in 0..MaxSuspends

TypeOK ==
  HwType /\ ConnType /\ SentType /\ IrqType /\ WorkType /\ PollType /\ PmType

(* dp_irq_work is scheduled only by the event that finds the queue empty    *)
(* (zx_irq.c:609): every event in the queue has the work pending, running   *)
(* or about to be scheduled by the handler.                                 *)
QueueServed ==
  queue # <<>> => dpPend \/ dpPc \in {"loop", "handle"} \/ (irqPc # "idle" /\ irqDp)

(* The same for the ports sent to hotplug_work.                             *)
MaskServed ==
  hpd # {} => hpPend \/ dpPc = "kick" \/ (irqPc # "idle" /\ irqHp)

(* While there is something to poll the poll work is pending, will queue    *)
(* itself, or will be queued by the hotplug work that asked for it; it is   *)
(* poll_running, read under another work's lock section, that decides.      *)
PollServed ==
  SomethingToPoll => \/ pollPend
                     \/ pollPc # "idle" /\ repoll
                     \/ hpPc = "scan" /\ hpNeedPoll

(* No event waits for a work that nobody will run, before any suspend.      *)
WorkIsServed == suspends = 0 => QueueServed /\ MaskServed /\ PollServed

InQueued(c) == \E i \in 1..Len(queue) : queue[i] = <<c, "in">>

(* What still has to happen will compare the EDID of c.                     *)
WillCompare(c) ==
  \/ latch[c] = "in" \/ InQueued(c) \/ dpEv = <<c, "in">>
  \/ c \in dpDetect \/ c \in cmp \/ (c \in hpTodo /\ c \in hpComp)

(* What still has to happen will detect c.                                  *)
WillDetect(c) ==
  \/ WillCompare(c) \/ latch[c] = "out" \/ c \in hpd \/ c \in hpTodo
  \/ polltime[c] > lag[c]

Accounted(c) ==
  known[c] # plug[c] =>
    IF known[c] # None /\ plug[c] # None THEN WillCompare(c) ELSE WillDetect(c)

(* No change on a DP or HDMI port is forgotten: while the driver's idea of  *)
(* the port (status and EDID) is not what is plugged, something on its way  *)
(* will find out, and will compare EDIDs when one monitor has taken the     *)
(* place of another.  Excused until its next change is only a port whose    *)
(* "in" a full queue dropped (zx_irq.c:614) or a test request answered      *)
(* (HandleIrq), or whose monitor was pulled before its first detection.     *)
NothingForgotten == suspends = 0 => \A c \in DpPorts \ missed : Accounted(c)

(* A DVI port has no event type and no comparison: only a change between    *)
(* plugged and unplugged is sure to be found.                               *)
DviIsDetected ==
  suspends = 0 =>
    \A c \in DviPorts :
      (known[c] = None) # (plug[c] = None) =>
        latch[c] # "none" \/ c \in hpd \/ c \in hpTodo

(* The special display of board 0x3900, seen to go while it was polled:     *)
(* status disconnected, and nobody is told (zx_irq.c:961-970).              *)
Hidden(c) == told[c] \in Special /\ known[c] = None

(* A change the driver has seen is announced: a status or EDID user space   *)
(* was not told of has an event on its way (hotplug_work, the poll work or  *)
(* the resume), suspends included.  The one exception is Hidden.            *)
ChangesAnnounced ==
  (\E c \in Ports : told[c] # known[c] /\ ~Hidden(c)) =>
    hpChanged \/ pollChanged \/ pmChanged

(* Once suspended, neither interrupt work is pending or running and the     *)
(* handler is out, whatever raised an interrupt while the works were being  *)
(* cancelled: disp_irq_deinit cancels again, producers first.               *)
SuspendQuiet ==
  pm = "suspended" => /\ ~irqEnabled /\ irqPc = "idle"
                      /\ ~dpPend /\ dpPc = "idle"
                      /\ ~hpPend /\ hpPc = "idle"

(* A monitor that stays on a DP or HDMI port, or stays off it, becomes      *)
(* known, unless the port is one of the excused.                            *)
Settles ==
  \A c \in DpPorts : <>[](c \in missed \/ known[c] = plug[c])

(* "at boot/resume stage, no hpd event for all output" (zx_disp.c:869), and *)
(* every output that supports hot plug is enabled (zx_disp.c:890): while    *)
(* the system runs, an event in the queue is on its way to be handled.      *)
EventIsHandled == pm = "run" => QueueServed

-------------------------------------------------------------------------------
(* The inductive invariant of the proofs.                                   *)

(* What a work has in hand it has only between its first and last step.     *)
Phases ==
  /\ suspends = 0 => pm = "run"
  /\ irqPc = "idle" => ~irqDp /\ ~irqHp
  /\ dpPc = "handle" => dpEv \in Events
  /\ dpPc # "handle" => dpEv = NoEvent
  /\ hpPc \in {"idle", "notify"} => hpTodo = {}
  /\ hpNeedPoll => hpPc = "scan"
  /\ pmChanged => pm = "notify"
  /\ ~(hpPc = "scan" /\ pollPc = "scan")

(* What answers on a port is what is plugged, but for the lag.              *)
Echo ==
  \A c \in Ports :
    IF lag[c] = 0 THEN ddc[c] = plug[c]
    ELSE plug[c] = None /\ ddc[c] \in HdmiMonitors /\ c \in DpPorts

(* How far a suspend has got.                                               *)
Quiet ==
  /\ pm \in {"dpWait2", "hpWait2", "suspended"} =>
       ~irqEnabled /\ irqPc = "idle" /\ ~dpPend
  /\ pm \in {"hpWait2", "suspended"} => dpPc = "idle" /\ ~hpPend
  /\ pm = "suspended" => hpPc = "idle"

(* poll_running tells the truth under mode_config.mutex.                    *)
RunningIsTrue ==
  suspends = 0 /\ pollRunning =>
    pollPend \/ pollPc = "scan" \/ (pollPc = "out" /\ repoll)

(* A monitor that was pulled and still answers will be looked at again, or  *)
(* is known and polled for longer than it answers.                          *)
Chased(c) ==
  lag[c] > 0 => \/ latch[c] = "out" \/ c \in hpd \/ c \in hpTodo
                \/ known[c] = ddc[c] /\ polltime[c] > lag[c]

Lagging == suspends = 0 => \A c \in DpPorts \ missed : Chased(c)

IInv == /\ TypeOK /\ Phases /\ Echo /\ Quiet /\ RunningIsTrue /\ WorkIsServed
        /\ Lagging /\ NothingForgotten /\ DviIsDetected /\ ChangesAnnounced

=============================================================================
