---------------------------- MODULE AtomicCommit ----------------------------
(***************************************************************************)
(* Atomic commits (zx_atomic.c, zx_crtc.c) against the detection of        *)
(* monitors (zx_connector.c): one connector and the CRTC that scans out to *)
(* it.  Each side remembers the monitor by a pointer to a counted zx_sink  *)
(* (zx_sink.c), the connector the one it detected, the state of the CRTC   *)
(* the one its last modeset was made for; a hot plug sets the mode again   *)
(* when the two pointers differ.                                           *)
(*                                                                         *)
(* A commit duplicates the state of the CRTC, checks the copy, swaps it in *)
(* and runs zx_atomic_helper_commit_tail, in its own thread or, when it is *)
(* nonblocking, in a worker.  The modeset locks order the commits up to    *)
(* the swap, the completions of drm_atomic_helper_commit order the tails.  *)
(* Detection holds mode_config.mutex, which no commit takes.               *)
(*                                                                         *)
(* A get of a sink that was freed after its pointer was read is where the  *)
(* model stops: what the kernel does then is not described ("raced").      *)
(***************************************************************************)
EXTENDS Integers, FiniteSets

CONSTANTS
  Commits,      \* commits that can be under way at the same time
  Sinks,        \* addresses the allocator can give a sink
  None,         \* NULL; the owner of a free lock
  Detector,     \* owner of the modeset locks while the hot plug work restores
  MaxMonitors   \* bound: monitors plugged in one after the other

ASSUME CommitAssumption ==
  /\ None \notin Sinks /\ None \notin Commits
  /\ Detector \notin Commits /\ Detector # None
  /\ IsFiniteSet(Commits) /\ IsFiniteSet(Sinks)
  /\ MaxMonitors \in Nat

VARIABLES
  count,   \* reference count of the sink at an address, 0: freed
  made,    \* the sinks that were made for the monitor that is plugged
  sink,    \* zx_connector->sink
  status,  \* connector->status is connected
  crtc,    \* crtc->state: its sink, and whether it is active
  slot,    \* per commit: the next step and the CRTC state it will destroy
  saved,   \* modeset_restore_state
  pm,      \* "run", "suspending", "cancelling", "asleep", "resuming"
  locks,   \* owner of the modeset locks
  det,     \* the detection that holds mode_config.mutex
  on,      \* the screen is on, and with it the vertical blank interrupt
  lit,     \* it was switched on for the monitor that is plugged
  mon,     \* a monitor is plugged
  mons,    \* monitors plugged so far
  late,    \* history: a sink was replaced between enabling and recording
  raced    \* history: a sink was freed between the read of its pointer and the get

memory == <<count, made>>
hardware == <<on, lit, mon, mons>>
vars == <<count, made, sink, status, crtc, slot, saved, pm, locks, det,
          on, lit, mon, mons, late, raced>>

Idle == [at |-> "idle", kind |-> "none", nonblock |-> FALSE, sink |-> None,
         active |-> FALSE]
NotSaved == [held |-> FALSE, sink |-> None, active |-> FALSE]
NoDetection == [at |-> "idle", found |-> "nothing", plugged |-> FALSE]

Modeset(c) == slot[c].kind # "flip"

At(c, a) == slot[c].at = a
Go(c, a) == slot' = [slot EXCEPT ![c].at = a]

\* zx_sink_get; the flag tells a get that came after the last put.
Get(s) == /\ count' = IF s = None \/ count[s] = 0 THEN count ELSE [count EXCEPT ![s] = @ + 1]
          /\ raced' = (s # None /\ count[s] = 0)

\* zx_sink_put
Put(s) == count' = IF s = None \/ count[s] = 0 THEN count ELSE [count EXCEPT ![s] = @ - 1]

-----------------------------------------------------------------------------
(* Commits, up to the swap. *)

\* A thread takes the modeset locks and starts to duplicate crtc->state.
TakeState(c, k, nb, a) ==
  /\ At(c, "idle")
  /\ slot' = [slot EXCEPT ![c] =
       [at |-> IF k = "suspend" THEN "save" ELSE "copied", kind |-> k, nonblock |-> nb,
        sink |-> crtc.sink, active |-> a]]

\* The ioctls of user space; a page flip of a CRTC that is off is refused.
UserCommit(c) ==
  /\ pm = "run" /\ locks = None
  /\ \E nb \in BOOLEAN :
       \/ \E active \in BOOLEAN : TakeState(c, "modeset", nb, active)
       \/ crtc.active /\ TakeState(c, "flip", nb, TRUE)
  /\ locks' = c
  /\ UNCHANGED <<memory, sink, status, crtc, saved, pm, det, hardware, late, raced>>

\* zx_sink_get of the copied pointer; the state it was copied from may belong
\* to a commit whose worker still replaces its sink.
Copy(c) ==
  /\ At(c, "copied")
  /\ Get(slot[c].sink)
  /\ Go(c, "check")
  /\ UNCHANGED <<made, sink, status, crtc, saved, pm, locks, det, hardware, late>>

\* A commit past its swap whose flip is not done.
InTail(d) == slot[d].at \in {"tail", "compare", "assign", "get", "clear", "planes", "flip"}

\* What the end of a commit means for the thread that made it.
Ended(c, ok) ==
  /\ det' = IF slot[c].kind = "restore" THEN NoDetection ELSE det
  /\ locks' = IF locks = c \/ slot[c].kind = "restore" THEN None ELSE locks
  /\ pm' = CASE slot[c].kind = "suspend" -> (IF ok THEN "cancelling" ELSE "run")
             [] slot[c].kind = "resume" -> "run"
             [] OTHER -> pm
  /\ slot' = [slot EXCEPT ![c] = Idle]

\* The check or the preparation fails, or a stall is interrupted: the new state
\* is destroyed.  A suspend that failed drops what it saved.
Abort(c) ==
  /\ At(c, "check")
  /\ IF slot[c].kind = "suspend" /\ saved.held
       THEN /\ Put(saved.sink)
            /\ saved' = NotSaved
            /\ UNCHANGED <<slot, locks, det, pm>>
       ELSE /\ Put(slot[c].sink)
            /\ Ended(c, FALSE)
            /\ UNCHANGED saved
  /\ UNCHANGED <<made, sink, status, crtc, hardware, late, raced>>

\* drm_atomic_helper_swap_state, which stalls until hw_done of the commit
\* before: the slot now holds the old state.  A nonblocking commit, which is
\* refused while a flip is not done, goes on in a worker without the locks.
Swap(c) ==
  /\ At(c, "check")
  /\ slot[c].kind = "suspend" => saved.held
  /\ \A d \in Commits : InTail(d) => At(d, "flip") /\ ~slot[c].nonblock
  /\ crtc' = [sink |-> slot[c].sink, active |-> slot[c].active]
  /\ slot' = [slot EXCEPT ![c] = [at |-> "tail", kind |-> slot[c].kind, nonblock |-> FALSE,
                                    sink |-> crtc.sink, active |-> crtc.active]]
  /\ locks' = IF slot[c].nonblock THEN None ELSE locks
  /\ UNCHANGED <<memory, sink, status, saved, pm, det, hardware, late, raced>>

-----------------------------------------------------------------------------
(* The tail of a commit: zx_atomic_helper_commit_tail. *)

\* Mutant: the sink is recorded for every commit of a CRTC that is on, also
\* when the mode is not set.
EnableOrFlip(c) ==
  /\ At(c, "tail")
  /\ \A d \in Commits : ~At(d, "flip")
  /\ Go(c, "compare")
  /\ IF Modeset(c)
       THEN on' = crtc.active /\ lit' = (crtc.active /\ mon) /\ late' = FALSE
       ELSE UNCHANGED <<on, lit, late>>
  /\ UNCHANGED <<memory, sink, status, crtc, saved, pm, locks, det, mon, mons, raced>>

\* commit_modeset_disables and _enables, once the flip of the commit before is
\* done: the output is set up for the monitor that is there.
Enable(c) ==
  /\ At(c, "tail")
  /\ \A d \in Commits : ~At(d, "flip")
  /\ IF Modeset(c)
       THEN /\ lit' = (crtc.active /\ mon)
            /\ on' = crtc.active
            /\ late' = FALSE
            /\ Go(c, "compare")
       ELSE /\ Go(c, "planes")
            /\ UNCHANGED <<on, lit, late>>
  /\ UNCHANGED <<memory, sink, status, crtc, saved, pm, locks, det, mon, mons, raced>>

\* Mutant: a commit that only turns the CRTC off keeps the pointer it put.
CompareKeepsSink(c) ==
  /\ At(c, "compare")
  /\ CASE crtc.active /\ crtc.sink # sink -> Put(crtc.sink) /\ Go(c, "assign")
       [] ~crtc.active /\ slot[c].active -> Put(crtc.sink) /\ Go(c, "planes")
       [] OTHER -> Go(c, "planes") /\ UNCHANGED count
  /\ UNCHANGED <<made, sink, status, crtc, saved, pm, locks, det, hardware, late, raced>>

\* zx_update_crtc_sink: the CRTC lets go of the sink it had, to record
\* another one or because it was turned off.
Compare(c) ==
  /\ At(c, "compare")
  /\ CASE crtc.active /\ crtc.sink # sink -> Put(crtc.sink) /\ Go(c, "assign")
       [] ~crtc.active /\ slot[c].active -> Put(crtc.sink) /\ Go(c, "clear")
       [] OTHER -> Go(c, "planes") /\ UNCHANGED count
  /\ UNCHANGED <<made, sink, status, crtc, saved, pm, locks, det, hardware, late, raced>>

\* The sink of the connector is read a second time, without mode_config.mutex.
Assign(c) ==
  /\ At(c, "assign")
  /\ crtc' = [crtc EXCEPT !.sink = sink]
  /\ Go(c, "get")
  /\ UNCHANGED <<memory, sink, status, saved, pm, locks, det, hardware, late, raced>>

Record(c) ==
  /\ At(c, "get")
  /\ Get(crtc.sink)
  /\ Go(c, "planes")
  /\ UNCHANGED <<made, sink, status, crtc, saved, pm, locks, det, hardware, late>>

Clear(c) ==
  /\ At(c, "clear")
  /\ crtc' = [crtc EXCEPT !.sink = None]
  /\ Go(c, "planes")
  /\ UNCHANGED <<memory, sink, status, saved, pm, locks, det, hardware, late, raced>>

\* The CRTC is on before or after the commit: its event must be sent.
HasEvent(c) == slot[c].active \/ crtc.active

\* Mutant: the event is armed whether or not vertical blanks are on.
FlushArmsAlways(c) ==
  /\ At(c, "planes")
  /\ slot' = [slot EXCEPT ![c].at = IF HasEvent(c) THEN "flip" ELSE "done", ![c].active = FALSE]
  /\ UNCHANGED <<memory, sink, status, crtc, saved, pm, locks, det, hardware, late, raced>>

\* zx_crtc_atomic_flush and hw_done: the event waits for the next vertical
\* blank, or is sent at once when drm_crtc_vblank_get finds them off.
Flush(c) ==
  /\ At(c, "planes")
  /\ slot' = [slot EXCEPT ![c].at = IF HasEvent(c) /\ on THEN "flip" ELSE "done", ![c].active = FALSE]
  /\ UNCHANGED <<memory, sink, status, crtc, saved, pm, locks, det, hardware, late, raced>>

\* zx_vblank_intrr_handle sends the armed events; vertical blanks are on
\* from zx_crtc_atomic_enable to zx_crtc_atomic_disable.
Vblank ==
  /\ on
  /\ \E c \in Commits : At(c, "flip") /\ Go(c, "done")
  /\ UNCHANGED <<memory, sink, status, crtc, saved, pm, locks, det, hardware, late, raced>>

\* The flip is done: the old state is destroyed.
Done(c) ==
  /\ At(c, "done")
  /\ Put(slot[c].sink)
  /\ Ended(c, TRUE)
  /\ UNCHANGED <<made, sink, status, crtc, saved, hardware, late, raced>>

-----------------------------------------------------------------------------
(* Suspend and resume. *)

\* disp_suspend: drm_atomic_helper_suspend takes all locks and duplicates the
\* state twice, to keep it and to turn everything off.
Suspend(c) ==
  /\ pm = "run" /\ locks = None
  /\ TakeState(c, "suspend", FALSE, FALSE)
  /\ saved' = [held |-> FALSE, sink |-> crtc.sink, active |-> crtc.active]
  /\ pm' = "suspending"
  /\ locks' = c
  /\ UNCHANGED <<memory, sink, status, crtc, det, hardware, late, raced>>

Save(c) ==
  /\ At(c, "save")
  /\ Get(saved.sink)
  /\ saved' = [saved EXCEPT !.held = TRUE]
  /\ slot' = [slot EXCEPT ![c].at = "copied", ![c].sink = crtc.sink]
  /\ UNCHANGED <<made, sink, status, crtc, pm, locks, det, hardware, late>>

\* cancel_work_sync, after the locks are free again, waits for the hot plug
\* work; polling is disabled by then and user space is frozen.
Cancel ==
  /\ pm = "cancelling" /\ det = NoDetection
  /\ pm' = "asleep"
  /\ UNCHANGED <<memory, sink, status, crtc, slot, saved, locks, det, hardware, late, raced>>

\* disp_post_resume commits what was saved; the saved states become the new
\* ones, with mode_changed set.
Resume(c) ==
  /\ pm = "asleep" /\ locks = None /\ det = NoDetection
  /\ At(c, "idle")
  /\ slot' = [slot EXCEPT ![c] =
       [at |-> "check", kind |-> "resume", nonblock |-> FALSE,
        sink |-> saved.sink, active |-> saved.active]]
  /\ saved' = NotSaved
  /\ pm' = "resuming"
  /\ locks' = c
  /\ UNCHANGED <<memory, sink, status, crtc, det, hardware, late, raced>>

-----------------------------------------------------------------------------
(* Detection. *)

\* zx_connector_detect_internal looks for a monitor: from the hot plug work
\* (which compares EDIDs when the interrupt asked for it) or from a poll, a
\* probe or a resume.  Only the work is left once a suspend has begun, and the
\* commit of a resume holds the mutex.  connector->status, which only
\* detections read, is written here instead of at the end.
Detect ==
  /\ det = NoDetection /\ pm \in {"run", "suspending", "cancelling"}
  /\ status' = mon
  /\ \E h \in BOOLEAN, compare \in BOOLEAN :
       /\ compare \/ pm # "run" => h
       /\ LET renew == mon /\ (~status \/ (compare /\ sink \notin made))
              plugged == h /\ mon /\ ~status
          IN det' = IF ~mon \/ renew
                      THEN [at |-> "put", plugged |-> plugged,
                            found |-> IF mon THEN "this" ELSE "nothing"]
                      ELSE NoDetection
  /\ UNCHANGED <<memory, sink, crtc, slot, saved, pm, locks, hardware, late, raced>>

PutSink ==
  /\ det.at = "put"
  /\ Put(sink)
  /\ det' = [det EXCEPT !.at = "null"]
  /\ UNCHANGED <<made, sink, status, crtc, slot, saved, pm, locks, hardware, late, raced>>

ForgetSink ==
  /\ det.at = "null"
  /\ sink' = None
  /\ det' = IF det.found = "nothing" THEN NoDetection ELSE [det EXCEPT !.at = "create"]
  /\ UNCHANGED <<memory, status, crtc, slot, saved, pm, locks, hardware, late, raced>>

\* A thread has read this address and not yet counted it.
PendingGet(s) ==
  \/ \E c \in Commits : \/ At(c, "copied") /\ slot[c].sink = s
                        \/ At(c, "save") /\ saved.sink = s
                        \/ At(c, "get") /\ crtc.sink = s

\* zx_sink_create, for the monitor whose EDID was read.  A commit between
\* enabling the output and recording the sink will record this one.
CreateSink ==
  /\ det.at = "create"
  /\ \E s \in {a \in Sinks : count[a] = 0} :
       /\ sink' = s
       /\ count' = [count EXCEPT ![s] = 1]
       /\ made' = IF det.found = "this" THEN made \cup {s} ELSE made \ {s}
       /\ raced' = PendingGet(s)
  /\ late' = (late \/ \E c \in Commits : slot[c].at \in {"compare", "assign"})
  /\ det' = IF det.plugged THEN [det EXCEPT !.at = "lock"] ELSE NoDetection
  /\ UNCHANGED <<status, crtc, slot, saved, pm, locks, hardware>>

\* zx_restore_drm_connector_state, under all modeset locks: the mode is set
\* again when the CRTC was not set up for this sink.  The encoder of a screen
\* that is on has its CRTC; one that is off may have kept it.
Restore ==
  /\ det.at = "lock" /\ locks = None
  /\ \E bound \in BOOLEAN :
       /\ on => bound
       /\ IF sink # None /\ bound /\ crtc.sink # sink
            THEN \E c \in Commits :
                   /\ TakeState(c, "restore", FALSE, crtc.active)
                   /\ locks' = Detector
                   /\ det' = [det EXCEPT !.at = "restore"]
            ELSE det' = NoDetection /\ UNCHANGED <<slot, locks>>
  /\ UNCHANGED <<memory, sink, status, crtc, saved, pm, hardware, late, raced>>

-----------------------------------------------------------------------------
Plug ==
  /\ ~mon /\ mons < MaxMonitors
  /\ mons' = mons + 1
  /\ mon' = TRUE
  /\ UNCHANGED <<memory, sink, status, crtc, slot, saved, pm, locks, det, on, lit, late, raced>>

\* What was made or switched on for this monitor is not for the next one.
Unplug ==
  /\ mon
  /\ mon' = FALSE
  /\ lit' = FALSE
  /\ made' = {}
  /\ det' = [det EXCEPT !.found = IF @ = "this" THEN "another" ELSE @]
  /\ UNCHANGED <<count, sink, status, crtc, slot, saved, pm, locks, on, mons, late, raced>>

Init ==
  /\ count = [s \in Sinks |-> 0]
  /\ made = {}
  /\ sink = None /\ status = FALSE
  /\ crtc = [sink |-> None, active |-> FALSE]
  /\ slot = [c \in Commits |-> Idle]
  /\ saved = NotSaved /\ pm = "run" /\ locks = None
  /\ det = NoDetection
  /\ on = FALSE /\ lit = FALSE /\ mon = FALSE /\ mons = 0
  /\ late = FALSE /\ raced = FALSE

CommitStep(c) ==
  \/ Copy(c) \/ Abort(c) \/ Swap(c) \/ Enable(c) \/ Compare(c)
  \/ Assign(c) \/ Record(c) \/ Clear(c) \/ Flush(c) \/ Done(c) \/ Save(c)

WorkStep == Cancel \/ PutSink \/ ForgetSink \/ CreateSink \/ Restore

Next ==
  \/ /\ ~raced
     /\ \/ \E c \in Commits : UserCommit(c) \/ CommitStep(c) \/ Suspend(c) \/ Resume(c)
        \/ Vblank \/ Detect \/ WorkStep \/ Plug \/ Unplug
  \/ raced /\ UNCHANGED vars

\* Threads and workers run, a CRTC that is on has vertical blanks.  Nothing
\* makes user space commit, a monitor come or go, or the machine sleep.
Fairness == \A c \in Commits : WF_vars(~raced /\ CommitStep(c))
            /\ WF_vars(~raced /\ Vblank) /\ WF_vars(~raced /\ WorkStep)

Spec == Init /\ [][Next]_vars /\ Fairness

-----------------------------------------------------------------------------
TypeOK ==
  /\ count \in [Sinks -> Nat] /\ made \in SUBSET Sinks
  /\ sink \in Sinks \cup {None} /\ status \in BOOLEAN
  /\ crtc \in [sink : Sinks \cup {None}, active : BOOLEAN]
  /\ slot \in [Commits -> [at : {"idle", "save", "copied", "check", "tail", "compare",
                                  "assign", "get", "clear", "planes", "flip", "done"},
                           kind : {"none", "modeset", "flip", "restore", "suspend", "resume"},
                           nonblock : BOOLEAN, sink : Sinks \cup {None},
                           active : BOOLEAN]]
  /\ saved \in [held : BOOLEAN, sink : Sinks \cup {None}, active : BOOLEAN]
  /\ pm \in {"run", "suspending", "cancelling", "asleep", "resuming"}
  /\ locks \in Commits \cup {None, Detector}
  /\ det \in [at : {"idle", "put", "null", "create", "lock", "restore"},
              found : {"nothing", "this", "another"}, plugged : BOOLEAN]
  /\ on \in BOOLEAN /\ lit \in BOOLEAN /\ mon \in BOOLEAN /\ mons \in 0..MaxMonitors
  /\ late \in BOOLEAN /\ raced \in BOOLEAN

\* The pointers that own a reference: the connector's until it is put, the
\* CRTC state's except while a commit replaces it, a commit's copy, and the
\* saved state's.
Holders(s) ==
  (IF sink = s /\ det.at # "null" THEN 1 ELSE 0)
  + (IF crtc.sink = s /\ ~\E c \in Commits : slot[c].at \in {"assign", "get", "clear"} THEN 1 ELSE 0)
  + Cardinality({c \in Commits : slot[c].sink = s /\ slot[c].at \notin {"idle", "save", "copied"}})
  + (IF saved.sink = s /\ saved.held THEN 1 ELSE 0)

\* Every sink is counted once for each pointer that holds it, whatever
\* commits, detections and suspends interleave (zx_sink_get and zx_sink_put
\* in zx_atomic.c and zx_connector.c), until a freed one is taken.
SinkRefsExact == raced \/ \A s \in Sinks : count[s] = Holders(s)

\* A CRTC that is on and whose state names the sink of the monitor that is
\* plugged was set up for that monitor, so zx_restore_drm_connector_state may
\* skip it: no stale, recycled or early pointer says so wrongly, unless the
\* sink was created between the two steps of one commit (zx_atomic.c:244-246).
RecordedIsSetUp ==
  ( /\ ~raced /\ ~late
    /\ \A c \in Commits : slot[c].at \in {"idle", "save", "copied", "check", "flip", "done"}
    /\ crtc.active /\ sink # None /\ crtc.sink = sink /\ sink \in made )
  => lit

\* The modeset locks always come back: the event of a commit is sent also when
\* the CRTC is off (zx_crtc_atomic_flush), and no tail waits for one that waits
\* for it, the tail of the hot plug work's commit included.
LocksComeBack == locks # None ~> (locks = None \/ raced)
=============================================================================
