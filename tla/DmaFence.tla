------------------------------- MODULE DmaFence -------------------------------
(***************************************************************************)
(* The dma_fence driver of zx_fence.c: hardware fences that the GPU        *)
(* scheduler creates, attaches to buffers and numbers; callers that arm    *)
(* and wait for them; and the kernel thread "dma_fenced" that signals the  *)
(* ones the GPU has passed.                                                *)
(*                                                                         *)
(* The thread owns no fence of its own.  On every wake-up it splices the   *)
(* shared fence_list to a private list under driver->lock, walks the       *)
(* private list without the lock, and splices what is left back.  The      *)
(* lists are modelled as sets: no property depends on their order.  A      *)
(* fence identifier stands for one allocation and is not reused.           *)
(***************************************************************************)
EXTENDS Integers, FiniteSets

CONSTANTS Fences,     \* fences that can be allocated
          Waiters,    \* tasks that wait for a fence (or add a callback)
          Engines,    \* ring buffers; each has one fence context and its lock
          EngineOf,   \* the engine a fence is created for
          NoFence,    \* NULL fence pointer
          Nobody,     \* driver->lock is free
          MaxFreezes  \* bound: how often the PM core tries to freeze

ASSUME EngineAssumption == EngineOf \in [Fences -> Engines]
ASSUME NoFenceAssumption == NoFence \notin Fences
ASSUME WaitersAssumption == IsFiniteSet(Waiters)
ASSUME NobodyAssumption == Nobody \notin Waiters
ASSUME FreezesAssumption == MaxFreezes \in Nat

VARIABLES
  life,        \* life[f]: "unborn", "live" or "freed" slab object
  ref,         \* ref[f]: the kref of the fence
  core,        \* fences whose creation reference the scheduler still holds
  resv,        \* fences a buffer's reservation object refers to
  assigned,    \* fences whose value is no longer initialize_value
  back,        \* fences whose value the engine has passed (is_fence_back)
  enabled,     \* DMA_FENCE_FLAG_ENABLE_SIGNAL_BIT
  signaled,    \* DMA_FENCE_FLAG_SIGNALED_BIT
  queued,      \* driver->fence_list
  todo,        \* the part of process_list the walk has not reached
  kept,        \* the part of process_list the walk has passed
  cur,         \* the fence the thread has unlinked and not yet put
  tpc,         \* where the event thread is
  event,       \* driver->event->state
  irq,         \* the engine has advanced and notify_event is still to come
  freezing,    \* the PM core asks kernel threads to freeze
  freezes,     \* how often it has asked
  wpc,         \* where each waiter is
  wf,          \* the fence a waiter holds a reference to
  lock         \* the waiter inside driver->lock (the thread's sections are one step)

core_vars   == <<life, core, resv, assigned>>
list_vars   == <<queued, todo, kept, cur>>
waiter_vars == <<wpc, wf>>
pm_vars     == <<freezing, freezes>>
vars == <<life, ref, core, resv, assigned, back, enabled, signaled, queued, todo,
          kept, cur, tpc, event, irq, freezing, freezes,
          wpc, wf, lock>>

(* Every fence some list of the driver links, or the thread has in hand.    *)
Listed == queued \cup todo \cup kept \cup ({cur} \ {NoFence})

(* A waiter is inside enable_signaling of its fence: it holds the lock of   *)
(* the fence's context, which dma_fence_signal needs too.                   *)
Arming(w) == wpc[w] \in {"recheck", "link"}
ContextFree(f) == \A w \in Waiters : Arming(w) => EngineOf[wf[w]] # EngineOf[f]

Init ==
  /\ life = [f \in Fences |-> "unborn"]
  /\ ref = [f \in Fences |-> 0]
  /\ core = {} /\ resv = {} /\ assigned = {} /\ back = {}
  /\ enabled = {} /\ signaled = {}
  /\ queued = {} /\ todo = {} /\ kept = {} /\ cur = NoFence
  /\ tpc = "wait"
  /\ event = FALSE /\ irq = FALSE /\ freezing = FALSE /\ freezes = 0
  /\ wpc = [w \in Waiters |-> "idle"]
  /\ wf = [w \in Waiters |-> NoFence]
  /\ lock = Nobody

(* dma_fence_get and dma_fence_put: the last put frees the fence.           *)
Get(f) == /\ ref' = [ref EXCEPT ![f] = @ + 1]
          /\ UNCHANGED life
Put(f) == /\ ref' = [ref EXCEPT ![f] = @ - 1]
          /\ life' = IF ref[f] = 1 THEN [life EXCEPT ![f] = "freed"] ELSE life

-------------------------------------------------------------------------------
(***************************************************************************)
(* The scheduler's callbacks (zx_drm_callback.fence) and the GPU.          *)
(***************************************************************************)

(* zx_dma_fence_create_cb: one reference, value = initialize_value.         *)
CreateFence(f) ==
  /\ life[f] = "unborn"
  /\ life' = [life EXCEPT ![f] = "live"]
  /\ ref' = [ref EXCEPT ![f] = 1]
  /\ core' = core \cup {f}
  /\ UNCHANGED <<resv, assigned, back, enabled, signaled, list_vars, tpc, event,
                 irq, pm_vars, waiter_vars, lock>>

(* zx_dma_fence_attach_bo_cb: the reservation object takes a reference.     *)
AttachBo(f) ==
  /\ f \in core \ resv
  /\ resv' = resv \cup {f}
  /\ Get(f)
  /\ UNCHANGED <<core, assigned, back, enabled, signaled, list_vars, tpc, event,
                 irq, pm_vars, waiter_vars, lock>>

(* The reservation object forgets the fence: a later fence replaces it or   *)
(* the buffer goes away.                                                    *)
DetachBo(f) ==
  /\ f \in resv
  /\ resv' = resv \ {f}
  /\ Put(f)
  /\ UNCHANGED <<core, assigned, back, enabled, signaled, list_vars, tpc, event,
                 irq, pm_vars, waiter_vars, lock>>

(* zx_dma_fence_update_value_cb: the task reaches the hardware queue.       *)
UpdateValue(f) ==
  /\ f \in core \ assigned
  /\ assigned' = assigned \cup {f}
  /\ UNCHANGED <<life, ref, core, resv, back, enabled, signaled, list_vars, tpc,
                 event, irq, pm_vars, waiter_vars, lock>>

(* zx_dma_fence_release_cb: the scheduler is done with the task, finished   *)
(* or dropped.                                                              *)
ReleaseFence(f) ==
  /\ f \in core
  /\ core' = core \ {f}
  /\ Put(f)
  /\ UNCHANGED <<resv, assigned, back, enabled, signaled, list_vars, tpc, event,
                 irq, pm_vars, waiter_vars, lock>>

(* The engine passes the fence's value and raises the fence interrupt.      *)
EngineAdvance(f) ==
  /\ f \in assigned \ back
  /\ back' = back \cup {f}
  /\ irq' = TRUE
  /\ UNCHANGED <<core_vars, ref, enabled, signaled, list_vars, tpc, event,
                 pm_vars, waiter_vars, lock>>

(* Mutant of PostEvent: the wake-up is lost unless the thread sleeps.       *)
PostOnlyToSleeper ==
  /\ irq /\ irq' = FALSE
  /\ event' = (event \/ tpc = "wait")
  /\ UNCHANGED <<core_vars, ref, back, enabled, signaled, list_vars, tpc,
                 pm_vars, waiter_vars, lock>>

(* zx_dma_fence_post_event_cb: zx_thread_wake_up sets the event's state.    *)
PostEvent ==
  /\ irq
  /\ irq' = FALSE
  /\ event' = TRUE
  /\ UNCHANGED <<core_vars, ref, back, enabled, signaled, list_vars, tpc,
                 pm_vars, waiter_vars, lock>>

-------------------------------------------------------------------------------
(***************************************************************************)
(* Waiters: dma_fence_wait and dma_fence_add_callback on a hardware fence. *)
(***************************************************************************)

(* A task finds the fence in a reservation object and takes a reference.    *)
WaitStart(w, f) ==
  /\ wpc[w] = "idle" /\ f \in resv
  /\ wpc' = [wpc EXCEPT ![w] = "arm"]
  /\ wf' = [wf EXCEPT ![w] = f]
  /\ Get(f)
  /\ UNCHANGED <<core, resv, assigned, back, enabled, signaled, list_vars, tpc,
                 event, irq, pm_vars, lock>>

(* Under the context lock the first waiter sets the enable bit and calls    *)
(* zx_dma_fence_enable_signaling, which looks at the fence before it takes  *)
(* driver->lock; a fence that is back is signaled by the caller.            *)
Arm(w) ==
  LET f == wf[w] IN
  /\ wpc[w] = "arm" /\ ContextFree(f)
  /\ enabled' = enabled \cup {f}
  /\ IF f \in signaled \cup enabled \cup back
     THEN /\ signaled' = IF f \in back \ enabled THEN signaled \cup {f} ELSE signaled
          /\ wpc' = [wpc EXCEPT ![w] = "wait"]
     ELSE /\ wpc' = [wpc EXCEPT ![w] = "recheck"]
          /\ UNCHANGED signaled
  /\ UNCHANGED <<core_vars, ref, back, list_vars, tpc, event, irq, pm_vars, wf,
                 lock>>

(* Mutant of ArmRecheck: no second look under driver->lock.                 *)
ArmWithoutLook(w) ==
  /\ wpc[w] = "recheck" /\ lock = Nobody
  /\ wpc' = [wpc EXCEPT ![w] = "link"]
  /\ lock' = w
  /\ UNCHANGED <<core_vars, ref, back, enabled, signaled, list_vars, tpc, event,
                 irq, pm_vars, wf>>

(* Under driver->lock the fence is looked at again.                         *)
ArmRecheck(w) ==
  LET f == wf[w] IN
  /\ wpc[w] = "recheck" /\ lock = Nobody
  /\ IF f \in back
     THEN /\ signaled' = signaled \cup {f}
          /\ wpc' = [wpc EXCEPT ![w] = "wait"]
          /\ UNCHANGED lock
     ELSE /\ wpc' = [wpc EXCEPT ![w] = "link"]
          /\ lock' = w
          /\ UNCHANGED signaled
  /\ UNCHANGED <<core_vars, ref, back, enabled, list_vars, tpc, event, irq,
                 pm_vars, wf>>

(* Mutant of ArmLink: the list takes no reference of its own.               *)
ArmLinkNoGet(w) ==
  /\ wpc[w] = "link"
  /\ queued' = queued \cup {wf[w]}
  /\ lock' = Nobody
  /\ wpc' = [wpc EXCEPT ![w] = "wait"]
  /\ UNCHANGED <<core_vars, ref, back, enabled, signaled, todo, kept, cur, tpc,
                 event, irq, pm_vars, wf>>

(* The fence is linked with a reference of the list's own.                  *)
ArmLink(w) ==
  LET f == wf[w] IN
  /\ wpc[w] = "link"
  /\ queued' = queued \cup {f}
  /\ Get(f)
  /\ lock' = Nobody
  /\ wpc' = [wpc EXCEPT ![w] = "wait"]
  /\ UNCHANGED <<core, resv, assigned, back, enabled, signaled, todo, kept, cur,
                 tpc, event, irq, pm_vars, wf>>

(* The wait ends when the fence is signaled, or by its timeout; the task    *)
(* drops its reference either way.                                          *)
WaitEnd(w) ==
  /\ wpc[w] = "wait"
  /\ wpc' = [wpc EXCEPT ![w] = "idle"]
  /\ wf' = [wf EXCEPT ![w] = NoFence]
  /\ Put(wf[w])
  /\ UNCHANGED <<core, resv, assigned, back, enabled, signaled, list_vars, tpc,
                 event, irq, pm_vars, lock>>

(* dma_fence_is_signaled: ops->signaled says the engine has passed the      *)
(* value, so the caller signals the fence itself.                           *)
PollSignaled(f) ==
  /\ f \in core \cup resv
  /\ f \in back \ signaled /\ ContextFree(f)
  /\ signaled' = signaled \cup {f}
  /\ UNCHANGED <<core_vars, ref, back, enabled, list_vars, tpc, event, irq,
                 pm_vars, waiter_vars, lock>>

-------------------------------------------------------------------------------
(***************************************************************************)
(* zx_dma_fence_event_thread.                                              *)
(***************************************************************************)

(* zx_thread_wait: no timeout; an event or a freeze request ends the wait,  *)
(* and evaluating the condition clears the event.                           *)
ThreadWake ==
  /\ tpc = "wait" /\ (event \/ freezing)
  /\ event' = FALSE
  /\ tpc' = "splice"
  /\ UNCHANGED <<core_vars, ref, back, enabled, signaled, list_vars, irq,
                 pm_vars, waiter_vars, lock>>

ThreadSplice ==
  /\ tpc = "splice" /\ lock = Nobody
  /\ todo' = todo \cup queued
  /\ queued' = {}
  /\ tpc' = "scan"
  /\ UNCHANGED <<core_vars, ref, back, enabled, signaled, kept, cur, event, irq,
                 pm_vars, waiter_vars, lock>>

(* Mutant of ThreadScan: whatever is linked is taken for finished.          *)
ScanWithoutCheck(f) ==
  /\ tpc = "scan" /\ f \in todo
  /\ todo' = todo \ {f}
  /\ cur' = f /\ tpc' = "signal"
  /\ UNCHANGED <<core_vars, ref, back, enabled, signaled, queued, kept, event,
                 irq, pm_vars, waiter_vars, lock>>

(* One step of the walk: a fence that is not back stays where it is; one    *)
(* that is back is unlinked and in the thread's hand.                        *)
ThreadScan(f) ==
  /\ tpc = "scan" /\ f \in todo
  /\ todo' = todo \ {f}
  /\ IF f \in back
     THEN /\ cur' = f
          /\ tpc' = "signal"
          /\ UNCHANGED kept
     ELSE /\ kept' = kept \cup {f}
          /\ UNCHANGED <<cur, tpc>>
  /\ UNCHANGED <<core_vars, ref, back, enabled, signaled, queued, event, irq,
                 pm_vars, waiter_vars, lock>>

(* dma_fence_signal needs the context lock; a second signal is a no-op.     *)
ThreadSignal ==
  /\ tpc = "signal" /\ ContextFree(cur)
  /\ signaled' = signaled \cup {cur}
  /\ tpc' = "put"
  /\ UNCHANGED <<core_vars, ref, back, enabled, list_vars, event, irq, pm_vars,
                 waiter_vars, lock>>

ThreadPut ==
  /\ tpc = "put"
  /\ Put(cur)
  /\ cur' = NoFence
  /\ tpc' = "scan"
  /\ UNCHANGED <<core, resv, assigned, back, enabled, signaled, queued, todo,
                 kept, event, irq, pm_vars, waiter_vars, lock>>

(* Mutant of ThreadScanEnd: a freeze request repeats the walk regardless.   *)
ScanAgainWhileFreezing ==
  /\ tpc = "scan" /\ todo = {}
  /\ IF freezing THEN todo' = kept /\ kept' = {} /\ UNCHANGED tpc
                 ELSE tpc' = "giveback" /\ UNCHANGED <<todo, kept>>
  /\ UNCHANGED <<core_vars, ref, back, enabled, signaled, queued, cur, event,
                 irq, pm_vars, waiter_vars, lock>>

(* The walk is over.  While a freeze is pending the thread walks what it    *)
(* kept again until nothing is left (try_again); otherwise it goes on.      *)
ThreadScanEnd ==
  /\ tpc = "scan" /\ todo = {}
  /\ IF freezing /\ kept # {}
     THEN todo' = kept /\ kept' = {} /\ UNCHANGED tpc
     ELSE tpc' = "giveback" /\ UNCHANGED <<todo, kept>>
  /\ UNCHANGED <<core_vars, ref, back, enabled, signaled, queued, cur, event,
                 irq, pm_vars, waiter_vars, lock>>

(* Mutant of ThreadGiveBack: what is left on the private list is dropped.   *)
GiveNothingBack ==
  /\ tpc = "giveback" /\ lock = Nobody
  /\ kept' = {} /\ tpc' = "freeze"
  /\ UNCHANGED <<core_vars, ref, back, enabled, signaled, queued, todo, cur,
                 event, irq, pm_vars, waiter_vars, lock>>

(* What the engine has not passed yet goes back to the shared list.         *)
ThreadGiveBack ==
  /\ tpc = "giveback" /\ lock = Nobody
  /\ queued' = kept \cup queued
  /\ kept' = {}
  /\ tpc' = "freeze"
  /\ UNCHANGED <<core_vars, ref, back, enabled, signaled, todo, cur, event, irq,
                 pm_vars, waiter_vars, lock>>

(* zx_try_to_freeze, then the loop's condition.                             *)
ThreadTryFreeze ==
  /\ tpc = "freeze"
  /\ tpc' = IF freezing THEN "frozen" ELSE "wait"
  /\ UNCHANGED <<core_vars, ref, back, enabled, signaled, list_vars, event, irq,
                 pm_vars, waiter_vars, lock>>

ThreadThaw ==
  /\ tpc = "frozen" /\ ~freezing
  /\ tpc' = "wait"
  /\ UNCHANGED <<core_vars, ref, back, enabled, signaled, list_vars, event, irq,
                 pm_vars, waiter_vars, lock>>

(* The PM core starts to freeze tasks, and thaws them again after a resume  *)
(* or when the freeze timed out.                                            *)
PmFreeze ==
  /\ ~freezing /\ freezes < MaxFreezes
  /\ freezing' = TRUE /\ freezes' = freezes + 1
  /\ UNCHANGED <<core_vars, ref, back, enabled, signaled, list_vars, tpc, event,
                 irq, waiter_vars, lock>>
PmThaw ==
  /\ freezing
  /\ freezing' = FALSE /\ UNCHANGED freezes
  /\ UNCHANGED <<core_vars, ref, back, enabled, signaled, list_vars, tpc, event,
                 irq, waiter_vars, lock>>

-------------------------------------------------------------------------------
Scheduler == \E f \in Fences :
               \/ CreateFence(f) \/ AttachBo(f) \/ DetachBo(f)
               \/ UpdateValue(f) \/ ReleaseFence(f) \/ EngineAdvance(f)
ArmStep(w) == Arm(w) \/ ArmRecheck(w) \/ ArmLink(w)
Waiting == \E w \in Waiters :
             \/ \E f \in Fences : WaitStart(w, f)
             \/ ArmStep(w) \/ WaitEnd(w)
EventThread == \/ ThreadWake \/ ThreadSplice \/ \E f \in Fences : ThreadScan(f)
               \/ ThreadSignal \/ ThreadPut \/ ThreadScanEnd
               \/ ThreadGiveBack \/ ThreadTryFreeze \/ ThreadThaw
Pm == PmFreeze \/ PmThaw
Next == \/ Scheduler \/ PostEvent \/ Waiting
        \/ \E f \in Fences : PollSignaled(f)
        \/ EventThread \/ Pm

(* The kernel runs the event thread and tasks inside enable_signaling, the  *)
(* fence interrupt is delivered.  Neither the scheduler, the engines nor    *)
(* the ends of waits are assumed to make progress, nor does a freeze end.   *)
Fairness ==
  /\ WF_vars(EventThread)
  /\ WF_vars(PostEvent)
  /\ \A w \in Waiters : WF_vars(ArmStep(w))

Spec == Init /\ [][Next]_vars /\ Fairness

-------------------------------------------------------------------------------
WaiterPcs == {"idle", "arm", "recheck", "link", "wait"}
ThreadPcs == {"wait", "splice", "scan", "signal", "put", "giveback",
              "freeze", "frozen"}

(* Every variable ranges over the values the C types and the code allow.    *)
TypeOK ==
  /\ life \in [Fences -> {"unborn", "live", "freed"}]
  /\ ref \in [Fences -> Int]
  /\ core \in SUBSET Fences /\ resv \in SUBSET Fences
  /\ assigned \in SUBSET Fences /\ back \in SUBSET Fences
  /\ enabled \in SUBSET Fences /\ signaled \in SUBSET Fences
  /\ queued \in SUBSET Fences /\ todo \in SUBSET Fences /\ kept \in SUBSET Fences
  /\ cur \in Fences \cup {NoFence}
  /\ tpc \in ThreadPcs
  /\ event \in BOOLEAN /\ irq \in BOOLEAN /\ freezing \in BOOLEAN
  /\ freezes \in 0..MaxFreezes
  /\ wpc \in [Waiters -> WaiterPcs]
  /\ wf \in [Waiters -> Fences \cup {NoFence}]
  /\ lock \in Waiters \cup {Nobody}

-------------------------------------------------------------------------------
(***************************************************************************)
(* Safety.                                                                 *)
(***************************************************************************)
Owners(f) == {w \in Waiters : wf[w] = f}
One(b) == IF b THEN 1 ELSE 0

(* The reference count of a fence is exactly the number of parties that     *)
(* will put it: the scheduler, a reservation object, each waiter, and the   *)
(* driver's list once (zx_fence.c 44 and 473), wherever the fence is in the *)
(* thread's hands.  So nothing leaks and nothing is put twice.              *)
Parties(f) == One(f \in core) + One(f \in resv) + One(f \in Listed)
              + Cardinality(Owners(f))
RefsAccounted == \A f \in Fences : ref[f] = Parties(f)

(* Nobody reaches a fence the slab has taken back: the lists, the thread,   *)
(* the scheduler, reservation objects and waiters refer to live fences.     *)
NoUseAfterFree ==
  \A f \in Fences :
    (f \in core \cup resv \cup Listed \/ Owners(f) # {}) => life[f] = "live"

(* list_add_tail never links a fence that is linked already, on the shared  *)
(* list or on the thread's, and a fence is on one list at a time: the       *)
(* enable bit lets one caller per fence through.                            *)
LinkedOnce ==
  /\ queued \cap (todo \cup kept) = {} /\ todo \cap kept = {}
  /\ cur \notin queued \cup todo \cup kept
  /\ \A w \in Waiters : Arming(w) =>
       /\ wf[w] \notin Listed
       /\ \A v \in Waiters : Arming(v) /\ wf[v] = wf[w] => v = w

(* A fence is signaled only when its engine has passed it, whoever signals. *)
SignaledOnlyBack == signaled \subseteq back

(* A fence somebody armed is signaled, or linked, or about to be linked by  *)
(* the caller that armed it: none falls between the lists.                  *)
ArmedIsTracked ==
  \A f \in enabled \ signaled :
    f \in Listed \/ \E w \in Waiters : Arming(w) /\ wf[w] = f

(* No lost wake-up: whenever a fence the engine has passed waits on the     *)
(* shared list, among those the walk has left behind, or in the hands of    *)
(* the caller that is linking it, the thread is going to look again: an     *)
(* interrupt or an event is outstanding, or the thread is on its way to     *)
(* take over the shared list.                                               *)
WakeupPending ==
  /\ \A f \in kept \cap back : irq \/ event
  /\ \A f \in queued \cap back : irq \/ event \/ tpc = "splice"
  /\ \A w \in Waiters :
       wpc[w] = "link" /\ wf[w] \in back => irq \/ event \/ tpc = "splice"

(***************************************************************************)
(* Liveness.                                                               *)
(***************************************************************************)

(* The only thing that keeps the thread from freezing is a fence the engine *)
(* has not passed yet: otherwise a freeze request succeeds or is withdrawn, *)
(* whether or not any freeze ever ends (zx_fence.c:475-510).                *)
FreezeCompletes ==
  freezing ~> (tpc = "frozen" \/ ~freezing \/ ~(Listed \subseteq back))

(***************************************************************************)
(* The promise the driver makes to the users of dma_fence.                 *)
(***************************************************************************)
Promise == INSTANCE FencePromise WITH armed <- enabled

(* Fences are signaled at most once, and only after the engine passed them  *)
(* (zx_fence.c:446-510).                                                    *)
PromiseSpec == Promise!Spec

(* An armed fence that the engine has passed is eventually signaled if no   *)
(* freeze lasts for ever: no interleaving of arming, interrupts, list       *)
(* splices and freezes loses it (zx_fence.c:35-52 and 446-510).             *)
BackIsSignaled == WF_vars(PmThaw) => Promise!Kept
===============================================================================
