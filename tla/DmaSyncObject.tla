---------------------------- MODULE DmaSyncObject ----------------------------
(***************************************************************************)
(* zx_dma_sync_object of zx_fence.c.  The GPU scheduler must not run a     *)
(* command before the work of other fence contexts on its buffer is done.  *)
(* It asks for a sync object: a dma_fence over the fences of the buffer's  *)
(* reservation, which calls the scheduler back once all of them are        *)
(* signaled - unless it answers NULL, "nothing to wait for".               *)
(*                                                                         *)
(* Creating the object enters the kernel's dma_fence core with the lock of *)
(* the object held and takes the locks of its components; signaling a      *)
(* component holds that component's lock and may take the object's.  The   *)
(* components are fences of this driver (one lock per ring) or of another  *)
(* driver; what arms and finishes them is DmaFence's concern.  Their order *)
(* in the array decides nothing: any order is allowed.                     *)
(***************************************************************************)
EXTENDS Integers, FiniteSets

CONSTANTS Objects,    \* sync objects that can be allocated
          Fences,     \* fences in reservation objects
          Contexts,   \* fence contexts; each has one lock
          ContextOf,  \* the context of a fence
          NoFence, NoObject

ASSUME ContextAssumption == ContextOf \in [Fences -> Contexts]
ASSUME FencesAssumption == IsFiniteSet(Fences)
ASSUME NoFenceAssumption == NoFence \notin Fences
ASSUME NoObjectAssumption == NoObject \notin Objects

VARIABLES
  signaled,    \* component fences with DMA_FENCE_FLAG_SIGNALED_BIT
  cbList,      \* cbList[f]: objects whose callback is on the fence's cb_list
  signaling,   \* signaling[c]: the fence being signaled under c's lock
  running,     \* running[c]: the object whose callback runs there
  spc,         \* where the signaler holding c's lock is
  pc,          \* pc[o]: where the creator of o is
  fences,      \* fences[o]: the component fences, each with a reference
  rest,        \* those enable_signaling has not reached
  adding,      \* the one it is at
  numPending,  \* num_pending
  ref,         \* kref of o->base
  done,        \* objects whose base is signaled
  linked,      \* objects whose core callback is on base.cb_list
  held,        \* objects for which the creation reference is still to be put
  calls        \* calls[o]: how often the scheduler's callback has run

fence_vars  == <<signaled, cbList>>
signal_vars == <<signaling, running, spc>>
build_vars  == <<fences, rest, adding>>
base_vars   == <<done, linked, calls>>
vars == <<signaled, cbList, signaling, running, spc, pc, fences, rest, adding,
          numPending, ref, done, linked, held, calls>>

Init ==
  /\ signaled = {} /\ cbList = [f \in Fences |-> {}]
  /\ signaling = [c \in Contexts |-> NoFence]
  /\ running = [c \in Contexts |-> NoObject]
  /\ spc = [c \in Contexts |-> "idle"]
  /\ pc = [o \in Objects |-> "unborn"]
  /\ fences = [o \in Objects |-> {}] /\ rest = [o \in Objects |-> {}]
  /\ adding = [o \in Objects |-> NoFence]
  /\ numPending = [o \in Objects |-> 0] /\ ref = [o \in Objects |-> 0]
  /\ done = {} /\ linked = {} /\ held = {}
  /\ calls = [o \in Objects |-> 0]

(* Spinlocks.  A context's lock is held while one of its fences is being    *)
(* signaled; base.lock of an object is held by its creator.                 *)
ContextFree(f) == signaling[ContextOf[f]] = NoFence
BaseFree(o) == pc[o] \notin {"enable", "add", "failed"}

(* dma_fence_get, dma_fence_put.  The last put releases the object with its *)
(* references to the components (zx_dma_sync_object_release).               *)
Get(o) == ref' = [ref EXCEPT ![o] = @ + 1]
Put(o) == ref' = [ref EXCEPT ![o] = @ - 1]

(* dma_fence_signal on o->base: once only, and the core's callback with it. *)
SignalBase(o) ==
  /\ done' = done \cup {o}
  /\ linked' = linked \ {o}
  /\ calls' = IF o \in linked \ done THEN [calls EXCEPT ![o] = @ + 1] ELSE calls

-------------------------------------------------------------------------------
(***************************************************************************)
(* Creation: zx_dma_sync_object_create_cb, up to and inside                *)
(* enable_signaling, which dma_fence_add_callback calls under base.lock.   *)
(***************************************************************************)

(* Fences of the caller's own context are dropped.                          *)
Others(resv, c) == {f \in resv : ContextOf[f] # c}

(* dma_fence_init, the array and the count n; then base.lock is taken.      *)
CreateOver(o, others, n) ==
  /\ pc' = [pc EXCEPT ![o] = "enable"]
  /\ fences' = [fences EXCEPT ![o] = others]
  /\ rest' = [rest EXCEPT ![o] = others]
  /\ numPending' = [numPending EXCEPT ![o] = n]
  /\ ref' = [ref EXCEPT ![o] = 1]
  /\ held' = held \cup {o}

(* The remaining fences of the reservation become components.  With none,   *)
(* there is no object and the answer is NULL.                               *)
Create(o, resv, c) ==
  LET others == Others(resv, c)
  IN /\ pc[o] = "unborn"
     /\ IF others = {}
          THEN /\ pc' = [pc EXCEPT ![o] = "null"]
               /\ UNCHANGED <<fences, rest, numPending, ref, held>>
          ELSE CreateOver(o, others, Cardinality(others))
     /\ UNCHANGED <<fence_vars, signal_vars, adding, base_vars>>

(* The next component: a reference for its callback.                        *)
NextComponent(o, f) ==
  /\ pc[o] = "enable" /\ f \in rest[o]
  /\ pc' = [pc EXCEPT ![o] = "add"]
  /\ rest' = [rest EXCEPT ![o] = @ \ {f}]
  /\ adding' = [adding EXCEPT ![o] = f]
  /\ Get(o)
  /\ UNCHANGED <<fence_vars, signal_vars, fences, numPending, base_vars, held>>

(* dma_fence_add_callback links the callback, under the component's lock.   *)
AddCallback(o) ==
  LET f == adding[o]
  IN /\ pc[o] = "add" /\ ContextFree(f) /\ f \notin signaled
     /\ cbList' = [cbList EXCEPT ![f] = @ \cup {o}]
     /\ pc' = [pc EXCEPT ![o] = "enable"]
     /\ adding' = [adding EXCEPT ![o] = NoFence]
     /\ UNCHANGED <<signaled, signal_vars, fences, rest, numPending, ref, base_vars, held>>

(* Mutant: the reference taken for the callback is forgotten.               *)
AddFailsNoPut(o) ==
  LET f == adding[o]
  IN /\ pc[o] = "add" /\ f \in signaled
     /\ numPending' = [numPending EXCEPT ![o] = @ - 1]
     /\ pc' = [pc EXCEPT ![o] = IF numPending[o] = 1 THEN "failed" ELSE "enable"]
     /\ adding' = [adding EXCEPT ![o] = NoFence]
     /\ UNCHANGED <<signaled, ref, cbList, signal_vars, fences, rest, base_vars, held>>

(* Mutant: a signaled component is skipped without counting it.             *)
AddFailsNoCount(o) ==
  LET f == adding[o]
  IN /\ pc[o] = "add" /\ f \in signaled
     /\ Put(o)
     /\ pc' = [pc EXCEPT ![o] = "enable"]
     /\ adding' = [adding EXCEPT ![o] = NoFence]
     /\ UNCHANGED <<signaled, numPending, cbList, signal_vars, fences, rest, base_vars, held>>

(* ... or finds the fence signaled, without the lock or under it; or arms   *)
(* it first, learns that it is back, and signals it: no callback can be     *)
(* linked to it yet.  The reference goes back and the component counts as   *)
(* done; if it was the last one, enable_signaling fails.                    *)
AddFails(o) ==
  LET f == adding[o]
  IN /\ pc[o] = "add"
     /\ \/ f \in signaled /\ UNCHANGED signaled
        \/ /\ ContextFree(f) /\ cbList[f] = {}
           /\ signaled' = signaled \cup {f}
     /\ Put(o)
     /\ numPending' = [numPending EXCEPT ![o] = @ - 1]
     /\ pc' = [pc EXCEPT ![o] = IF numPending[o] = 1 THEN "failed" ELSE "enable"]
     /\ adding' = [adding EXCEPT ![o] = NoFence]
     /\ UNCHANGED <<cbList, signal_vars, fences, rest, base_vars, held>>

(* enable_signaling has returned true: the core links the scheduler's       *)
(* callback and drops base.lock; the object is returned.                    *)
CreateDone(o) ==
  /\ pc[o] = "enable" /\ rest[o] = {}
  /\ linked' = linked \cup {o}
  /\ pc' = [pc EXCEPT ![o] = "live"]
  /\ UNCHANGED <<fence_vars, signal_vars, build_vars, numPending, ref, done, calls, held>>

(* It has returned false: the core signals the base under base.lock, with   *)
(* no callback linked, and add_callback fails; create puts the object and   *)
(* returns NULL.                                                            *)
CreateFails(o) ==
  /\ pc[o] = "failed"
  /\ pc' = [pc EXCEPT ![o] = "null"]
  /\ SignalBase(o)
  /\ Put(o)
  /\ held' = held \ {o}
  /\ UNCHANGED <<fence_vars, signal_vars, build_vars, numPending>>

-------------------------------------------------------------------------------
(***************************************************************************)
(* Signaling a component, and zx_dma_sync_object_fence_cb_func.            *)
(***************************************************************************)

(* dma_fence_signal takes the context's lock and sets the bit.              *)
SignalFence(f) ==
  /\ ContextFree(f) /\ f \notin signaled
  /\ signaled' = signaled \cup {f}
  /\ signaling' = [signaling EXCEPT ![ContextOf[f]] = f]
  /\ UNCHANGED <<cbList, running, spc, pc, build_vars, numPending, ref, base_vars, held>>

(* Mutant: every callback signals the object.                               *)
RunCallbackAlways(c, o) ==
  LET f == signaling[c]
  IN /\ f # NoFence /\ spc[c] = "idle" /\ o \in cbList[f]
     /\ cbList' = [cbList EXCEPT ![f] = @ \ {o}]
     /\ numPending' = [numPending EXCEPT ![o] = @ - 1]
     /\ running' = [running EXCEPT ![c] = o]
     /\ spc' = [spc EXCEPT ![c] = "signal"]
     /\ UNCHANGED <<signaled, signaling, pc, build_vars, ref, base_vars, held>>

(* One callback of the list: whoever takes num_pending to 0 signals the     *)
(* object.                                                                  *)
RunCallback(c, o) ==
  LET f == signaling[c]
  IN /\ f # NoFence /\ spc[c] = "idle" /\ o \in cbList[f]
     /\ cbList' = [cbList EXCEPT ![f] = @ \ {o}]
     /\ numPending' = [numPending EXCEPT ![o] = @ - 1]
     /\ running' = [running EXCEPT ![c] = o]
     /\ spc' = [spc EXCEPT ![c] = IF numPending[o] = 1 THEN "signal" ELSE "put"]
     /\ UNCHANGED <<signaled, signaling, pc, build_vars, ref, base_vars, held>>

(* dma_fence_signal(&sync_obj->base), which needs base.lock.                *)
CallbackSignals(c) ==
  LET o == running[c]
  IN /\ spc[c] = "signal" /\ BaseFree(o)
     /\ SignalBase(o)
     /\ spc' = [spc EXCEPT ![c] = "put"]
     /\ UNCHANGED <<fence_vars, signaling, running, pc, build_vars, numPending, ref, held>>

(* The callback's reference goes.                                           *)
CallbackPuts(c) ==
  /\ spc[c] = "put"
  /\ Put(running[c])
  /\ spc' = [spc EXCEPT ![c] = "idle"]
  /\ running' = [running EXCEPT ![c] = NoObject]
  /\ UNCHANGED <<fence_vars, signaling, pc, build_vars, numPending, base_vars, held>>

(* No callback is left: the context's lock is dropped.                      *)
SignalEnd(c) ==
  /\ signaling[c] # NoFence /\ spc[c] = "idle" /\ cbList[signaling[c]] = {}
  /\ signaling' = [signaling EXCEPT ![c] = NoFence]
  /\ UNCHANGED <<fence_vars, running, spc, pc, build_vars, numPending, ref, base_vars, held>>

-------------------------------------------------------------------------------
(* The scheduler asks dma_sync_object_is_signaled: a count of 0 is enough   *)
(* to signal the base from here, before the callback that took it there.    *)
IsSignaled(o) ==
  /\ pc[o] = "live" /\ o \in held
  /\ numPending[o] <= 0 /\ o \notin done
  /\ SignalBase(o)
  /\ UNCHANGED <<fence_vars, signal_vars, pc, build_vars, numPending, ref, held>>

(* zx_dma_sync_object_release_cb, at any time after a successful creation.  *)
ReleaseObject(o) ==
  /\ pc[o] = "live" /\ o \in held
  /\ held' = held \ {o}
  /\ Put(o)
  /\ UNCHANGED <<fence_vars, signal_vars, pc, build_vars, numPending, base_vars>>

Creation(o) == (\E f \in Fences : NextComponent(o, f)) \/ AddCallback(o) \/ AddFails(o)
               \/ CreateDone(o) \/ CreateFails(o)
Signaling(c) == (\E o \in Objects : RunCallback(c, o)) \/ CallbackSignals(c)
                \/ CallbackPuts(c) \/ SignalEnd(c)
Scheduler(o) == \/ \E resv \in SUBSET Fences, c \in Contexts : Create(o, resv, c)
                \/ IsSignaled(o) \/ ReleaseObject(o)

Next == \/ \E o \in Objects : Creation(o) \/ Scheduler(o)
        \/ \E c \in Contexts : Signaling(c)
        \/ \E f \in Fences : SignalFence(f)

Spec == Init /\ [][Next]_vars

(* The creator and a signaler run on; the scheduler and the GPU owe nothing. *)
FairSpec == /\ Spec
            /\ \A o \in Objects : WF_vars(Creation(o))
            /\ \A c \in Contexts : WF_vars(Signaling(c))

-------------------------------------------------------------------------------
(***************************************************************************)
(* Properties                                                              *)
(***************************************************************************)

(* Every variable stays in its range; in particular num_pending, which is   *)
(* compared with "<= 0" and decremented by several threads, never passes 0. *)
TypeOK ==
  /\ signaled \subseteq Fences
  /\ cbList \in [Fences -> SUBSET Objects]
  /\ signaling \in [Contexts -> Fences \cup {NoFence}]
  /\ running \in [Contexts -> Objects \cup {NoObject}]
  /\ spc \in [Contexts -> {"idle", "signal", "put"}]
  /\ pc \in [Objects -> {"unborn", "enable", "add", "failed", "live", "null"}]
  /\ fences \in [Objects -> SUBSET Fences]
  /\ rest \in [Objects -> SUBSET Fences]
  /\ adding \in [Objects -> Fences \cup {NoFence}]
  /\ numPending \in [Objects -> Nat] /\ ref \in [Objects -> Nat]
  /\ done \subseteq Objects /\ linked \subseteq Objects /\ held \subseteq Objects
  /\ calls \in [Objects -> Nat]

(* What the scheduler has been told about an object: the callback ran, or   *)
(* there was nothing to wait for.                                           *)
Told(o) == pc[o] = "null" \/ calls[o] > 0

(* The scheduler is told that it may go on only when every fence of another *)
(* context on the buffer is signaled; and it is told once - the callback    *)
(* does not run twice, whoever signals the object, and never after NULL.    *)
ToldOnceWhenDone ==
  \A o \in Objects :
    /\ Told(o) => fences[o] \subseteq signaled
    /\ calls[o] <= 1
    /\ pc[o] = "null" => calls[o] = 0

(* The components whose callback for the object is linked or runs.          *)
Callbacks(o) == {f \in Fences : \/ o \in cbList[f]
                                \/ /\ signaling[ContextOf[f]] = f
                                   /\ running[ContextOf[f]] = o}

(* The kref is exact: one for the scheduler (or create itself), one for the *)
(* callback being added, one for each callback that is linked or runs.  So  *)
(* an object lives as long as a component's list points into it, and is     *)
(* freed by the last party.                                                 *)
RefsExact ==
  \A o \in Objects :
    ref[o] = (IF o \in held THEN 1 ELSE 0) + (IF pc[o] = "add" THEN 1 ELSE 0)
             + Cardinality(Callbacks(o))

(* A thread that signals an object under the lock of a component may have   *)
(* to wait for base.lock, but never for a creator that waits for locks      *)
(* itself: it has added its last callback and is about to unlock.           *)
NoLockCycle ==
  \A c \in Contexts :
    spc[c] = "signal" =>
      \/ BaseFree(running[c])
      \/ pc[running[c]] = "enable" /\ rest[running[c]] = {}

(* Once every component of an object is signaled, its scheduler is told     *)
(* (also if it has released the object meanwhile).                          *)
AllSignaledIsTold ==
  \A o \in Objects : (pc[o] # "unborn" /\ fences[o] \subseteq signaled) ~> Told(o)
=============================================================================
