----------------------------- MODULE GemObject -----------------------------
(***************************************************************************)
(* The buffer objects of zx_gem.c and their framebuffers (zx_drmfb.c,      *)
(* zx_plane.c): references, pinned pages, kernel and user mappings, and    *)
(* the marks that keep the core from moving an allocation ("unpagable").   *)
(*                                                                         *)
(* Two objects are followed.  Own is created by this card and may be       *)
(* exported as a dma-buf; Imp is what a second zx card makes of that       *)
(* dma-buf (zx_gem_prime_import), whose pages are a mapping of Own.        *)
(* "Foreign" is the device of another driver attached to the same          *)
(* dma-buf.  Calls that are not one critical section of obj->mm.lock are   *)
(* split at the points where another thread can run.                       *)
(***************************************************************************)
EXTENDS Integers, FiniteSets

CONSTANTS
  Threads,    \* threads that make calls
  Files,      \* DRM files that hold handles
  Own, Imp,   \* the two objects
  None,       \* owner of a free lock, object of an idle thread
  MaxUses,    \* bound: mappings, framebuffers and prepared planes at the same time
  MaxMarks,   \* bound: marks of one object
  MaxFaults   \* bound: allocations and mappings that fail

ASSUME GemAssumption ==
  /\ Own # Imp /\ None \notin {Own, Imp}
  /\ None \notin Threads /\ None \notin Files
  /\ IsFiniteSet(Threads) /\ IsFiniteSet(Files)
  /\ MaxUses \in Nat /\ MaxMarks \in Nat /\ MaxFaults \in Nat

Objs == {Own, Imp}

VARIABLES
  state,     \* "none", "live", "freed": the drm_zx_gem_object
  refs,      \* its reference count
  handles,   \* files that hold a handle of it
  core,      \* core_handle is set
  opens,     \* allocations made from the pages of Imp; core_handle names the last
  pins,      \* mm.pages_pin_count
  pages,     \* mm.pages # NULL
  lock,      \* owner of mm.lock between two steps
  marks,     \* unpagable marks the core counts for the allocation core_handle names
  owed,      \* marks of user mappings of Imp that this allocation did not get
  kmap,      \* krnl_vma->ref_cnt (0: no kernel mapping)
  kbad,      \* krnl_vma->virt_addr is NULL: the kernel could not map it
  vmas,      \* user mappings
  fbs,       \* framebuffers on the object
  shown,     \* plane states of Own's framebuffer that were prepared
  exported,  \* Own has a dma-buf
  buf,       \* who else holds that dma-buf: subset of {"fd","foreign"}
  fmaps,     \* DMA mappings the foreign device holds
  leaked,    \* references no code returns any more
  faults,    \* failures so far
  pc         \* per thread: the next step, its object, its file

vars == <<state, refs, handles, core, opens, pins, pages, lock, marks, owed,
          kmap, kbad, vmas, fbs, shown, exported, buf, fmaps, leaked, faults, pc>>

counts == <<kmap, kbad, vmas, fbs, shown, fmaps>>
memory == <<pins, pages, lock, marks, owed>>

Idle == [at |-> "idle", o |-> None, f |-> None]
Step(a, o, f) == [at |-> a, o |-> o, f |-> f]

Steps == {"idle", "open", "openPin", "openAlloc", "openUnpin", "openFail", "mapMark",
          "mapPin", "mapTable", "mapFailed", "unmapUnpin", "unmapMark", "vmapLock",
          "mmapMark", "mmapMap", "put", "relUnpin", "detach"}

\* Chains that map or unmap Own for the foreign device have o = Own, the ones
\* on behalf of the import have o = Imp.
Go(t, a) == pc' = [pc EXCEPT ![t].at = a]
Start(t, a, o, f) == pc[t] = Idle /\ pc' = [pc EXCEPT ![t] = Step(a, o, f)]
Done(t) == pc' = [pc EXCEPT ![t] = Idle]
At(t, a) == pc[t].at = a
Fail == faults < MaxFaults /\ faults' = faults + 1

Uses == kmap + vmas[Own] + vmas[Imp] + fmaps + fbs + shown
Room == Uses < MaxUses

\* The dma-buf lives while a file descriptor, an attachment, a mapping or (as
\* drm_prime.c caches it) a handle of Own keeps it.
BufHeld == buf # {} \/ state[Imp] = "live" \/ handles[Own] # {}

-----------------------------------------------------------------------------
(* Creation, handles, lookups.                                              *)

Init ==
  /\ state = [o \in Objs |-> "none"]
  /\ refs = [o \in Objs |-> 0] /\ handles = [o \in Objs |-> {}]
  /\ core = [o \in Objs |-> FALSE] /\ opens = 0
  /\ pins = [o \in Objs |-> 0] /\ pages = [o \in Objs |-> FALSE]
  /\ lock = [o \in Objs |-> None] /\ marks = [o \in Objs |-> 0] /\ owed = 0
  /\ kmap = 0 /\ kbad = FALSE /\ vmas = [o \in Objs |-> 0] /\ fbs = 0 /\ shown = 0
  /\ exported = FALSE /\ buf = {} /\ fmaps = 0
  /\ leaked = [o \in Objs |-> 0] /\ faults = 0
  /\ pc = [t \in Threads |-> Idle]

\* The create, resource and dumb ioctls: the object is born with the handle's
\* reference, the creator's own one is put before the call returns.
CreateObject(t, f) ==
  /\ pc[t] = Idle /\ state[Own] = "none"
  /\ state' = [state EXCEPT ![Own] = "live"]
  /\ core' = [core EXCEPT ![Own] = TRUE]
  /\ refs' = [refs EXCEPT ![Own] = 1]
  /\ handles' = [handles EXCEPT ![Own] = {f}]
  /\ UNCHANGED <<opens, memory, counts, exported, buf, leaked, faults, pc>>

\* A second file gets a handle of Own: by name, or by importing the dma-buf
\* into the card that exported it, which only takes a reference.
OpenOwn(t, f) ==
  /\ pc[t] = Idle /\ state[Own] = "live" /\ refs[Own] > 0
  /\ f \notin handles[Own]
  /\ handles[Own] # {} \/ "fd" \in buf
  /\ refs' = [refs EXCEPT ![Own] = @ + 1]
  /\ handles' = [handles EXCEPT ![Own] = @ \cup {f}]
  /\ UNCHANGED <<state, core, opens, memory, counts, exported, buf, leaked, faults, pc>>

\* The second card attaches to the dma-buf.  Its caller keeps a reference of
\* its own until open() has returned.
PrimeImport(t, f) ==
  /\ Start(t, "open", Imp, f) /\ "fd" \in buf /\ state[Imp] = "none"
  /\ state' = [state EXCEPT ![Imp] = "live"]
  /\ refs' = [refs EXCEPT ![Imp] = 2]
  /\ handles' = [handles EXCEPT ![Imp] = {f}]
  /\ UNCHANGED <<core, opens, memory, counts, exported, buf, leaked, faults>>

\* Another file opens the import by name, as soon as its handle exists.
OpenByName(t, f) ==
  /\ Start(t, "open", Imp, f) /\ state[Imp] = "live"
  /\ handles[Imp] # {} /\ f \notin handles[Imp]
  /\ refs' = [refs EXCEPT ![Imp] = @ + 2]
  /\ handles' = [handles EXCEPT ![Imp] = @ \cup {f}]
  /\ UNCHANGED <<state, core, opens, memory, counts, exported, buf, leaked, faults>>

\* GEM_CLOSE.  A file does not close a handle that it is still being given.
\* The last handle of Own lets go of the cached dma-buf first.
HandleClose(t, f, o) ==
  /\ Start(t, "put", o, None) /\ f \in handles[o]
  /\ \A u \in Threads : pc[u].o = o => pc[u].f # f
  /\ handles' = [handles EXCEPT ![o] = @ \ {f}]
  /\ UNCHANGED <<state, core, opens, memory, counts, buf, leaked, faults>>
  /\ exported' = (exported /\ BufHeld')
  /\ refs' = [refs EXCEPT ![Own] = @ - (IF exported /\ ~BufHeld' THEN 1 ELSE 0)]

\* The ioctls for CPU access hold a lookup reference while they wait up to two
\* seconds for the fences of the object.
BeginCpuAccess(t, f, o) ==
  /\ Start(t, "put", o, None) /\ f \in handles[o]
  /\ refs' = [refs EXCEPT ![o] = @ + 1]
  /\ UNCHANGED <<state, handles, core, opens, memory, counts, exported, buf, leaked,
                 faults>>

\* One user of the kernel mapping fewer; with the last one it is unmapped and
\* takes a mark along.
DropKernelUse(drop) ==
  /\ kmap' = IF drop /\ kmap > 0 THEN kmap - 1 ELSE kmap
  /\ kbad' = (kbad /\ ~(drop /\ kmap = 1))
  /\ marks' = IF drop /\ kmap = 1 THEN [marks EXCEPT ![Own] = @ - 1] ELSE marks

\* Mutant: the release of an import forgets the pages of its allocation.
PutKeepsPages(t) == LET o == pc[t].o last == refs[o] = 1 IN
  /\ At(t, "put")
  /\ refs' = [refs EXCEPT ![o] = @ - 1]
  /\ state' = IF last /\ o = Own THEN [state EXCEPT ![Own] = "freed"] ELSE state
  /\ core' = IF last THEN [core EXCEPT ![o] = FALSE] ELSE core
  /\ DropKernelUse(last /\ o = Own)
  /\ pc' = [pc EXCEPT ![t] = IF ~last \/ o = Own THEN Idle ELSE Step("detach", Imp, None)]
  /\ UNCHANGED <<handles, opens, pins, pages, lock, owed, vmas, fbs, shown, fmaps, exported,
                 buf, leaked, faults>>

\* zx_gem_object_release_generic: the allocation of Own is destroyed.
ReleaseOwn(last) == core' = IF last THEN [core EXCEPT ![Own] = FALSE] ELSE core

\* zx_gem_object_put; the last one runs zx_gem_free_object.  Own drops one user
\* of a kernel mapping that is left, and its allocation; Imp goes on with its
\* pages.
Put(t) == LET o == pc[t].o last == refs[o] = 1 IN
  /\ At(t, "put")
  /\ refs' = [refs EXCEPT ![o] = @ - 1]
  /\ state' = IF last /\ o = Own THEN [state EXCEPT ![Own] = "freed"] ELSE state
  /\ ReleaseOwn(last /\ o = Own)
  /\ DropKernelUse(last /\ o = Own)
  /\ pc' = [pc EXCEPT ![t] = IF ~last \/ o = Own THEN Idle
                    ELSE Step(IF core[Imp] THEN "relUnpin" ELSE "detach", Imp, None)]
  /\ UNCHANGED <<handles, opens, pins, pages, lock, owed, vmas, fbs, shown, fmaps,
                 exported, buf, leaked, faults>>

-----------------------------------------------------------------------------
(* The dma-buf of Own: export, attachments, mappings.                       *)

\* drm_gem_dmabuf_export takes a reference for the dma-buf, once per life of it.
PrimeExport(t, f) ==
  /\ pc[t] = Idle /\ f \in handles[Own] /\ "fd" \notin buf
  /\ refs' = [refs EXCEPT ![Own] = @ + (IF exported THEN 0 ELSE 1)]
  /\ exported' = TRUE /\ buf' = buf \cup {"fd"}
  /\ UNCHANGED <<state, handles, core, opens, memory, counts, leaked, faults, pc>>

\* The foreign device attaches.
Attach(t) ==
  /\ pc[t] = Idle /\ "fd" \in buf /\ "foreign" \notin buf
  /\ buf' = buf \cup {"foreign"}
  /\ UNCHANGED <<state, refs, handles, core, opens, memory, counts, exported, leaked,
                 faults, pc>>

\* One holder lets go; the last one releases the dma-buf and with it the
\* reference of Own (drm_gem_dmabuf_release).
LetBufGo(t, h) ==
  /\ pc[t] = Idle /\ h \in buf
  /\ h = "foreign" => fmaps = 0 /\ (kmap = 0 \/ kbad) /\ \A u \in Threads : pc[u].o = Own =>
       pc[u].at \notin {"mapMark", "mapPin", "mapTable", "unmapUnpin", "unmapMark", "vmapLock"}
  /\ buf' = buf \ {h}
  /\ UNCHANGED <<state, refs, handles, core, opens, memory, counts, leaked, faults>>
  /\ exported' = BufHeld'
  /\ pc' = [pc EXCEPT ![t] = IF BufHeld' THEN Idle ELSE Step("put", Own, None)]

\* The end of zx_gem_object_release_dmabuf: dma_buf_detach and dma_buf_put.
Detach(t) ==
  /\ At(t, "detach")
  /\ state' = [state EXCEPT ![Imp] = "freed"]
  /\ UNCHANGED <<refs, handles, core, opens, memory, counts, buf, leaked, faults>>
  /\ exported' = BufHeld'
  /\ pc' = [pc EXCEPT ![t] = IF BufHeld' THEN Idle ELSE Step("put", Own, None)]

ForeignMap(t) ==
  /\ Start(t, "mapMark", Own, None) /\ "foreign" \in buf /\ Room
  /\ UNCHANGED <<state, refs, handles, core, opens, memory, counts, exported, buf,
                 leaked, faults>>

\* zx_gem_map_dma_buf: the mark comes first ...
MapMark(t) ==
  /\ At(t, "mapMark") /\ marks[Own] < MaxMarks
  /\ marks' = [marks EXCEPT ![Own] = @ + 1] /\ Go(t, "mapPin")
  /\ UNCHANGED <<state, refs, handles, core, opens, pins, pages, lock, owed, counts,
                 exported, buf, leaked, faults>>

\* zx_gem_object_get_pages_generic: a table of the allocation's pages.
GetPages == pages' = [pages EXCEPT ![Own] = TRUE]

\* ... then the pages are pinned; the first pin collects them
\* (GetPages), and takes its count back if it cannot ...
MapPin(t) ==
  /\ At(t, "mapPin")
  /\ \/ /\ pins' = [pins EXCEPT ![Own] = @ + 1]
        /\ GetPages
        /\ Go(t, "mapTable") /\ UNCHANGED faults
     \/ /\ pins[Own] = 0 /\ Fail
        /\ Go(t, "mapFailed") /\ UNCHANGED <<pins, pages>>
  /\ UNCHANGED <<state, refs, handles, core, opens, lock, marks, owed, counts, exported,
                 buf, leaked>>

\* Own loses a pin; with the last one its pages.
UnpinOwn ==
  /\ pins' = [pins EXCEPT ![Own] = @ - 1]
  /\ pages' = [pages EXCEPT ![Own] = pins[Own] > 1]

\* Mutant: the error path of the table keeps the pin.
MapTableKeepsPin(t) ==
  /\ At(t, "mapTable")
  /\ \/ /\ IF pc[t].o = Own
           THEN fmaps' = fmaps + 1 /\ Done(t) /\ UNCHANGED <<pages, lock>>
           ELSE /\ pages' = [pages EXCEPT ![Imp] = TRUE]
                /\ lock' = [lock EXCEPT ![Imp] = None]
                /\ Go(t, "openAlloc") /\ UNCHANGED fmaps
        /\ UNCHANGED faults
     \/ Fail /\ Go(t, "mapFailed") /\ UNCHANGED <<pages, lock, fmaps>>
  /\ UNCHANGED <<state, refs, handles, core, opens, pins, marks, owed, kmap, kbad, vmas,
                 fbs, shown, exported, buf, leaked>>

\* ... and a table of its own is made and mapped for the device.
MapTable(t) ==
  /\ At(t, "mapTable")
  /\ \/ /\ IF pc[t].o = Own
           THEN fmaps' = fmaps + 1 /\ Done(t) /\ UNCHANGED <<pages, lock>>
           ELSE /\ pages' = [pages EXCEPT ![Imp] = TRUE]
                /\ lock' = [lock EXCEPT ![Imp] = None]
                /\ Go(t, "openAlloc") /\ UNCHANGED fmaps
        /\ UNCHANGED <<pins, faults>>
     \/ /\ Fail /\ UnpinOwn
        /\ Go(t, "mapFailed") /\ UNCHANGED <<lock, fmaps>>
  /\ UNCHANGED <<state, refs, handles, core, opens, marks, owed, kmap, kbad, vmas, fbs,
                 shown, exported, buf, leaked>>

\* The error paths of the map leave the mark; for an import they lead back to
\* zx_gem_object_pin_pages, which takes its count back.
MapFailed(t) ==
  /\ At(t, "mapFailed")
  /\ IF pc[t].o = Own
     THEN Done(t) /\ UNCHANGED <<pins, lock>>
     ELSE /\ pins' = [pins EXCEPT ![Imp] = @ - 1]
          /\ lock' = [lock EXCEPT ![Imp] = None]
          /\ Go(t, "openFail")
  /\ UNCHANGED <<state, refs, handles, core, opens, pages, marks, owed, counts,
                 exported, buf, leaked, faults>>

ForeignUnmap(t) ==
  /\ Start(t, "unmapUnpin", Own, None) /\ fmaps > 0
  /\ fmaps' = fmaps - 1
  /\ UNCHANGED <<state, refs, handles, core, opens, memory, kmap, kbad, vmas, fbs,
                 shown, exported, buf, leaked, faults>>

UnmapUnpin(t) ==
  /\ At(t, "unmapUnpin") /\ UnpinOwn /\ Go(t, "unmapMark")
  /\ UNCHANGED <<state, refs, handles, core, opens, lock, marks, owed, counts, exported,
                 buf, leaked, faults>>

\* zx_gem_unmap_dma_buf ends with mark_pagable; for an import the thread is
\* inside zx_gem_object_unpin_pages, from a failed open or from the release.
UnmapMark(t) ==
  /\ At(t, "unmapMark")
  /\ marks' = [marks EXCEPT ![Own] = @ - 1]
  /\ IF pc[t].o = Own
     THEN Done(t) /\ UNCHANGED lock
     ELSE /\ lock' = [lock EXCEPT ![Imp] = None]
          /\ Go(t, IF pc[t].f = None THEN "detach" ELSE "openFail")
  /\ UNCHANGED <<state, refs, handles, core, opens, pins, pages, owed, counts, exported,
                 buf, leaked, faults>>

-----------------------------------------------------------------------------
(* zx_gem_dmabuf_open, for each new handle of the import.                   *)

\* core_handle is tested under no lock.
OpenCheck(t) ==
  /\ At(t, "open") /\ Go(t, IF core[Imp] THEN "put" ELSE "openPin")
  /\ UNCHANGED <<state, refs, handles, core, opens, memory, counts, exported, buf,
                 leaked, faults>>

\* The first pin maps Own while it holds mm.lock of Imp.
OpenPin(t) ==
  /\ At(t, "openPin") /\ lock[Imp] = None
  /\ pins' = [pins EXCEPT ![Imp] = @ + 1]
  /\ IF pins[Imp] = 0
     THEN lock' = [lock EXCEPT ![Imp] = t] /\ Go(t, "mapMark")
     ELSE Go(t, "openAlloc") /\ UNCHANGED lock
  /\ UNCHANGED <<state, refs, handles, core, opens, pages, marks, owed, counts,
                 exported, buf, leaked, faults>>

\* An allocation is made from the pages and core_handle names it.  A second open
\* that overlapped writes over the handle of the first: that allocation keeps
\* the marks it had, the new one has none.  The pages may not be had (702); an
\* allocation that cannot be made is a BUG (718).
OpenAlloc(t) ==
  /\ At(t, "openAlloc")
  /\ \/ /\ core' = [core EXCEPT ![Imp] = TRUE] /\ opens' = opens + 1
        /\ marks' = [marks EXCEPT ![Imp] = 0] /\ owed' = owed + marks[Imp]
        /\ Go(t, "put") /\ UNCHANGED faults
     \/ Fail /\ Go(t, "openUnpin") /\ UNCHANGED <<core, opens, marks, owed>>
  /\ UNCHANGED <<state, refs, handles, pins, pages, lock, counts, exported, buf, leaked>>

\* zx_gem_object_unpin_pages on Imp, for a failed open and for the release
\* (which has destroyed the allocation before).
UnpinImp(t) ==
  /\ pc[t].at \in {"openUnpin", "relUnpin"} /\ lock[Imp] = None
  /\ core' = IF At(t, "relUnpin") THEN [core EXCEPT ![Imp] = FALSE] ELSE core
  /\ pins' = [pins EXCEPT ![Imp] = @ - 1]
  /\ IF pins[Imp] = 1
     THEN /\ pages' = [pages EXCEPT ![Imp] = FALSE]
          /\ lock' = [lock EXCEPT ![Imp] = t] /\ Go(t, "unmapUnpin")
     ELSE /\ Go(t, IF At(t, "relUnpin") THEN "detach" ELSE "openFail")
          /\ UNCHANGED <<pages, lock>>
  /\ UNCHANGED <<state, refs, handles, opens, marks, owed, counts, exported, buf,
                 leaked, faults>>

\* An open that failed takes the handle back (drm_gem_handle_create_tail).
OpenFail(t) ==
  /\ At(t, "openFail")
  /\ handles' = [handles EXCEPT ![Imp] = @ \ {pc[t].f}]
  /\ refs' = [refs EXCEPT ![Imp] = @ - 1] /\ Go(t, "put")
  /\ UNCHANGED <<state, core, opens, memory, counts, exported, buf, leaked, faults>>

-----------------------------------------------------------------------------
(* Kernel and user mappings.                                                *)

\* zx_gem_object_vmap marks at every call, before mm.lock ...
VmapMark(t) ==
  /\ Start(t, "vmapLock", Own, None) /\ "foreign" \in buf
  /\ Room /\ marks[Own] < MaxMarks
  /\ marks' = [marks EXCEPT ![Own] = @ + 1]
  /\ UNCHANGED <<state, refs, handles, core, opens, pins, pages, lock, owed, counts,
                 exported, buf, leaked, faults>>

\* ... and maps under it, or counts one more user of the mapping.  When the
\* kernel cannot map, krnl_vma stays with no address: this call and the ones
\* that find it fail, and keep their mark and their count.
VmapLock(t) ==
  /\ At(t, "vmapLock") /\ kmap' = kmap + 1 /\ Done(t)
  /\ \/ UNCHANGED <<kbad, faults>>
     \/ kmap = 0 /\ Fail /\ kbad' = TRUE
  /\ UNCHANGED <<state, refs, handles, core, opens, memory, vmas, fbs, shown, fmaps,
                 exported, buf, leaked>>

\* zx_gem_object_vunmap, by a caller that was given an address.
Vunmap(t) ==
  /\ pc[t] = Idle /\ kmap > 0 /\ ~kbad /\ DropKernelUse(TRUE)
  /\ UNCHANGED <<state, refs, handles, core, opens, pins, pages, lock, owed, vmas, fbs,
                 shown, fmaps, exported, buf, leaked, faults, pc>>

\* zx_drm_gem_mmap: drm_gem_mmap takes a reference for the mapping ...
Mmap(t, f, o) ==
  /\ Start(t, "mmapMark", o, None)
  /\ f \in handles[o] /\ Room
  /\ refs' = [refs EXCEPT ![o] = @ + 1]
  /\ UNCHANGED <<state, handles, core, opens, memory, counts, exported, buf, leaked,
                 faults>>

\* ... vm_prepare marks, if there is a core_handle ...
MmapMark(t) == LET o == pc[t].o IN
  /\ At(t, "mmapMark") /\ marks[o] < MaxMarks
  /\ IF core[o] THEN marks' = [marks EXCEPT ![o] = @ + 1] /\ UNCHANGED owed
                ELSE owed' = owed + 1 /\ UNCHANGED marks
  /\ Go(t, "mmapMap")
  /\ UNCHANGED <<state, refs, handles, core, opens, pins, pages, lock, counts, exported,
                 buf, leaked, faults>>

\* ... and zx_drm_gem_object_mmap maps the allocation core_handle names by now;
\* without one it is a BUG.  When it fails the kernel calls no vm_ops->close:
\* the reference and the mark stay.
MmapMap(t) == LET o == pc[t].o IN
  /\ At(t, "mmapMap") /\ lock[o] = None /\ core[o] /\ Done(t)
  /\ \/ vmas' = [vmas EXCEPT ![o] = @ + 1] /\ UNCHANGED <<leaked, faults>>
     \/ Fail /\ leaked' = [leaked EXCEPT ![o] = @ + 1] /\ UNCHANGED vmas
  /\ UNCHANGED <<state, refs, handles, core, opens, memory, kmap, kbad, fbs, shown,
                 fmaps, exported, buf>>

\* vm_prepare and vm_release of a mapping: the mark is for the allocation that
\* core_handle names now.
Marking(o, n) == marks' = IF core[o] THEN [marks EXCEPT ![o] = @ + n] ELSE marks

\* Mutant: a copied mapping is not marked.
VmOpenUnmarked(t, o) ==
  /\ pc[t] = Idle /\ vmas[o] > 0 /\ Room /\ marks[o] < MaxMarks
  /\ vmas' = [vmas EXCEPT ![o] = @ + 1]
  /\ refs' = [refs EXCEPT ![o] = @ + 1]
  /\ UNCHANGED <<state, handles, core, opens, memory, kmap, kbad, fbs, shown, fmaps,
                 exported, buf, leaked, faults, pc>>

\* fork or a split copies a mapping; the parent's keeps the object meanwhile.
VmOpen(t, o) ==
  /\ pc[t] = Idle /\ vmas[o] > 0 /\ Room /\ marks[o] < MaxMarks
  /\ vmas' = [vmas EXCEPT ![o] = @ + 1]
  /\ Marking(o, 1)
  /\ refs' = [refs EXCEPT ![o] = @ + 1]
  /\ UNCHANGED <<state, handles, core, opens, pins, pages, lock, owed, kmap, kbad, fbs,
                 shown, fmaps, exported, buf, leaked, faults, pc>>

\* zx_gem_vm_close: the mark goes first, then drm_gem_vm_close puts.
VmClose(t, o) ==
  /\ Start(t, "put", o, None) /\ vmas[o] > 0
  /\ vmas' = [vmas EXCEPT ![o] = @ - 1]
  /\ Marking(o, -1)
  /\ UNCHANGED <<state, refs, handles, core, opens, pins, pages, lock, owed, kmap, kbad,
                 fbs, shown, fmaps, exported, buf, leaked, faults>>

-----------------------------------------------------------------------------
(* Framebuffers.                                                            *)

\* zx_fb_create looks the handle up and keeps the reference in the framebuffer.
\* It refuses an imported object, and on a card that only snoops one with
\* pages, and then forgets the reference.
FbCreate(t, f, o) ==
  /\ pc[t] = Idle /\ f \in handles[o]
  /\ refs' = [refs EXCEPT ![o] = @ + 1]
  /\ \/ Fail /\ leaked' = [leaked EXCEPT ![o] = @ + 1] /\ UNCHANGED fbs
     \/ o = Own /\ Room /\ fbs' = fbs + 1 /\ UNCHANGED <<leaked, faults>>
  /\ UNCHANGED <<state, handles, core, opens, memory, kmap, kbad, vmas, shown, fmaps,
                 exported, buf, pc>>

\* The last reference of a framebuffer goes; a plane state holds one.
FbDestroy(t) ==
  /\ Start(t, "put", Own, None) /\ fbs > 0 /\ (fbs = 1 => shown = 0)
  /\ fbs' = fbs - 1
  /\ UNCHANGED <<state, refs, handles, core, opens, memory, kmap, kbad, vmas, shown,
                 fmaps, exported, buf, leaked, faults>>

\* zx_prepare_plane_fb for a new plane state ...
PreparePlaneFb(t) ==
  /\ pc[t] = Idle /\ fbs > 0 /\ Room /\ marks[Own] < MaxMarks
  /\ shown' = shown + 1 /\ marks' = [marks EXCEPT ![Own] = @ + 1]
  /\ UNCHANGED <<state, refs, handles, core, opens, pins, pages, lock, owed, kmap, kbad,
                 vmas, fbs, fmaps, exported, buf, leaked, faults, pc>>

\* ... and zx_cleanup_plane_fb when another state has replaced it.
CleanupPlaneFb(t) ==
  /\ pc[t] = Idle /\ shown > 0
  /\ shown' = shown - 1 /\ marks' = [marks EXCEPT ![Own] = @ - 1]
  /\ UNCHANGED <<state, refs, handles, core, opens, pins, pages, lock, owed, kmap, kbad,
                 vmas, fbs, fmaps, exported, buf, leaked, faults, pc>>

-----------------------------------------------------------------------------
Call(t) ==
  \/ \E f \in Files : \/ CreateObject(t, f) \/ OpenOwn(t, f)
                        \/ PrimeImport(t, f) \/ OpenByName(t, f) \/ PrimeExport(t, f)
                        \/ \E o \in Objs : \/ HandleClose(t, f, o)
                                          \/ BeginCpuAccess(t, f, o)
                                          \/ Mmap(t, f, o) \/ FbCreate(t, f, o)
  \/ Attach(t) \/ \E h \in {"fd", "foreign"} : LetBufGo(t, h)
  \/ \E o \in Objs : VmOpen(t, o) \/ VmClose(t, o)
  \/ ForeignMap(t) \/ ForeignUnmap(t) \/ VmapMark(t) \/ Vunmap(t)
  \/ FbDestroy(t) \/ PreparePlaneFb(t) \/ CleanupPlaneFb(t)

Continue(t) ==
  \/ Put(t) \/ Detach(t) \/ MapMark(t) \/ MapPin(t) \/ MapTable(t) \/ MapFailed(t)
  \/ UnmapUnpin(t) \/ UnmapMark(t) \/ OpenCheck(t) \/ OpenPin(t) \/ OpenAlloc(t)
  \/ UnpinImp(t) \/ OpenFail(t) \/ VmapLock(t) \/ MmapMark(t) \/ MmapMap(t)

Next == \E t \in Threads : Call(t) \/ Continue(t)

Spec == Init /\ [][Next]_vars

-----------------------------------------------------------------------------
(* Properties.                                                              *)

TypeOK ==
  /\ state \in [Objs -> {"none", "live", "freed"}]
  /\ refs \in [Objs -> Int] /\ handles \in [Objs -> SUBSET Files]
  /\ core \in [Objs -> BOOLEAN] /\ opens \in Nat
  /\ pins \in [Objs -> Int] /\ pages \in [Objs -> BOOLEAN]
  /\ lock \in [Objs -> Threads \cup {None}] /\ marks \in [Objs -> Int] /\ owed \in Int
  /\ kmap \in Int /\ kbad \in BOOLEAN /\ vmas \in [Objs -> Int] /\ fbs \in Int /\ shown \in Int
  /\ exported \in BOOLEAN /\ buf \subseteq {"fd", "foreign"} /\ fmaps \in Int
  /\ leaked \in [Objs -> Nat] /\ faults \in 0 .. MaxFaults
  /\ pc \in [Threads -> [at : Steps, o : Objs \cup {None}, f : Files \cup {None}]]

InStep(S, o) == Cardinality({t \in Threads : pc[t].at \in S /\ pc[t].o = o})

B(b) == IF b THEN 1 ELSE 0

\* The thread has a reference of its own: a lookup, a mapping it is making, one
\* it is about to put, or the caller's during an open (the release has none).
HoldsRef(t, o) ==
  pc[t].o = o /\ (pc[t].f # None \/ pc[t].at \in {"put", "mmapMark", "mmapMap"})

\* A pin of Own is a mapping some device holds, or one being made or taken
\* down; a pin of Imp is an allocation made from its pages, or an open that is
\* between its two steps.  Without the lock in between there are pages exactly
\* while there are pins (zx_gem.c:45-76; the assertions at 52, 66 and 71).
PinsExact ==
  /\ pins[Own] = fmaps + B(pages[Imp]) + InStep({"mapTable", "unmapUnpin"}, Own)
                 + InStep({"mapTable", "unmapUnpin"}, Imp)
  /\ state[Imp] = "live" /\ refs[Imp] > 0 =>
       pins[Imp] = opens + InStep({"openAlloc", "openUnpin", "mapMark", "mapPin",
                                   "mapTable", "mapFailed"}, Imp)
  /\ \A o \in Objs : lock[o] = None => pages[o] = (pins[o] > 0)

\* Whoever uses the memory of an object has told the core not to move it: there
\* are at least as many marks as there are kernel and user mappings, DMA
\* mappings and prepared planes (zx_gem.c:112, 179, 904; zx_plane.c:356).  For
\* the import this is short by the marks that were made while there was no
\* core_handle, or for an allocation that a second open has replaced (691, 719,
\* 903), and it is whole when neither has happened.
UsedIsUnpagable ==
  /\ marks[Own] >= B(kmap > 0) + vmas[Own] + fmaps + B(pages[Imp]) + shown
  /\ marks[Imp] + owed >= vmas[Imp]

\* Every reference of a live object has an owner that will return it, but for
\* those a failed mapping or a refused framebuffer forgot; an object is freed
\* when none is left, and then nothing of it is in use, mapped or pinned.  Only
\* two opens that overlapped leave a pin behind (zx_gem.c:78-102, 98).
RefsExact ==
  /\ \A o \in Objs :
       /\ refs[o] = Cardinality(handles[o]) + vmas[o] + leaked[o]
                    + (IF o = Own THEN fbs + B(exported) ELSE 0)
                    + Cardinality({t \in Threads : HoldsRef(t, o)})
       /\ state[o] = "freed" => refs[o] = 0 /\ ~core[o]
  /\ state[Own] = "freed" => (kmap = 0 \/ kbad) /\ fmaps = 0 /\ shown = 0
  /\ \A o \in Objs : state[o] = "freed" /\ opens <= 1 => pins[o] = 0 /\ ~pages[o]

=============================================================================
