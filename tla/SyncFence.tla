------------------------------- MODULE SyncFence -------------------------------
(***************************************************************************)
(* The fence file descriptors of zx_sync.c.  A fence file holds an array   *)
(* of sync nodes, each a value on a GPU sync object.  Files are created    *)
(* for one node, merged two by two into new files, polled, waited for and  *)
(* closed; the kernel thread "syncd" marks the nodes the GPU has passed    *)
(* and signals every listed fence whose nodes are all marked.              *)
(*                                                                         *)
(* A section under dev->lock is one step.  A merge is several: the two     *)
(* copies take the lock one after the other, the descriptor is installed,  *)
(* and the new fence is listed under the lock a third time: between the    *)
(* two last, anybody may use the descriptor or close it.  Arrays of nodes  *)
(* are sets with a count of used slots.  Identifiers stand for one         *)
(* allocation and are not reused.                                          *)
(*                                                                         *)
(* Two things the code lets happen have no defined outcome: a file that is *)
(* closed before its fence is listed, and a merge whose copy_to_user fails *)
(* when the file is installed and listed.  Both are steps of the model,    *)
(* and no behaviour goes on after them (Defined).                          *)
(***************************************************************************)
EXTENDS Integers, FiniteSets

CONSTANTS Nodes,         \* sync nodes that can be allocated
          Fences,        \* fences (and their files) that can be created
          Callers,       \* tasks that create, merge and wait
          None,          \* no fence
          DefaultNodes,  \* ZX_DEFAULT_SYNC_NODE
          ExtraNodes,    \* ZX_EXTRA_SYNC_NODE
          Faults,        \* what may fail: "alloc", "grow", "getfd", "copy"
          MaxTime        \* bound: event timestamps stop growing here

ASSUME NodesAssumption == IsFiniteSet(Nodes)
ASSUME FencesAssumption == IsFiniteSet(Fences) /\ None \notin Fences
ASSUME ArrayAssumption == DefaultNodes \in Nat \ {0} /\ ExtraNodes \in Nat \ {0}
ASSUME FaultsAssumption == Faults \subseteq {"alloc", "grow", "getfd", "copy"}
ASSUME TimeAssumption == MaxTime \in Nat

VARIABLES
  nref,      \* nref[n]: ref_cnt of the node
  nlife,     \* nlife[n]: "unborn", "live" or "freed"
  nsig,      \* nodes with status OBJ_SIGNALED
  ntime,     \* ntime[n]: timestamp of a signaled node
  reached,   \* nodes whose value the GPU has passed (is_fence_object_signaled)
  flife,     \* flife[f]: "unborn", "live" or "freed"
  held,      \* held[f]: the nodes in fence->syncs
  num,       \* num[f]: sync_num
  cap,       \* cap[f]: max_sync_num
  merged,    \* fences with merge set: built by a merge
  fsig,      \* fences with status OBJ_SIGNALED
  ftime,     \* ftime[f]: timestamp
  needs,     \* needs[f]: the nodes f stands for, merged fences included (history)
  listed,    \* dev->sync_obj_list
  late,      \* listed fences whose nodes were all reached when they were listed (history)
  files,     \* fences whose file is installed and not released
  fds,       \* files a descriptor still refers to
  leaked,    \* files with a reference nobody will drop
  cpc,       \* where each caller is
  c1,        \* the fence file a caller's ioctl is on
  c2,        \* the second file of a merge (fget)
  cnew,      \* the fence a caller is building
  irq,       \* the GPU has passed a value and its event is still to be posted
  event,     \* thread->event->state
  evTime,    \* thread->event_timestamp
  tpc,       \* where syncd is
  ttime      \* the time_stamp argument of do_process_sync_list

node_vars   == <<nref, nlife>>
mark_vars   == <<nsig, ntime>>
fence_vars  == <<flife, held, num, cap, merged, needs>>
sig_vars    == <<fsig, ftime>>
list_vars   == <<listed, late>>
file_vars   == <<files, fds, leaked>>
caller_vars == <<cpc, c1, c2, cnew>>
post_vars   == <<irq, event, evTime>>
thread_vars == <<tpc, ttime>>
vars == <<nref, nlife, nsig, ntime, reached, flife, held, num, cap, merged, fsig,
          ftime, needs, listed, late, files, fds, leaked, cpc, c1, c2, cnew, irq, event,
          evTime, tpc, ttime>>

(* The file's reference count is not zero: a descriptor, an ioctl in        *)
(* progress or a leaked reference keeps it.                                 *)
InUse(f) == \/ f \in fds \cup leaked
            \/ \E c \in Callers : f \in {c1[c], c2[c]}

(* zx_sync_fence_release gives up one reference to every node in the array  *)
(* and clears and frees the fence.  (The marks of a freed node are kept as  *)
(* history.)                                                                *)
FreeFence(f) ==
  /\ nref' = [n \in Nodes |-> IF n \in held[f] THEN nref[n] - 1 ELSE nref[n]]
  /\ nlife' = [n \in Nodes |-> IF n \in held[f] /\ nref[n] = 1 THEN "freed" ELSE nlife[n]]
  /\ flife' = [flife EXCEPT ![f] = "freed"]
  /\ held' = [held EXCEPT ![f] = {}]
  /\ num' = [num EXCEPT ![f] = 0]
  /\ cap' = [cap EXCEPT ![f] = 0]
  /\ merged' = merged \ {f}
  /\ needs' = [needs EXCEPT ![f] = {}]
  /\ fsig' = fsig \ {f}
  /\ ftime' = [ftime EXCEPT ![f] = 0]

Init ==
  /\ nref = [n \in Nodes |-> 0]
  /\ nlife = [n \in Nodes |-> "unborn"]
  /\ nsig = {} /\ reached = {}
  /\ ntime = [n \in Nodes |-> 0]
  /\ flife = [f \in Fences |-> "unborn"]
  /\ held = [f \in Fences |-> {}] /\ needs = [f \in Fences |-> {}]
  /\ num = [f \in Fences |-> 0] /\ cap = [f \in Fences |-> 0]
  /\ merged = {} /\ fsig = {} /\ ftime = [f \in Fences |-> 0]
  /\ listed = {} /\ late = {} /\ files = {} /\ fds = {} /\ leaked = {}
  /\ cpc = [c \in Callers |-> "idle"]
  /\ c1 = [c \in Callers |-> None] /\ c2 = [c \in Callers |-> None]
  /\ cnew = [c \in Callers |-> None]
  /\ irq = FALSE /\ event = FALSE /\ evTime = 0
  /\ tpc = "wait" /\ ttime = 0

-------------------------------------------------------------------------------
(* The user creates and closes fence files; the GPU passes values.          *)

(* zx_sync_fence_add_to_list, under the lock.                               *)
AddToList(f) ==
  /\ listed' = listed \cup {f}
  /\ late' = IF held[f] \subseteq reached THEN late \cup {f} ELSE late

(* zx_sync_fence_create_fd up to anon_inode_getfd, which installs the       *)
(* descriptor: from here on it can be used and closed.  A failure leaves    *)
(* nothing behind.                                                          *)
CreateFd(c, f, n) ==
  /\ cpc[c] = "idle"
  /\ flife[f] = "unborn" /\ nlife[n] = "unborn"
  /\ nlife' = [nlife EXCEPT ![n] = "live"]
  /\ nref' = [nref EXCEPT ![n] = 1]
  /\ flife' = [flife EXCEPT ![f] = "live"]
  /\ held' = [held EXCEPT ![f] = {n}]
  /\ needs' = [needs EXCEPT ![f] = {n}]
  /\ num' = [num EXCEPT ![f] = 1]
  /\ cap' = [cap EXCEPT ![f] = DefaultNodes]
  /\ files' = files \cup {f}
  /\ fds' = fds \cup {f}
  /\ cpc' = [cpc EXCEPT ![c] = "new"]
  /\ cnew' = [cnew EXCEPT ![c] = f]
  /\ UNCHANGED <<mark_vars, reached, merged, sig_vars, list_vars, leaked, c1, c2, post_vars,
                 thread_vars>>

(* The rest of it: the node is read and the fence joins the list.           *)
CreateList(c) ==
  /\ cpc[c] = "new"
  /\ AddToList(cnew[c])
  /\ cpc' = [cpc EXCEPT ![c] = "idle"]
  /\ cnew' = [cnew EXCEPT ![c] = None]
  /\ UNCHANGED <<node_vars, mark_vars, reached, fence_vars, sig_vars, file_vars, c1, c2,
                 post_vars, thread_vars>>

(* close: the descriptor goes, the file stays while an ioctl runs on it.    *)
Close(f) ==
  /\ f \in fds
  /\ fds' = fds \ {f}
  /\ UNCHANGED <<node_vars, mark_vars, reached, fence_vars, sig_vars, list_vars, files,
                 leaked, caller_vars, post_vars, thread_vars>>

(* Mutant of ReleaseUnlist: the fence stays on the list.                    *)
ReleaseListed(f) ==
  /\ f \in files /\ ~InUse(f)
  /\ files' = files \ {f}
  /\ UNCHANGED <<node_vars, mark_vars, reached, fence_vars, sig_vars, list_vars, fds,
                 leaked, caller_vars, post_vars, thread_vars>>

(* The last fput calls zx_fops_sync_fence_release: off the list under the   *)
(* lock, and then ...  (Of a fence that is not on the list yet, list_del    *)
(* reads null links: ~Defined.)                                             *)
ReleaseUnlist(f) ==
  /\ f \in files /\ ~InUse(f)
  /\ files' = files \ {f}
  /\ listed' = listed \ {f}
  /\ late' = late \ {f}
  /\ UNCHANGED <<node_vars, mark_vars, reached, fence_vars, sig_vars, fds, leaked,
                 caller_vars, post_vars, thread_vars>>

(* ... freed, without the lock.  (A merge that has listed its fence does    *)
(* not look at it again, unless copy_to_user fails.)                        *)
ReleaseFree(f) ==
  /\ flife[f] = "live" /\ f \notin files
  /\ \A c \in Callers : cnew[c] = f => cpc[c] = "return"
  /\ FreeFence(f)
  /\ UNCHANGED <<mark_vars, reached, list_vars, file_vars,
                 caller_vars, post_vars, thread_vars>>

(* The GPU passes the value of a node some fence still refers to.           *)
Reach(n) ==
  /\ nlife[n] = "live" /\ n \notin reached
  /\ reached' = reached \cup {n}
  /\ irq' = TRUE
  /\ UNCHANGED <<node_vars, mark_vars, fence_vars, sig_vars, list_vars, file_vars,
                 caller_vars, event, evTime, thread_vars>>

-------------------------------------------------------------------------------
(* ZX_SYNC_IOCTL_MERGE and SYNC_IOC_MERGE on file f with fd2 = g.           *)

(* The new fence starts out signaled.  If it cannot be allocated the ioctl  *)
(* returns at once and keeps the reference fget took.                       *)
MergeStart(c, f, g, new) ==
  /\ cpc[c] = "idle" /\ f \in fds /\ g \in fds
  /\ flife[new] = "unborn"
  /\ flife' = [flife EXCEPT ![new] = "live"]
  /\ cap' = [cap EXCEPT ![new] = DefaultNodes]
  /\ merged' = merged \cup {new}
  /\ fsig' = fsig \cup {new}
  /\ cpc' = [cpc EXCEPT ![c] = "second"]
  /\ c1' = [c1 EXCEPT ![c] = f]
  /\ c2' = [c2 EXCEPT ![c] = g]
  /\ cnew' = [cnew EXCEPT ![c] = new]
  /\ UNCHANGED <<node_vars, mark_vars, reached, held, num, needs, ftime, list_vars,
                 file_vars, post_vars, thread_vars>>

MergeNoMemory(g) ==
  /\ "alloc" \in Faults /\ g \in fds
  /\ leaked' = leaked \cup {g}
  /\ UNCHANGED <<node_vars, mark_vars, reached, fence_vars, sig_vars, list_vars, files,
                 fds, caller_vars, post_vars, thread_vars>>

(* Mutant of ToAppend: nodes that dst holds already are appended again.     *)
AppendTwice(src, dst) == IF src \in fsig THEN {} ELSE held[src] \ nsig

(* The nodes zx_sync_fence_merge_one appends to dst: those of a pending     *)
(* source that are not signaled and not in dst yet.                         *)
ToAppend(src, dst) == IF src \in fsig THEN {} ELSE (held[src] \ nsig) \ held[dst]

(* The timestamps that count for dst, whose own is the latest of them       *)
(* afterwards: its own, a signaled source's, and those of the signaled      *)
(* nodes of a pending source.                                               *)
TimesSeen(src, dst) ==
  {ftime[dst]} \cup (IF src \in fsig THEN {ftime[src]}
                    ELSE {ntime[n] : n \in held[src] \cap nsig})
TakeLatest(src, dst) ==
  \E t \in TimesSeen(src, dst) :
    /\ \A u \in TimesSeen(src, dst) : u <= t
    /\ ftime' = [ftime EXCEPT ![dst] = t]

(* Mutants of MergeOne: the array never grows; the status of a node is not  *)
(* folded into the new fence's.                                             *)
MergeOneNoGrowth(src, dst, got, failed) ==
  /\ ~failed
  /\ held' = [held EXCEPT ![dst] = @ \cup got]
  /\ num' = [num EXCEPT ![dst] = @ + Cardinality(got)]
  /\ nref' = [n \in Nodes |-> IF n \in got THEN nref[n] + 1 ELSE nref[n]]
  /\ fsig' = IF got = {} THEN fsig ELSE fsig \ {dst}
  /\ TakeLatest(src, dst)
  /\ needs' = [needs EXCEPT ![dst] = @ \cup needs[src]]
  /\ UNCHANGED cap
MergeOneKeepStatus(src, dst, got, failed) ==
  /\ ~failed
  /\ cap' = [cap EXCEPT ![dst] = @ + Cardinality(got)]
  /\ held' = [held EXCEPT ![dst] = @ \cup got]
  /\ num' = [num EXCEPT ![dst] = @ + Cardinality(got)]
  /\ nref' = [n \in Nodes |-> IF n \in got THEN nref[n] + 1 ELSE nref[n]]
  /\ TakeLatest(src, dst)
  /\ needs' = [needs EXCEPT ![dst] = @ \cup needs[src]]
  /\ UNCHANGED fsig

(* The array grows by ExtraNodes whenever it is full.  If it cannot, the    *)
(* nodes appended so far stay, and the merge fails.                         *)
MergeOne(src, dst, got, failed) ==
  \E newCap \in {cap[dst] + k * ExtraNodes : k \in 0 .. Cardinality(Nodes)} :
    /\ num[dst] + Cardinality(got) <= newCap
    /\ newCap > cap[dst] => newCap - ExtraNodes < num[dst] + Cardinality(got)
    /\ failed => "grow" \in Faults /\ num[dst] + Cardinality(got) = newCap
    /\ cap' = [cap EXCEPT ![dst] = newCap]
    /\ held' = [held EXCEPT ![dst] = @ \cup got]
    /\ num' = [num EXCEPT ![dst] = @ + Cardinality(got)]
    /\ nref' = [n \in Nodes |-> IF n \in got THEN nref[n] + 1 ELSE nref[n]]
    /\ fsig' = IF got = {} /\ ~failed THEN fsig ELSE fsig \ {dst}
    /\ TakeLatest(src, dst)
    /\ needs' = [needs EXCEPT ![dst] = @ \cup needs[src]]

(* First fence2, then the fence the ioctl is on.                            *)
Source(c) == IF cpc[c] = "second" THEN c2[c] ELSE c1[c]
MergeCopy(c, got) ==
  LET dst == cnew[c]
      src == Source(c)
      all == ToAppend(src, dst)
  IN /\ cpc[c] \in {"second", "first"}
     /\ got \subseteq all
     /\ MergeOne(src, dst, got, got # all)
     /\ cpc' = [cpc EXCEPT ![c] = IF got # all THEN "undo"
                                  ELSE IF cpc[c] = "second" THEN "first" ELSE "getfd"]
     /\ UNCHANGED <<nlife, mark_vars, reached, flife, merged, list_vars, file_vars, c1, c2, cnew,
                    post_vars, thread_vars>>

(* anon_inode_getfd installs the descriptor, before the fence is on the     *)
(* list.                                                                    *)
MergeGetFd(c) ==
  /\ cpc[c] = "getfd"
  /\ \/ /\ files' = files \cup {cnew[c]}
        /\ fds' = fds \cup {cnew[c]}
        /\ cpc' = [cpc EXCEPT ![c] = "list"]
     \/ /\ "getfd" \in Faults
        /\ cpc' = [cpc EXCEPT ![c] = "undo"]
        /\ UNCHANGED <<files, fds>>
  /\ UNCHANGED <<node_vars, mark_vars, reached, fence_vars, sig_vars, list_vars,
                 leaked, c1, c2, cnew, post_vars, thread_vars>>

MergeList(c) ==
  /\ cpc[c] = "list"
  /\ AddToList(cnew[c])
  /\ cpc' = [cpc EXCEPT ![c] = "return"]
  /\ UNCHANGED <<node_vars, mark_vars, reached, fence_vars, sig_vars,
                 file_vars, c1, c2, cnew, post_vars, thread_vars>>

(* The ioctl returns and lets go of both files.                             *)
Finish(c) ==
  /\ cpc' = [cpc EXCEPT ![c] = "idle"]
  /\ c1' = [c1 EXCEPT ![c] = None]
  /\ c2' = [c2 EXCEPT ![c] = None]
  /\ cnew' = [cnew EXCEPT ![c] = None]

(* copy_to_user succeeds: the user is told the new descriptor.              *)
MergeReturn(c) ==
  /\ cpc[c] = "return"
  /\ Finish(c)
  /\ UNCHANGED <<node_vars, mark_vars, reached, fence_vars, sig_vars, list_vars, file_vars,
                 post_vars, thread_vars>>

(* __release_new_fence after a failed copy or a failed anon_inode_getfd.    *)
MergeUndo(c) ==
  /\ cpc[c] = "undo"
  /\ FreeFence(cnew[c])
  /\ Finish(c)
  /\ UNCHANGED <<mark_vars, reached, list_vars, file_vars,
                 post_vars, thread_vars>>

(* copy_to_user fails: put_unused_fd leaves the installed file in the       *)
(* descriptor table, and the fence is freed where it is, on the list, or a  *)
(* second time if its file has been closed meanwhile.                       *)
MergeCopyFault(c) ==
  /\ cpc[c] = "return" /\ "copy" \in Faults
  /\ \/ flife[cnew[c]] = "live" /\ FreeFence(cnew[c])
     \/ flife[cnew[c]] = "freed" /\ UNCHANGED <<node_vars, fence_vars, sig_vars>>
  /\ cpc' = [cpc EXCEPT ![c] = "wild"]
  /\ UNCHANGED <<mark_vars, reached, list_vars, file_vars, c1, c2, cnew,
                 post_vars, thread_vars>>

-------------------------------------------------------------------------------
(* zx_sync_fence_fd_wait: ends when the fence is signaled, or by a timeout  *)
(* or a signal.                                                             *)
WaitStart(c, f) ==
  /\ cpc[c] = "idle" /\ f \in fds
  /\ cpc' = [cpc EXCEPT ![c] = "waiting"]
  /\ c1' = [c1 EXCEPT ![c] = f]
  /\ UNCHANGED <<node_vars, mark_vars, reached, fence_vars, sig_vars, list_vars,
                 file_vars, c2, cnew, post_vars, thread_vars>>

WaitEnd(c) ==
  /\ cpc[c] = "waiting"
  /\ c1[c] \in fsig
  /\ Finish(c)
  /\ UNCHANGED <<node_vars, mark_vars, reached, fence_vars, sig_vars, list_vars,
                 file_vars, post_vars, thread_vars>>

WaitTimeout(c) ==
  /\ cpc[c] = "waiting"
  /\ Finish(c)
  /\ UNCHANGED <<node_vars, mark_vars, reached, fence_vars, sig_vars, list_vars,
                 file_vars, post_vars, thread_vars>>

-------------------------------------------------------------------------------
(* zx_post_sync_event, from the core's interrupt path.  The core posts for  *)
(* every interrupt of the kind, whether or not a node here was reached.     *)
Post == /\ evTime' = IF evTime < MaxTime THEN evTime + 1 ELSE evTime
        /\ event' = TRUE
        /\ irq' = FALSE
        /\ UNCHANGED <<node_vars, mark_vars, reached, fence_vars, sig_vars, list_vars,
                       file_vars, caller_vars, thread_vars>>
PostEvent == irq /\ Post
PostOther == ~irq /\ Post

(* zx_thread_wait returns for the event; the timestamp is read as an        *)
(* argument before do_process_sync_list takes the lock.                     *)
ThreadWake ==
  /\ tpc = "wait" /\ event
  /\ event' = FALSE
  /\ ttime' = evTime
  /\ tpc' = "process"
  /\ UNCHANGED <<node_vars, mark_vars, reached, fence_vars, sig_vars, list_vars,
                 file_vars, caller_vars, irq, evTime>>

(* The PM core wakes the thread to freeze it: the list is processed all the *)
(* same, with the timestamp of the last event.                              *)
FreezeWake ==
  /\ tpc = "wait" /\ ~event
  /\ ttime' = evTime
  /\ tpc' = "process"
  /\ UNCHANGED <<node_vars, mark_vars, reached, fence_vars, sig_vars, list_vars,
                 file_vars, caller_vars, post_vars>>

(* do_process_sync_list: nodes of pending listed fences are marked, and a   *)
(* fence whose nodes are all marked is signaled.  (The timestamp a fence    *)
(* gets while it stays pending is left out: it is overwritten when the      *)
(* fence is signaled and no merge reads it before.)                         *)
Found == {n \in reached \ nsig : \E f \in listed \ fsig : n \in held[f]}
Complete == {f \in listed \ fsig : held[f] \subseteq nsig \cup Found}

ThreadProcess ==
  /\ tpc = "process"
  /\ nsig' = nsig \cup Found
  /\ ntime' = [n \in Nodes |-> IF n \in Found THEN ttime ELSE ntime[n]]
  /\ fsig' = fsig \cup Complete
  /\ ftime' = [f \in Fences |-> IF f \in Complete THEN ttime ELSE ftime[f]]
  /\ tpc' \in {"wait", "frozen"}
  /\ UNCHANGED <<node_vars, reached, fence_vars, list_vars, file_vars, caller_vars,
                 post_vars, ttime>>

(* Mutant of ThreadThaw: the event is reset after the freeze.               *)
ThawAndReset ==
  /\ tpc = "frozen"
  /\ tpc' = "wait"
  /\ event' = FALSE
  /\ UNCHANGED <<node_vars, mark_vars, reached, fence_vars, sig_vars, list_vars,
                 file_vars, caller_vars, irq, evTime, ttime>>

(* zx_try_to_freeze returns.                                                *)
ThreadThaw ==
  /\ tpc = "frozen"
  /\ tpc' = "wait"
  /\ UNCHANGED <<node_vars, mark_vars, reached, fence_vars, sig_vars, list_vars,
                 file_vars, caller_vars, post_vars, ttime>>

-------------------------------------------------------------------------------
(* Nothing undefined has happened: no merge has freed a fence it had        *)
(* installed, and no file was released before its fence was listed.         *)
Defined == \A c \in Callers : /\ cpc[c] # "wild"
                              /\ cpc[c] \in {"new", "list"} => cnew[c] \in files

Going(c) == \/ \E got \in SUBSET Nodes : MergeCopy(c, got)
            \/ MergeGetFd(c) \/ MergeList(c) \/ CreateList(c)
            \/ MergeReturn(c) \/ MergeUndo(c) \/ MergeCopyFault(c)

Files == \E f \in Fences : \/ \E c \in Callers, n \in Nodes : CreateFd(c, f, n)
                           \/ Close(f) \/ ReleaseUnlist(f) \/ ReleaseFree(f)

Starts == \/ \E c \in Callers, f, g, new \in Fences : MergeStart(c, f, g, new)
          \/ \E g \in Fences : MergeNoMemory(g)
          \/ \E c \in Callers, f \in Fences : WaitStart(c, f)

Syncd == ThreadWake \/ FreezeWake \/ ThreadProcess \/ ThreadThaw

Next == /\ Defined
        /\ \/ Files
           \/ Starts
           \/ \E n \in Nodes : Reach(n)
           \/ \E c \in Callers : Going(c) \/ WaitEnd(c) \/ WaitTimeout(c)
           \/ PostEvent \/ PostOther
           \/ Syncd

Spec == Init /\ [][Next]_vars

(* The core posts an event for what the GPU passed; syncd runs when it is   *)
(* woken and frozen tasks are thawed.  Nobody has to go on with an ioctl,   *)
(* and no event comes for other work.                                       *)
Fairness == /\ WF_vars(Defined /\ PostEvent)
            /\ WF_vars(Defined /\ ThreadWake)
            /\ WF_vars(Defined /\ ThreadProcess)
            /\ WF_vars(Defined /\ ThreadThaw)
FairSpec == Spec /\ Fairness

-------------------------------------------------------------------------------
(***************************************************************************)
(* Properties.                                                             *)
(***************************************************************************)

(* Every variable stays in its set; counts are numbers.                     *)
TypeOK ==
  /\ nref \in [Nodes -> Nat]
  /\ nlife \in [Nodes -> {"unborn", "live", "freed"}]
  /\ nsig \subseteq Nodes /\ reached \subseteq Nodes
  /\ ntime \in [Nodes -> 0 .. MaxTime]
  /\ flife \in [Fences -> {"unborn", "live", "freed"}]
  /\ held \in [Fences -> SUBSET Nodes] /\ needs \in [Fences -> SUBSET Nodes]
  /\ num \in [Fences -> Nat] /\ cap \in [Fences -> Nat]
  /\ merged \subseteq Fences /\ fsig \subseteq Fences /\ ftime \in [Fences -> 0 .. MaxTime]
  /\ listed \subseteq Fences /\ late \subseteq Fences /\ files \subseteq Fences
  /\ fds \subseteq Fences /\ leaked \subseteq Fences
  /\ cpc \in [Callers -> {"idle", "waiting", "second", "first", "getfd", "list",
                          "return", "undo", "new", "wild"}]
  /\ c1 \in [Callers -> Fences \cup {None}]
  /\ c2 \in [Callers -> Fences \cup {None}]
  /\ cnew \in [Callers -> Fences \cup {None}]
  /\ irq \in BOOLEAN /\ event \in BOOLEAN /\ evTime \in 0 .. MaxTime
  /\ tpc \in {"wait", "process", "frozen"} /\ ttime \in 0 .. MaxTime

Holders(n) == {f \in Fences : n \in held[f]}
Failed(f) == \E c \in Callers : cnew[c] = f /\ cpc[c] = "undo"

(* ref_cnt of a node counts exactly the arrays it is in, also of fences     *)
(* that a merge builds or gives up half-way, and a node in an array is not  *)
(* freed: acquire runs under dev->lock and release does not.                *)
NodeRefs == \A n \in Nodes : /\ nref[n] = Cardinality(Holders(n))
                             /\ Holders(n) # {} <=> nlife[n] = "live"

(* Fence->syncs never overflows and holds every node once, although two     *)
(* sources may share nodes and the array grows in the middle of a copy.     *)
ArrayFits == \A f \in Fences : num[f] = Cardinality(held[f]) /\ num[f] <= cap[f]

(* What a file stands for survives merging: a node a fence needs is in its  *)
(* array unless it was signaled before, and a fence is signaled only when   *)
(* the GPU has passed everything it stands for, through any tree of merges  *)
(* and with sources closed and events processed between the two copies.     *)
MergeLosesNothing ==
  \A f \in Fences : flife[f] = "live" /\ ~Failed(f) =>
    /\ needs[f] \subseteq held[f] \cup nsig
    /\ f \in fsig => needs[f] \subseteq reached

(* A fence that can be reached is not freed: neither one that a file or the *)
(* list refers to, nor one that a merge or a wait works on or an ioctl is   *)
(* about to list.  The code breaks this in two ways, and no other: a merge  *)
(* whose copy_to_user fails after the file is installed (zx_sync.c:386-393) *)
(* and a close between the installation and the listing (365-373, 893-924). *)
Reachable ==
  {f \in Fences : \/ f \in files \cup listed
                  \/ \E c \in Callers : \/ f \in {c1[c], c2[c]}
                                        \/ cpc[c] \in {"new", "list"} /\ f = cnew[c]}
OpenIsLive == Defined => \A f \in Reachable : flife[f] = "live"

(* A file that was listed before the GPU had passed all its nodes cannot    *)
(* miss the event of the last, merged or not: syncd is running or will be   *)
(* woken.                                                                   *)
Awaited(f) == flife[f] = "live" /\ f \in listed \ fsig /\ held[f] \subseteq reached
WillRun == irq \/ event \/ tpc = "process"
NoLostWakeup == \A f \in Fences : Awaited(f) /\ f \notin late => WillRun


(* The files implement the abstract timeline: merging is atomic, a merged   *)
(* file stands for what its sources stood for, and signaling is final.      *)
Timeline == INSTANCE SyncTimeline WITH
              open <- files,
              points <- [f \in Fences |-> IF f \in files THEN needs[f] ELSE {}],
              done <- fsig \cap files
TimelineSpec == Timeline!Init /\ [][Timeline!Next \/ ~Defined']_(Timeline!vars)
===============================================================================
