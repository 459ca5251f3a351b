---------------------------- MODULE SyncFenceProofs ----------------------------
(***************************************************************************)
(* Proofs about SyncFence, for any number of nodes, fences, callers and    *)
(* any sizes of the node arrays, whatever fails and whenever files are     *)
(* closed.                                                                 *)
(*                                                                         *)
(* Structure ties the callers' control state to the fences: whose fence is *)
(* being merged, which files their ioctls keep, what the list may hold.    *)
(* It holds as long as nothing undefined has happened (Defined), and so    *)
(* does what a merge owes its sources (Points); the counts (NodeRefs,      *)
(* ArrayFits), what a fence stands for (Owed) and the pending wake-ups     *)
(* hold in every reachable state.                                          *)
(***************************************************************************)
EXTENDS SyncFence, FiniteSetTheorems, TLAPS

InMerge(c) == cpc[c] \in {"second", "first", "getfd", "list", "return", "undo"}
Building(c) == cpc[c] \in {"second", "first", "getfd", "undo"}

(* Callers, files and the list agree.                                       *)
Structure ==
  /\ \A c \in Callers : InMerge(c) => cnew[c] \in Fences /\ c1[c] \in files /\ c2[c] \in files
  /\ \A c \in Callers : Building(c) =>
       cnew[c] \notin files /\ flife[cnew[c]] = "live" /\ cnew[c] \in merged
  /\ \A c \in Callers : cpc[c] \in {"new", "list"} => cnew[c] \in files
  /\ \A c \in Callers : ~InMerge(c) => c2[c] = None /\ (cpc[c] # "new" => cnew[c] = None)
  /\ \A c \in Callers : c1[c] # None => c1[c] \in files
  /\ \A c, d \in Callers : Building(c) /\ Building(d) /\ cnew[c] = cnew[d] => c = d
  /\ \A c \in Callers : cpc[c] = "return" => flife[cnew[c]] # "unborn"
  /\ fds \subseteq files /\ leaked \subseteq files
  /\ \A f \in files : flife[f] = "live"
  /\ listed \subseteq files
  /\ \A f \in Fences : flife[f] # "live" =>
       held[f] = {} /\ needs[f] = {} /\ num[f] = 0 /\ f \notin fsig /\ f \notin merged

(* What a fence stands for: its array holds nothing else, and lacks only    *)
(* signaled nodes.                                                          *)
Owed ==
  /\ nsig \subseteq reached
  /\ \A f \in Fences : held[f] \subseteq needs[f]
  /\ \A f \in Fences : flife[f] = "live" /\ ~Failed(f) =>
       needs[f] \subseteq held[f] \cup nsig /\ (f \in fsig => needs[f] \subseteq nsig)

(* A fence under construction stands for the sources copied so far.         *)
Points ==
  \A c \in Callers :
    /\ cpc[c] = "second" => needs[cnew[c]] = {}
    /\ cpc[c] = "first" => needs[cnew[c]] = needs[c2[c]]
    /\ cpc[c] = "getfd" => needs[cnew[c]] = needs[c1[c]] \cup needs[c2[c]]

IInv == /\ TypeOK /\ NodeRefs /\ ArrayFits /\ Owed /\ NoLostWakeup
        /\ Defined => Structure /\ Points

(* What keeps a node alive is counted, and a file is live.                  *)
LEMMA HoldersFinite ==
  ASSUME NEW n PROVE IsFiniteSet(Holders(n)) /\ Cardinality(Holders(n)) \in Nat
<1>1. Holders(n) \in SUBSET Fences
  BY DEF Holders
<1>. QED
  BY <1>1, FencesAssumption, FS_Subset, FS_CardinalityType

(* A node in an array has a positive count.                                 *)
LEMMA HeldCounts ==
  ASSUME TypeOK, NodeRefs, NEW f \in Fences, NEW n \in held[f]
  PROVE  n \in Nodes /\ nref[n] > 0
<1>1. n \in Nodes /\ f \in Holders(n)
  BY DEF TypeOK, Holders
<1>2. Cardinality(Holders(n)) # 0
  BY <1>1, HoldersFinite, FS_EmptySet
<1>. QED
  BY <1>1, <1>2, HoldersFinite DEF NodeRefs

(* A set of nodes has a cardinality.                                        *)
LEMMA GotCounts ==
  ASSUME NEW S \in SUBSET Nodes
  PROVE  IsFiniteSet(S) /\ Cardinality(S) \in Nat /\ Cardinality(Nodes) \in Nat
BY NodesAssumption, FS_Subset, FS_CardinalityType


-------------------------------------------------------------------------------
(* Every step keeps every variable in its range.                            *)
LEMMA TypeStep ==
  TypeOK /\ Structure /\ NodeRefs /\ Next => TypeOK'
<1>. SUFFICES ASSUME TypeOK, Structure, NodeRefs, Next PROVE TypeOK'
  OBVIOUS
<1>. USE FencesAssumption, ArrayAssumption, TimeAssumption
     DEF TypeOK, node_vars, mark_vars, fence_vars, sig_vars,
       list_vars, file_vars, caller_vars, post_vars, thread_vars
<1>1. ASSUME NEW c \in Callers, NEW f \in Fences, NEW n \in Nodes, CreateFd(c, f, n)
      PROVE  TypeOK'
  BY <1>1 DEF CreateFd
<1>2. ASSUME NEW f \in Fences, Close(f) PROVE TypeOK'
  BY <1>2 DEF Close
<1>3. ASSUME NEW f \in Fences, ReleaseUnlist(f) PROVE TypeOK'
  BY <1>3 DEF ReleaseUnlist
<1>4. ASSUME NEW f \in Fences, ReleaseFree(f) PROVE TypeOK'
  BY <1>4, HeldCounts DEF ReleaseFree, FreeFence
<1>5. ASSUME NEW n \in Nodes, Reach(n) PROVE TypeOK'
  BY <1>5 DEF Reach
<1>6. ASSUME NEW c \in Callers, NEW f \in Fences,
             NEW g \in Fences, NEW new \in Fences, MergeStart(c, f, g, new)
      PROVE  TypeOK'
  BY <1>6 DEF MergeStart
<1>7. ASSUME NEW g \in Fences, MergeNoMemory(g) PROVE TypeOK'
  BY <1>7 DEF MergeNoMemory
<1>8. ASSUME NEW c \in Callers, NEW got \in SUBSET Nodes, MergeCopy(c, got)
      PROVE  TypeOK'
  <2>. DEFINE dst == cnew[c]
              src == Source(c)
  <2>1. dst \in Fences /\ src \in Fences /\ Cardinality(got) \in Nat /\ Cardinality(Nodes) \in Nat
    BY <1>8, GotCounts DEF MergeCopy, Source, Structure, InMerge
  <2>2. TimesSeen(src, dst) \subseteq 0 .. MaxTime
    BY <2>1 DEF TimesSeen
  <2>3. MergeOne(src, dst, got, got # ToAppend(src, dst))
    BY <1>8 DEF MergeCopy
  <2>4. PICK newCap \in {cap[dst] + k * ExtraNodes : k \in 0 .. Cardinality(Nodes)} :
          cap' = [cap EXCEPT ![dst] = newCap]
    BY <2>3 DEF MergeOne
  <2>5. newCap \in Nat
    BY <2>1
  <2>6. cap' \in [Fences -> Nat]
    BY <2>1, <2>4, <2>5
  <2>7. /\ held' \in [Fences -> SUBSET Nodes] /\ needs' \in [Fences -> SUBSET Nodes]
        /\ num' \in [Fences -> Nat] /\ nref' \in [Nodes -> Nat]
        /\ fsig' \subseteq Fences /\ ftime' \in [Fences -> 0 .. MaxTime]
    BY <2>1, <2>2, <2>3 DEF MergeOne, TakeLatest
  <2>. QED
    BY <1>8, <2>6, <2>7 DEF MergeCopy
<1>9. ASSUME NEW c \in Callers, MergeGetFd(c) PROVE TypeOK'
  BY <1>9 DEF MergeGetFd, Structure, InMerge
<1>10. ASSUME NEW c \in Callers, MergeList(c) PROVE TypeOK'
  BY <1>10 DEF MergeList, AddToList, Structure, InMerge
<1>11. ASSUME NEW c \in Callers, MergeReturn(c) PROVE TypeOK'
  BY <1>11 DEF MergeReturn, Finish, Structure, InMerge
<1>12. ASSUME NEW c \in Callers, MergeUndo(c) PROVE TypeOK'
  BY <1>12, HeldCounts DEF MergeUndo, FreeFence, Finish, Structure, InMerge
<1>13. ASSUME NEW c \in Callers, NEW f \in Fences, WaitStart(c, f) PROVE TypeOK'
  BY <1>13 DEF WaitStart
<1>14. ASSUME NEW c \in Callers, WaitEnd(c) PROVE TypeOK'
  BY <1>14 DEF WaitEnd, Finish
<1>15. ASSUME NEW c \in Callers, WaitTimeout(c) PROVE TypeOK'
  BY <1>15 DEF WaitTimeout, Finish
<1>16. ASSUME PostEvent PROVE TypeOK'
  <2>1. evTime' \in 0 .. MaxTime
    BY <1>16 DEF PostEvent, Post
  <2>. QED
    BY <1>16, <2>1 DEF PostEvent, Post
<1>17. ASSUME PostOther PROVE TypeOK'
  <2>1. evTime' \in 0 .. MaxTime
    BY <1>17 DEF PostOther, Post
  <2>. QED
    BY <1>17, <2>1 DEF PostOther, Post
<1>18. ASSUME ThreadWake PROVE TypeOK'
  BY <1>18 DEF ThreadWake
<1>19. ASSUME FreezeWake PROVE TypeOK'
  BY <1>19 DEF FreezeWake
<1>20. ASSUME ThreadProcess PROVE TypeOK'
  BY <1>20 DEF ThreadProcess, Found, Complete
<1>21. ASSUME ThreadThaw PROVE TypeOK'
  BY <1>21 DEF ThreadThaw
<1>22. ASSUME NEW c \in Callers, CreateList(c) PROVE TypeOK'
  BY <1>22 DEF CreateList, AddToList, Structure
<1>23. ASSUME NEW c \in Callers, MergeCopyFault(c) PROVE TypeOK'
  <2>1. CASE FreeFence(cnew[c])
    BY <1>23, <2>1, HeldCounts DEF MergeCopyFault, FreeFence, Structure, InMerge
  <2>2. CASE UNCHANGED <<node_vars, fence_vars, sig_vars>>
    BY <1>23, <2>2 DEF MergeCopyFault
  <2>. QED
    BY <1>23, <2>1, <2>2 DEF MergeCopyFault
<1>. QED
  BY <1>1, <1>2, <1>3, <1>4, <1>5, <1>6, <1>7, <1>8, <1>9, <1>10, <1>11,
     <1>12, <1>13, <1>14, <1>15, <1>16, <1>17, <1>18, <1>19, <1>20, <1>21,
     <1>22, <1>23
  DEF Next, Files, Starts, Going, Syncd

(* The control state and the sets of fences stay in agreement.              *)
LEMMA StructureStep ==
  TypeOK /\ Structure /\ Next /\ Defined' => Structure'
<1>. SUFFICES ASSUME TypeOK, Structure, Next, Defined' PROVE Structure'
  OBVIOUS
<1>. USE FencesAssumption
     DEF TypeOK, node_vars, mark_vars, fence_vars, sig_vars,
       list_vars, file_vars, caller_vars, post_vars, thread_vars, Structure, InMerge, Building
<1>1. ASSUME NEW c \in Callers, NEW f \in Fences, NEW n \in Nodes, CreateFd(c, f, n)
      PROVE  Structure'
  BY <1>1 DEF CreateFd
<1>2. ASSUME NEW f \in Fences, Close(f) PROVE Structure'
  BY <1>2 DEF Close
<1>3. ASSUME NEW f \in Fences, ReleaseUnlist(f) PROVE Structure'
  BY <1>3 DEF ReleaseUnlist, InUse, Defined
<1>4. ASSUME NEW f \in Fences, ReleaseFree(f) PROVE Structure'
  BY <1>4 DEF ReleaseFree, FreeFence
<1>5. ASSUME NEW n \in Nodes, Reach(n) PROVE Structure'
  BY <1>5 DEF Reach
<1>6. ASSUME NEW c \in Callers, NEW f \in Fences,
             NEW g \in Fences, NEW new \in Fences, MergeStart(c, f, g, new)
      PROVE  Structure'
  BY <1>6 DEF MergeStart
<1>7. ASSUME NEW g \in Fences, MergeNoMemory(g) PROVE Structure'
  BY <1>7 DEF MergeNoMemory
<1>8. ASSUME NEW c \in Callers, NEW got \in SUBSET Nodes, MergeCopy(c, got)
      PROVE  Structure'
  BY <1>8 DEF MergeCopy, Source, MergeOne
<1>9. ASSUME NEW c \in Callers, MergeGetFd(c) PROVE Structure'
  BY <1>9 DEF MergeGetFd
<1>10. ASSUME NEW c \in Callers, MergeList(c) PROVE Structure'
  BY <1>10 DEF MergeList, AddToList
<1>11. ASSUME NEW c \in Callers, MergeReturn(c) PROVE Structure'
  BY <1>11 DEF MergeReturn, Finish
<1>12. ASSUME NEW c \in Callers, MergeUndo(c) PROVE Structure'
  BY <1>12 DEF MergeUndo, FreeFence, Finish
<1>13. ASSUME NEW c \in Callers, NEW f \in Fences, WaitStart(c, f) PROVE Structure'
  BY <1>13 DEF WaitStart
<1>14. ASSUME NEW c \in Callers, WaitEnd(c) PROVE Structure'
  BY <1>14 DEF WaitEnd, Finish
<1>15. ASSUME NEW c \in Callers, WaitTimeout(c) PROVE Structure'
  BY <1>15 DEF WaitTimeout, Finish
<1>16. ASSUME PostEvent PROVE Structure'
  BY <1>16 DEF PostEvent, Post
<1>17. ASSUME PostOther PROVE Structure'
  BY <1>17 DEF PostOther, Post
<1>18. ASSUME ThreadWake PROVE Structure'
  BY <1>18 DEF ThreadWake
<1>19. ASSUME FreezeWake PROVE Structure'
  BY <1>19 DEF FreezeWake
<1>20. ASSUME ThreadProcess PROVE Structure'
  BY <1>20 DEF ThreadProcess, Complete
<1>21. ASSUME ThreadThaw PROVE Structure'
  BY <1>21 DEF ThreadThaw
<1>22. ASSUME NEW c \in Callers, CreateList(c) PROVE Structure'
  BY <1>22 DEF CreateList, AddToList
<1>23. ASSUME NEW c \in Callers, MergeCopyFault(c) PROVE Structure'
  BY <1>23 DEF MergeCopyFault, Defined
<1>. QED
  BY <1>1, <1>2, <1>3, <1>4, <1>5, <1>6, <1>7, <1>8, <1>9, <1>10, <1>11,
     <1>12, <1>13, <1>14, <1>15, <1>16, <1>17, <1>18, <1>19, <1>20, <1>21,
     <1>22, <1>23
  DEF Next, Files, Starts, Going, Syncd

-------------------------------------------------------------------------------
(* A fence that is freed takes its reference from every node it holds, and  *)
(* a node dies with its last reference.                                     *)
LEMMA FreeKeepsRefs ==
  ASSUME TypeOK, NodeRefs, NEW f \in Fences, FreeFence(f)
  PROVE  NodeRefs'
<1>. SUFFICES ASSUME NEW n \in Nodes
              PROVE  /\ nref'[n] = Cardinality(Holders(n)')
                     /\ Holders(n)' # {} <=> nlife'[n] = "live"
  BY DEF NodeRefs
<1>1. Holders(n)' = Holders(n) \ {f}
  BY DEF Holders, FreeFence, TypeOK
<1>2. CASE n \in held[f]
  <2>1. f \in Holders(n) /\ nref[n] = Cardinality(Holders(n)) /\ nref[n] > 0
    BY <1>2, HeldCounts DEF Holders, NodeRefs
  <2>2. Cardinality(Holders(n)') = nref[n] - 1 /\ IsFiniteSet(Holders(n)')
    BY <1>1, <2>1, HoldersFinite, FS_RemoveElement
  <2>3. Holders(n)' = {} <=> nref[n] = 1
    BY <2>1, <2>2, FS_EmptySet DEF TypeOK
  <2>4. nlife[n] = "live"
    BY <2>1 DEF NodeRefs
  <2>. QED
    BY <1>2, <2>2, <2>3, <2>4 DEF FreeFence, TypeOK
<1>3. CASE n \notin held[f]
  <2>1. Holders(n)' = Holders(n)
    BY <1>1, <1>3 DEF Holders
  <2>. QED
    BY <1>3, <2>1 DEF FreeFence, TypeOK, NodeRefs
<1>. QED
  BY <1>2, <1>3

(* A merge step adds one reference to every node it appends.                *)
LEMMA MergeKeepsRefs ==
  ASSUME TypeOK, Structure, NodeRefs, NEW c \in Callers, NEW got \in SUBSET Nodes,
         MergeCopy(c, got)
  PROVE  NodeRefs'
<1>. DEFINE dst == cnew[c]
            src == Source(c)
<1>1. /\ dst \in Fences /\ src \in Fences /\ got \subseteq held[src] /\ got \cap held[dst] = {}
      /\ held' = [held EXCEPT ![dst] = held[dst] \cup got] /\ nlife' = nlife
      /\ nref' = [n \in Nodes |-> IF n \in got THEN nref[n] + 1 ELSE nref[n]]
  BY DEF MergeCopy, MergeOne, ToAppend, Source, Structure, InMerge, TypeOK
<1>. SUFFICES ASSUME NEW n \in Nodes
              PROVE  /\ nref'[n] = Cardinality(Holders(n)')
                     /\ Holders(n)' # {} <=> nlife'[n] = "live"
  BY DEF NodeRefs
<1>2. CASE n \in got
  <2>1. Holders(n)' = Holders(n) \cup {dst} /\ dst \notin Holders(n) /\ src \in Holders(n)
    BY <1>1, <1>2 DEF Holders, TypeOK
  <2>5. Cardinality(Holders(n) \cup {dst}) = Cardinality(Holders(n)) + 1
    <3>1. IsFiniteSet(Holders(n))
      BY HoldersFinite
    <3>. HIDE DEF dst, src
    <3>. QED
      BY <2>1, <3>1, FS_AddElement
  <2>2. Cardinality(Holders(n)') = Cardinality(Holders(n)) + 1
    BY <2>1, <2>5
  <2>. QED
    BY <1>1, <1>2, <2>1, <2>2 DEF NodeRefs
<1>3. CASE n \notin got
  <2>1. Holders(n)' = Holders(n)
    BY <1>1, <1>3 DEF Holders, TypeOK
  <2>. QED
    BY <1>1, <1>3, <2>1 DEF NodeRefs
<1>. QED
  BY <1>2, <1>3

(* Node references stay exact.                                              *)
LEMMA NodeRefsStep ==
  TypeOK /\ Structure /\ NodeRefs /\ Next => NodeRefs'
<1>. SUFFICES ASSUME TypeOK, Structure, NodeRefs, Next PROVE NodeRefs'
  OBVIOUS
<1>. USE DEF NodeRefs, Holders, node_vars, mark_vars, fence_vars, sig_vars,
       list_vars, file_vars, caller_vars, post_vars, thread_vars
<1>1. ASSUME NEW c \in Callers, NEW f \in Fences, NEW n \in Nodes, CreateFd(c, f, n)
      PROVE  NodeRefs'
  <2>1. \A m \in Nodes \ {n} : Holders(m)' = Holders(m)
    BY <1>1 DEF CreateFd, Structure, TypeOK
  <2>2. Holders(n) = {}
    BY <1>1 DEF CreateFd
  <2>3. Holders(n)' = {f}
    BY <1>1, <2>2 DEF CreateFd, TypeOK
  <2>4. Cardinality(Holders(n)') = 1
    BY <2>3, FS_Singleton
  <2>5. \A m \in Nodes \ {n} : nref'[m] = nref[m] /\ nlife'[m] = nlife[m]
    BY <1>1 DEF CreateFd, TypeOK
  <2>6. nref'[n] = 1 /\ nlife'[n] = "live"
    BY <1>1 DEF CreateFd, TypeOK
  <2>7. ASSUME NEW m \in Nodes
        PROVE  nref'[m] = Cardinality(Holders(m)') /\ (Holders(m)' # {} <=> nlife'[m] = "live")
    <3>. HIDE DEF Holders
    <3>1. CASE m = n
      BY <3>1, <2>3, <2>4, <2>6
    <3>2. CASE m # n
      BY <3>2, <2>1, <2>5
    <3>. QED
      BY <3>1, <3>2
  <2>. QED
    BY <2>7
<1>2. ASSUME NEW f \in Fences, Close(f) PROVE NodeRefs'
  BY <1>2 DEF Close
<1>3. ASSUME NEW f \in Fences, ReleaseUnlist(f) PROVE NodeRefs'
  BY <1>3 DEF ReleaseUnlist
<1>4. ASSUME NEW f \in Fences, ReleaseFree(f) PROVE NodeRefs'
  BY <1>4, FreeKeepsRefs DEF ReleaseFree
<1>5. ASSUME NEW n \in Nodes, Reach(n) PROVE NodeRefs'
  BY <1>5 DEF Reach
<1>6. ASSUME NEW c \in Callers, NEW f \in Fences,
             NEW g \in Fences, NEW new \in Fences, MergeStart(c, f, g, new)
      PROVE  NodeRefs'
  BY <1>6 DEF MergeStart
<1>7. ASSUME NEW g \in Fences, MergeNoMemory(g) PROVE NodeRefs'
  BY <1>7 DEF MergeNoMemory
<1>8. ASSUME NEW c \in Callers, NEW got \in SUBSET Nodes, MergeCopy(c, got)
      PROVE  NodeRefs'
  BY <1>8, MergeKeepsRefs
<1>9. ASSUME NEW c \in Callers, MergeGetFd(c) PROVE NodeRefs'
  BY <1>9 DEF MergeGetFd
<1>10. ASSUME NEW c \in Callers, MergeList(c) PROVE NodeRefs'
  BY <1>10 DEF MergeList, AddToList
<1>11. ASSUME NEW c \in Callers, MergeReturn(c) PROVE NodeRefs'
  BY <1>11 DEF MergeReturn, Finish
<1>12. ASSUME NEW c \in Callers, MergeUndo(c) PROVE NodeRefs'
  BY <1>12, FreeKeepsRefs DEF MergeUndo, Structure, InMerge
<1>13. ASSUME NEW c \in Callers, NEW f \in Fences, WaitStart(c, f) PROVE NodeRefs'
  BY <1>13 DEF WaitStart
<1>14. ASSUME NEW c \in Callers, WaitEnd(c) PROVE NodeRefs'
  BY <1>14 DEF WaitEnd, Finish
<1>15. ASSUME NEW c \in Callers, WaitTimeout(c) PROVE NodeRefs'
  BY <1>15 DEF WaitTimeout, Finish
<1>16. ASSUME PostEvent PROVE NodeRefs'
  BY <1>16 DEF PostEvent, Post
<1>17. ASSUME PostOther PROVE NodeRefs'
  BY <1>17 DEF PostOther, Post
<1>18. ASSUME ThreadWake PROVE NodeRefs'
  BY <1>18 DEF ThreadWake
<1>19. ASSUME FreezeWake PROVE NodeRefs'
  BY <1>19 DEF FreezeWake
<1>20. ASSUME ThreadProcess PROVE NodeRefs'
  BY <1>20 DEF ThreadProcess, Found, Complete
<1>21. ASSUME ThreadThaw PROVE NodeRefs'
  BY <1>21 DEF ThreadThaw
<1>22. ASSUME NEW c \in Callers, CreateList(c) PROVE NodeRefs'
  BY <1>22 DEF CreateList, AddToList
<1>23. ASSUME NEW c \in Callers, MergeCopyFault(c) PROVE NodeRefs'
  <2>1. CASE FreeFence(cnew[c])
    BY <1>23, <2>1, FreeKeepsRefs DEF MergeCopyFault, Structure, InMerge
  <2>2. CASE UNCHANGED <<node_vars, fence_vars, sig_vars>>
    BY <2>2
  <2>. QED
    BY <1>23, <2>1, <2>2 DEF MergeCopyFault
<1>. QED
  BY <1>1, <1>2, <1>3, <1>4, <1>5, <1>6, <1>7, <1>8, <1>9, <1>10, <1>11,
     <1>12, <1>13, <1>14, <1>15, <1>16, <1>17, <1>18, <1>19, <1>20, <1>21,
     <1>22, <1>23
  DEF Next, Files, Starts, Going, Syncd

(* The array of every fence has room for what it holds, each node once.     *)
LEMMA ArrayStep ==
  TypeOK /\ Structure /\ ArrayFits /\ Next => ArrayFits'
<1>. SUFFICES ASSUME TypeOK, Structure, ArrayFits, Next PROVE ArrayFits'
  OBVIOUS
<1>. USE DEF ArrayFits, node_vars, mark_vars, fence_vars, sig_vars,
       list_vars, file_vars, caller_vars, post_vars, thread_vars
<1>1. ASSUME NEW c \in Callers, NEW f \in Fences, NEW n \in Nodes, CreateFd(c, f, n)
      PROVE  ArrayFits'
  <2>1. Cardinality({n}) = 1
    BY FS_Singleton
  <2>. QED
    BY <1>1, <2>1, ArrayAssumption DEF CreateFd, TypeOK
<1>2. ASSUME NEW f \in Fences, Close(f) PROVE ArrayFits'
  BY <1>2 DEF Close
<1>3. ASSUME NEW f \in Fences, ReleaseUnlist(f) PROVE ArrayFits'
  BY <1>3 DEF ReleaseUnlist
<1>4. ASSUME NEW f \in Fences, ReleaseFree(f) PROVE ArrayFits'
  BY <1>4, FS_EmptySet DEF ReleaseFree, FreeFence, TypeOK
<1>5. ASSUME NEW n \in Nodes, Reach(n) PROVE ArrayFits'
  BY <1>5 DEF Reach
<1>6. ASSUME NEW c \in Callers, NEW f \in Fences,
             NEW g \in Fences, NEW new \in Fences, MergeStart(c, f, g, new)
      PROVE  ArrayFits'
  <2>1. held[new] = {} /\ num[new] = 0
    BY <1>6 DEF MergeStart, Structure
  <2>. QED
    BY <1>6, <2>1, ArrayAssumption, FS_EmptySet DEF MergeStart, TypeOK
<1>7. ASSUME NEW g \in Fences, MergeNoMemory(g) PROVE ArrayFits'
  BY <1>7 DEF MergeNoMemory
<1>8. ASSUME NEW c \in Callers, NEW got \in SUBSET Nodes, MergeCopy(c, got)
      PROVE  ArrayFits'
  <2>. DEFINE dst == cnew[c]
  <2>1. dst \in Fences /\ got \cap held[dst] = {} /\ held[dst] \in SUBSET Nodes
    BY <1>8 DEF MergeCopy, ToAppend, Structure, InMerge, TypeOK
  <2>2. MergeOne(Source(c), dst, got, got # ToAppend(Source(c), dst))
    BY <1>8 DEF MergeCopy
  <2>3. PICK newCap \in {cap[dst] + k * ExtraNodes : k \in 0 .. Cardinality(Nodes)} :
          /\ num[dst] + Cardinality(got) <= newCap
          /\ cap' = [cap EXCEPT ![dst] = newCap]
          /\ num' = [num EXCEPT ![dst] = num[dst] + Cardinality(got)]
          /\ held' = [held EXCEPT ![dst] = held[dst] \cup got]
    BY <2>2 DEF MergeOne
  <2>4. Cardinality(held[dst] \cup got) = Cardinality(held[dst]) + Cardinality(got)
    <3>1. IsFiniteSet(held[dst]) /\ IsFiniteSet(got) /\ held[dst] \cap got = {}
      BY <2>1, GotCounts
    <3>2. Cardinality(held[dst] \cap got) = 0
      BY <3>1, FS_EmptySet
    <3>3. Cardinality(held[dst]) \in Nat /\ Cardinality(got) \in Nat
      BY <2>1, GotCounts
    <3>4. Cardinality(held[dst] \cup got)
            = Cardinality(held[dst]) + Cardinality(got) - Cardinality(held[dst] \cap got)
      BY <3>1, FS_Union
    <3>. QED
      BY <3>2, <3>3, <3>4
  <2>. QED
    BY <2>1, <2>3, <2>4 DEF TypeOK
<1>9. ASSUME NEW c \in Callers, MergeGetFd(c) PROVE ArrayFits'
  BY <1>9 DEF MergeGetFd
<1>10. ASSUME NEW c \in Callers, MergeList(c) PROVE ArrayFits'
  BY <1>10 DEF MergeList, AddToList
<1>11. ASSUME NEW c \in Callers, MergeReturn(c) PROVE ArrayFits'
  BY <1>11 DEF MergeReturn, Finish
<1>12. ASSUME NEW c \in Callers, MergeUndo(c) PROVE ArrayFits'
  BY <1>12, FS_EmptySet DEF MergeUndo, FreeFence, TypeOK, Structure, InMerge
<1>13. ASSUME NEW c \in Callers, NEW f \in Fences, WaitStart(c, f) PROVE ArrayFits'
  BY <1>13 DEF WaitStart
<1>14. ASSUME NEW c \in Callers, WaitEnd(c) PROVE ArrayFits'
  BY <1>14 DEF WaitEnd, Finish
<1>15. ASSUME NEW c \in Callers, WaitTimeout(c) PROVE ArrayFits'
  BY <1>15 DEF WaitTimeout, Finish
<1>16. ASSUME PostEvent PROVE ArrayFits'
  BY <1>16 DEF PostEvent, Post
<1>17. ASSUME PostOther PROVE ArrayFits'
  BY <1>17 DEF PostOther, Post
<1>18. ASSUME ThreadWake PROVE ArrayFits'
  BY <1>18 DEF ThreadWake
<1>19. ASSUME FreezeWake PROVE ArrayFits'
  BY <1>19 DEF FreezeWake
<1>20. ASSUME ThreadProcess PROVE ArrayFits'
  BY <1>20 DEF ThreadProcess, Found, Complete
<1>21. ASSUME ThreadThaw PROVE ArrayFits'
  BY <1>21 DEF ThreadThaw
<1>22. ASSUME NEW c \in Callers, CreateList(c) PROVE ArrayFits'
  BY <1>22 DEF CreateList, AddToList
<1>23. ASSUME NEW c \in Callers, MergeCopyFault(c) PROVE ArrayFits'
  <2>1. CASE FreeFence(cnew[c])
    BY <1>23, <2>1, FS_EmptySet DEF MergeCopyFault, FreeFence, TypeOK, Structure, InMerge
  <2>2. CASE UNCHANGED <<node_vars, fence_vars, sig_vars>>
    BY <2>2
  <2>. QED
    BY <1>23, <2>1, <2>2 DEF MergeCopyFault
<1>. QED
  BY <1>1, <1>2, <1>3, <1>4, <1>5, <1>6, <1>7, <1>8, <1>9, <1>10, <1>11,
     <1>12, <1>13, <1>14, <1>15, <1>16, <1>17, <1>18, <1>19, <1>20, <1>21,
     <1>22, <1>23
  DEF Next, Files, Starts, Going, Syncd

-------------------------------------------------------------------------------
(* No step makes a fence lose a node it stands for, or signals it early.    *)
LEMMA OwedStep ==
  TypeOK /\ Structure /\ Owed /\ Next => Owed'
<1>. SUFFICES ASSUME TypeOK, Structure, Owed, Next PROVE Owed'
  OBVIOUS
<1>. USE FencesAssumption
     DEF TypeOK, Structure, InMerge, Building, Owed, Failed, node_vars, mark_vars,
         fence_vars, sig_vars,
       list_vars, file_vars, caller_vars, post_vars, thread_vars
<1>1. ASSUME NEW c \in Callers, NEW f \in Fences, NEW n \in Nodes, CreateFd(c, f, n)
      PROVE  Owed'
  BY <1>1 DEF CreateFd
<1>2. ASSUME NEW f \in Fences, Close(f) PROVE Owed'
  BY <1>2 DEF Close
<1>3. ASSUME NEW f \in Fences, ReleaseUnlist(f) PROVE Owed'
  BY <1>3 DEF ReleaseUnlist
<1>4. ASSUME NEW f \in Fences, ReleaseFree(f) PROVE Owed'
  <2>1. ASSUME NEW h \in Fences, flife'[h] = "live", ~Failed(h)'
        PROVE  h # f /\ flife[h] = "live" /\ ~Failed(h)
    BY <1>4, <2>1 DEF ReleaseFree, FreeFence
  <2>. QED
    BY <1>4, <2>1 DEF ReleaseFree, FreeFence
<1>5. ASSUME NEW n \in Nodes, Reach(n) PROVE Owed'
  BY <1>5 DEF Reach
<1>6. ASSUME NEW c \in Callers, NEW f \in Fences,
             NEW g \in Fences, NEW new \in Fences, MergeStart(c, f, g, new)
      PROVE  Owed'
  <2>1. ~\E d \in Callers : cnew'[d] = new /\ cpc'[d] = "undo"
    BY <1>6 DEF MergeStart
  <2>2. needs[new] = {}
    BY <1>6 DEF MergeStart
  <2>3. ASSUME NEW h \in Fences \ {new}, flife'[h] = "live"
        PROVE  flife[h] = "live" /\ (~Failed(h)' => ~Failed(h))
    BY <1>6, <2>3 DEF MergeStart
  <2>. QED
    BY <1>6, <2>1, <2>2, <2>3 DEF MergeStart
<1>7. ASSUME NEW g \in Fences, MergeNoMemory(g) PROVE Owed'
  BY <1>7 DEF MergeNoMemory
<1>8. ASSUME NEW c \in Callers, NEW got \in SUBSET Nodes, MergeCopy(c, got)
      PROVE  Owed'
  <2>. DEFINE dst == cnew[c]
              src == Source(c)
              all == ToAppend(src, dst)
  <2>1. /\ dst \in Fences \ files /\ src \in files /\ flife[src] = "live" /\ flife[dst] = "live"
        /\ ~Failed(src) /\ ~Failed(dst) /\ got \subseteq all
    BY <1>8 DEF MergeCopy, Source
  <2>2. /\ held' = [held EXCEPT ![dst] = held[dst] \cup got]
        /\ needs' = [needs EXCEPT ![dst] = needs[dst] \cup needs[src]]
        /\ fsig' = (IF got = {} /\ got = all THEN fsig ELSE fsig \ {dst})
        /\ flife' = flife /\ nsig' = nsig /\ reached' = reached
        /\ cnew' = cnew /\ cpc' = [cpc EXCEPT ![c] = IF got # all THEN "undo"
                             ELSE IF cpc[c] = "second" THEN "first" ELSE "getfd"]
    BY <1>8 DEF MergeCopy, MergeOne
  <2>3. ASSUME NEW h \in Fences \ {dst} PROVE Failed(h)' <=> Failed(h)
    BY <2>2, <2>3
  <2>4. got # all => Failed(dst)'
    BY <2>2
  <2>5. src \in fsig => needs[src] \subseteq nsig
    BY <2>1
  <2>6. needs[src] \subseteq held[src] \cup nsig
    BY <2>1
  <2>7. all = IF src \in fsig THEN {} ELSE (held[src] \ nsig) \ held[dst]
    BY DEF ToAppend
  <2>8. held'[dst] \subseteq needs'[dst]
    BY <2>1, <2>2, <2>7
  <2>9. ~Failed(dst)' => /\ needs'[dst] \subseteq held'[dst] \cup nsig
                         /\ dst \in fsig' => needs'[dst] \subseteq nsig
    <3>1. SUFFICES ASSUME got = all
                   PROVE  /\ needs'[dst] \subseteq held'[dst] \cup nsig
                          /\ dst \in fsig' => needs'[dst] \subseteq nsig
      BY <2>4
    <3>2. needs[dst] \subseteq held[dst] \cup nsig /\ (dst \in fsig => needs[dst] \subseteq nsig)
      BY <2>1
    <3>3. held'[dst] = held[dst] \cup got /\ needs'[dst] = needs[dst] \cup needs[src]
      BY <2>1, <2>2
    <3>4. dst \in fsig' => dst \in fsig /\ got = {}
      BY <2>2
    <3>5. held[dst] \subseteq needs[dst]
      BY <2>1
    <3>. QED
      BY <3>1, <3>2, <3>3, <3>4, <3>5, <2>5, <2>6, <2>7
  <2>10. ASSUME NEW h \in Fences \ {dst}
         PROVE  /\ held'[h] = held[h] /\ needs'[h] = needs[h]
                /\ h \in fsig' <=> h \in fsig
    BY <2>2
  <2>11. nsig' \subseteq reached'
    BY <2>2
  <2>12. \A h \in Fences : held'[h] \subseteq needs'[h]
    BY <2>8, <2>10
  <2>13. ASSUME NEW h \in Fences, flife'[h] = "live", ~Failed(h)'
         PROVE  needs'[h] \subseteq held'[h] \cup nsig' /\ (h \in fsig' => needs'[h] \subseteq nsig')
    <3>1. CASE h = dst
      BY <3>1, <2>2, <2>9, <2>13
    <3>2. CASE h # dst
      <4>1. flife[h] = "live" /\ ~Failed(h)
        BY <3>2, <2>2, <2>3, <2>13
      <4>. QED
        BY <4>1, <3>2, <2>2, <2>10
    <3>. QED
      BY <3>1, <3>2
  <2>. HIDE DEF Failed, all, src, dst
  <2>. QED
    BY <2>11, <2>12, <2>13
<1>9. ASSUME NEW c \in Callers, MergeGetFd(c) PROVE Owed'
  BY <1>9 DEF MergeGetFd
<1>10. ASSUME NEW c \in Callers, MergeList(c) PROVE Owed'
  BY <1>10 DEF MergeList, AddToList
<1>11. ASSUME NEW c \in Callers, MergeReturn(c) PROVE Owed'
  BY <1>11 DEF MergeReturn, Finish
<1>12. ASSUME NEW c \in Callers, MergeUndo(c) PROVE Owed'
  <2>1. ASSUME NEW h \in Fences, flife'[h] = "live", ~Failed(h)'
        PROVE  h # cnew[c] /\ flife[h] = "live" /\ ~Failed(h)
    BY <1>12, <2>1 DEF MergeUndo, FreeFence, Finish
  <2>2. cnew[c] \in Fences
    BY <1>12 DEF MergeUndo
  <2>3. /\ nsig' = nsig /\ reached' = reached /\ fsig' \subseteq fsig
        /\ held' = [held EXCEPT ![cnew[c]] = {}] /\ needs' = [needs EXCEPT ![cnew[c]] = {}]
    BY <1>12, <2>2 DEF MergeUndo, FreeFence
  <2>4. \A h \in Fences : held'[h] \subseteq needs'[h]
    BY <2>2, <2>3
  <2>5. ASSUME NEW h \in Fences, flife'[h] = "live", ~Failed(h)'
        PROVE  needs'[h] \subseteq held'[h] \cup nsig' /\ (h \in fsig' => needs'[h] \subseteq nsig')
    <3>1. h # cnew[c] /\ flife[h] = "live" /\ ~Failed(h)
      BY <2>1, <2>5
    <3>2. needs'[h] = needs[h] /\ held'[h] = held[h]
      BY <3>1, <2>3
    <3>. QED
      BY <3>1, <3>2, <2>3
  <2>. HIDE DEF Failed
  <2>. QED
    BY <2>3, <2>4, <2>5
<1>13. ASSUME NEW c \in Callers, NEW f \in Fences, WaitStart(c, f) PROVE Owed'
  BY <1>13 DEF WaitStart
<1>14. ASSUME NEW c \in Callers, WaitEnd(c) PROVE Owed'
  BY <1>14 DEF WaitEnd, Finish
<1>15. ASSUME NEW c \in Callers, WaitTimeout(c) PROVE Owed'
  BY <1>15 DEF WaitTimeout, Finish
<1>16. ASSUME PostEvent PROVE Owed'
  BY <1>16 DEF PostEvent, Post
<1>17. ASSUME PostOther PROVE Owed'
  BY <1>17 DEF PostOther, Post
<1>18. ASSUME ThreadWake PROVE Owed'
  BY <1>18 DEF ThreadWake
<1>19. ASSUME FreezeWake PROVE Owed'
  BY <1>19 DEF FreezeWake
<1>20. ASSUME ThreadProcess PROVE Owed'
  <2>1. \A f \in listed : flife[f] = "live" /\ ~Failed(f)
    OBVIOUS
  <2>2. \A f \in Complete : f \in listed /\ f \in Fences /\ held[f] \subseteq nsig'
    BY <1>20 DEF ThreadProcess, Complete
  <2>3. nsig' = nsig \cup Found /\ Found \subseteq reached /\ fsig' = fsig \cup Complete
    BY <1>20 DEF ThreadProcess, Found
  <2>4. \A f \in Complete : needs[f] \subseteq nsig'
    BY <2>1, <2>2, <2>3
  <2>5. /\ reached' = reached /\ held' = held /\ needs' = needs
        /\ flife' = flife /\ cnew' = cnew /\ cpc' = cpc
    BY <1>20 DEF ThreadProcess
  <2>. QED
    BY <2>3, <2>4, <2>5
<1>21. ASSUME ThreadThaw PROVE Owed'
  BY <1>21 DEF ThreadThaw
<1>22. ASSUME NEW c \in Callers, CreateList(c) PROVE Owed'
  BY <1>22 DEF CreateList, AddToList
<1>23. ASSUME NEW c \in Callers, MergeCopyFault(c) PROVE Owed'
  <2>0. UNCHANGED <<nsig, reached>> /\ cnew[c] \in Fences
    BY <1>23 DEF MergeCopyFault
  <2>1. ASSUME NEW h \in Fences, ~Failed(h)' PROVE h # cnew[c] => ~Failed(h)
    BY <1>23, <2>1 DEF MergeCopyFault
  <2>2. CASE FreeFence(cnew[c])
    <3>1. ASSUME NEW h \in Fences, flife'[h] = "live", ~Failed(h)'
          PROVE  /\ h # cnew[c] /\ flife[h] = "live" /\ ~Failed(h)
                 /\ needs'[h] = needs[h] /\ held'[h] = held[h] /\ (h \in fsig' => h \in fsig)
      BY <2>0, <2>1, <2>2, <3>1 DEF FreeFence
    <3>2. \A h \in Fences : held'[h] \subseteq needs'[h]
      BY <2>0, <2>2 DEF FreeFence
    <3>. HIDE DEF Failed
    <3>. QED
      BY <2>0, <3>1, <3>2
  <2>3. CASE flife[cnew[c]] = "freed" /\ UNCHANGED <<node_vars, fence_vars, sig_vars>>
    <3>. HIDE DEF Failed
    <3>. QED
      BY <2>0, <2>1, <2>3
  <2>. QED
    BY <1>23, <2>2, <2>3 DEF MergeCopyFault
<1>. QED
  BY <1>1, <1>2, <1>3, <1>4, <1>5, <1>6, <1>7, <1>8, <1>9, <1>10, <1>11,
     <1>12, <1>13, <1>14, <1>15, <1>16, <1>17, <1>18, <1>19, <1>20, <1>21,
     <1>22, <1>23
  DEF Next, Files, Starts, Going, Syncd

(* What a merge has copied so far is what the new fence stands for.         *)
LEMMA PointsStep ==
  TypeOK /\ Structure /\ Points /\ Next /\ Defined' => Points'
<1>. SUFFICES ASSUME TypeOK, Structure, Points, Next, Defined' PROVE Points'
  OBVIOUS
<1>. USE FencesAssumption
     DEF TypeOK, Structure, InMerge, Building, Points, node_vars, mark_vars, fence_vars,
         sig_vars,
       list_vars, file_vars, caller_vars, post_vars, thread_vars
<1>1. ASSUME NEW c \in Callers, NEW f \in Fences, NEW n \in Nodes, CreateFd(c, f, n)
      PROVE  Points'
  BY <1>1 DEF CreateFd
<1>2. ASSUME NEW f \in Fences, Close(f) PROVE Points'
  BY <1>2 DEF Close
<1>3. ASSUME NEW f \in Fences, ReleaseUnlist(f) PROVE Points'
  BY <1>3 DEF ReleaseUnlist
<1>4. ASSUME NEW f \in Fences, ReleaseFree(f) PROVE Points'
  BY <1>4 DEF ReleaseFree, FreeFence
<1>5. ASSUME NEW n \in Nodes, Reach(n) PROVE Points'
  BY <1>5 DEF Reach
<1>6. ASSUME NEW c \in Callers, NEW f \in Fences,
             NEW g \in Fences, NEW new \in Fences, MergeStart(c, f, g, new)
      PROVE  Points'
  BY <1>6 DEF MergeStart
<1>7. ASSUME NEW g \in Fences, MergeNoMemory(g) PROVE Points'
  BY <1>7 DEF MergeNoMemory
<1>8. ASSUME NEW c \in Callers, NEW got \in SUBSET Nodes, MergeCopy(c, got)
      PROVE  Points'
  <2>1. /\ cnew[c] \in Fences \ files /\ c1[c] \in files /\ c2[c] \in files
        /\ needs' = [needs EXCEPT ![cnew[c]] = needs[cnew[c]] \cup needs[Source(c)]]
        /\ c1' = c1 /\ c2' = c2 /\ cnew' = cnew
        /\ cpc' = [cpc EXCEPT ![c] = IF got # ToAppend(Source(c), cnew[c]) THEN "undo"
                                    ELSE IF cpc[c] = "second" THEN "first" ELSE "getfd"]
        /\ cpc[c] \in {"second", "first"}
    BY <1>8 DEF MergeCopy, MergeOne
  <2>2. ASSUME NEW d \in Callers, d # c, Building(d)
        PROVE  /\ cpc'[d] = cpc[d] /\ needs'[cnew[d]] = needs[cnew[d]]
               /\ needs'[c1[d]] = needs[c1[d]] /\ needs'[c2[d]] = needs[c2[d]]
    BY <2>1, <2>2
  <2>3. needs'[c1[c]] = needs[c1[c]] /\ needs'[c2[c]] = needs[c2[c]]
    BY <2>1
  <2>4. needs'[cnew[c]] = needs[cnew[c]] \cup needs[Source(c)]
    BY <2>1
  <2>5. CASE cpc[c] = "second"
    <3>1. needs[cnew[c]] = {} /\ Source(c) = c2[c] /\ cpc'[c] \in {"first", "undo"}
      BY <2>1, <2>5 DEF Source
    <3>2. needs'[cnew'[c]] = needs'[c2'[c]]
      BY <3>1, <2>1, <2>3, <2>4
    <3>. QED
      BY <3>1, <3>2, <2>1, <2>2
  <2>6. CASE cpc[c] = "first"
    BY <2>1, <2>2, <2>3, <2>4, <2>6 DEF Source
  <2>. QED
    BY <2>1, <2>5, <2>6
<1>9. ASSUME NEW c \in Callers, MergeGetFd(c) PROVE Points'
  BY <1>9 DEF MergeGetFd
<1>10. ASSUME NEW c \in Callers, MergeList(c) PROVE Points'
  BY <1>10 DEF MergeList, AddToList
<1>11. ASSUME NEW c \in Callers, MergeReturn(c) PROVE Points'
  BY <1>11 DEF MergeReturn, Finish
<1>12. ASSUME NEW c \in Callers, MergeUndo(c) PROVE Points'
  BY <1>12 DEF MergeUndo, FreeFence, Finish
<1>13. ASSUME NEW c \in Callers, NEW f \in Fences, WaitStart(c, f) PROVE Points'
  BY <1>13 DEF WaitStart
<1>14. ASSUME NEW c \in Callers, WaitEnd(c) PROVE Points'
  BY <1>14 DEF WaitEnd, Finish
<1>15. ASSUME NEW c \in Callers, WaitTimeout(c) PROVE Points'
  BY <1>15 DEF WaitTimeout, Finish
<1>16. ASSUME PostEvent PROVE Points'
  BY <1>16 DEF PostEvent, Post
<1>17. ASSUME PostOther PROVE Points'
  BY <1>17 DEF PostOther, Post
<1>18. ASSUME ThreadWake PROVE Points'
  BY <1>18 DEF ThreadWake
<1>19. ASSUME FreezeWake PROVE Points'
  BY <1>19 DEF FreezeWake
<1>20. ASSUME ThreadProcess PROVE Points'
  BY <1>20 DEF ThreadProcess, Found, Complete
<1>21. ASSUME ThreadThaw PROVE Points'
  BY <1>21 DEF ThreadThaw
<1>22. ASSUME NEW c \in Callers, CreateList(c) PROVE Points'
  BY <1>22 DEF CreateList, AddToList
<1>23. ASSUME NEW c \in Callers, MergeCopyFault(c) PROVE Points'
  BY <1>23 DEF MergeCopyFault, Defined
<1>. QED
  BY <1>1, <1>2, <1>3, <1>4, <1>5, <1>6, <1>7, <1>8, <1>9, <1>10, <1>11,
     <1>12, <1>13, <1>14, <1>15, <1>16, <1>17, <1>18, <1>19, <1>20, <1>21,
     <1>22, <1>23
  DEF Next, Files, Starts, Going, Syncd

(* The wake-up of a fence that was not listed late stays pending until the  *)
(* walk.                                                                    *)
LEMMA WakeStep ==
  TypeOK /\ Structure /\ NoLostWakeup /\ Next => NoLostWakeup'
<1>. SUFFICES ASSUME TypeOK, Structure, NoLostWakeup, Next PROVE NoLostWakeup'
  OBVIOUS
<1>. USE FencesAssumption
     DEF TypeOK, Structure, InMerge, Building, NoLostWakeup, Awaited,
         WillRun, node_vars, mark_vars,
         fence_vars, sig_vars,
       list_vars, file_vars, caller_vars, post_vars, thread_vars
<1>1. ASSUME NEW c \in Callers, NEW f \in Fences, NEW n \in Nodes, CreateFd(c, f, n)
      PROVE  NoLostWakeup'
  BY <1>1 DEF CreateFd
<1>2. ASSUME NEW f \in Fences, Close(f) PROVE NoLostWakeup'
  BY <1>2 DEF Close
<1>3. ASSUME NEW f \in Fences, ReleaseUnlist(f) PROVE NoLostWakeup'
  BY <1>3 DEF ReleaseUnlist
<1>4. ASSUME NEW f \in Fences, ReleaseFree(f) PROVE NoLostWakeup'
  BY <1>4 DEF ReleaseFree, FreeFence
<1>5. ASSUME NEW n \in Nodes, Reach(n) PROVE NoLostWakeup'
  BY <1>5 DEF Reach
<1>6. ASSUME NEW c \in Callers, NEW f \in Fences,
             NEW g \in Fences, NEW new \in Fences, MergeStart(c, f, g, new)
      PROVE  NoLostWakeup'
  BY <1>6 DEF MergeStart
<1>7. ASSUME NEW g \in Fences, MergeNoMemory(g) PROVE NoLostWakeup'
  BY <1>7 DEF MergeNoMemory
<1>8. ASSUME NEW c \in Callers, NEW got \in SUBSET Nodes, MergeCopy(c, got)
      PROVE  NoLostWakeup'
  BY <1>8 DEF MergeCopy, MergeOne
<1>9. ASSUME NEW c \in Callers, MergeGetFd(c) PROVE NoLostWakeup'
  BY <1>9 DEF MergeGetFd
<1>10. ASSUME NEW c \in Callers, MergeList(c) PROVE NoLostWakeup'
  BY <1>10 DEF MergeList, AddToList
<1>11. ASSUME NEW c \in Callers, MergeReturn(c) PROVE NoLostWakeup'
  BY <1>11 DEF MergeReturn, Finish
<1>12. ASSUME NEW c \in Callers, MergeUndo(c) PROVE NoLostWakeup'
  BY <1>12 DEF MergeUndo, FreeFence, Finish
<1>13. ASSUME NEW c \in Callers, NEW f \in Fences, WaitStart(c, f) PROVE NoLostWakeup'
  BY <1>13 DEF WaitStart
<1>14. ASSUME NEW c \in Callers, WaitEnd(c) PROVE NoLostWakeup'
  BY <1>14 DEF WaitEnd, Finish
<1>15. ASSUME NEW c \in Callers, WaitTimeout(c) PROVE NoLostWakeup'
  BY <1>15 DEF WaitTimeout, Finish
<1>16. ASSUME PostEvent PROVE NoLostWakeup'
  BY <1>16 DEF PostEvent, Post
<1>17. ASSUME PostOther PROVE NoLostWakeup'
  BY <1>17 DEF PostOther, Post
<1>18. ASSUME ThreadWake PROVE NoLostWakeup'
  BY <1>18 DEF ThreadWake
<1>19. ASSUME FreezeWake PROVE NoLostWakeup'
  BY <1>19 DEF FreezeWake
<1>20. ASSUME ThreadProcess PROVE NoLostWakeup'
  BY <1>20 DEF ThreadProcess, Found, Complete
<1>21. ASSUME ThreadThaw PROVE NoLostWakeup'
  BY <1>21 DEF ThreadThaw
<1>22. ASSUME NEW c \in Callers, CreateList(c) PROVE NoLostWakeup'
  BY <1>22 DEF CreateList, AddToList
<1>23. ASSUME NEW c \in Callers, MergeCopyFault(c) PROVE NoLostWakeup'
  <2>1. CASE FreeFence(cnew[c])
    BY <1>23, <2>1 DEF MergeCopyFault, FreeFence
  <2>2. CASE UNCHANGED <<node_vars, fence_vars, sig_vars>>
    BY <1>23, <2>2 DEF MergeCopyFault
  <2>. QED
    BY <1>23, <2>1, <2>2 DEF MergeCopyFault
<1>. QED
  BY <1>1, <1>2, <1>3, <1>4, <1>5, <1>6, <1>7, <1>8, <1>9, <1>10, <1>11,
     <1>12, <1>13, <1>14, <1>15, <1>16, <1>17, <1>18, <1>19, <1>20, <1>21,
     <1>22, <1>23
  DEF Next, Files, Starts, Going, Syncd

-------------------------------------------------------------------------------
(* The invariant holds at first and every step keeps it.                    *)
LEMMA InitInv == Init => IInv
<1>. SUFFICES ASSUME Init PROVE IInv
  OBVIOUS
<1>. USE FencesAssumption, ArrayAssumption, TimeAssumption DEF Init
<1>0. TypeOK
  <2>1. 0 \in 0 .. MaxTime
    OBVIOUS
  <2>2. irq \in BOOLEAN /\ event \in BOOLEAN
    OBVIOUS
  <2>. QED
    BY <2>1, <2>2 DEF TypeOK
<1>1. Structure
  BY DEF Structure, InMerge, Building
<1>2. NodeRefs
  BY FS_EmptySet DEF NodeRefs, Holders
<1>3. ArrayFits
  BY FS_EmptySet DEF ArrayFits
<1>4. Owed /\ Points /\ NoLostWakeup
  BY DEF Owed, Points, NoLostWakeup, Awaited
<1>. QED
  BY <1>0, <1>1, <1>2, <1>3, <1>4 DEF IInv

LEMMA StepInv == IInv /\ [Next]_vars => IInv'
<1>. SUFFICES ASSUME IInv, [Next]_vars PROVE IInv'
  OBVIOUS
<1>1. CASE Next
  <2>1. Defined
    BY <1>1 DEF Next
  <2>2. TypeOK /\ NodeRefs /\ ArrayFits /\ Owed /\ NoLostWakeup /\ Structure /\ Points
    BY <2>1 DEF IInv
  <2>3. TypeOK' /\ NodeRefs' /\ ArrayFits' /\ Owed' /\ NoLostWakeup'
    BY <1>1, <2>2, TypeStep, NodeRefsStep, ArrayStep, OwedStep, WakeStep
  <2>4. Defined' => Structure' /\ Points'
    BY <1>1, <2>2, StructureStep, PointsStep
  <2>. QED
    BY <2>3, <2>4 DEF IInv
<1>2. CASE UNCHANGED vars
  <2>1. /\ TypeOK' <=> TypeOK
        /\ NodeRefs' <=> NodeRefs
        /\ ArrayFits' <=> ArrayFits
        /\ NoLostWakeup' <=> NoLostWakeup
        /\ Defined' <=> Defined
    BY <1>2 DEF vars, TypeOK, NodeRefs, Holders, ArrayFits, NoLostWakeup, Awaited, WillRun,
       Defined
  <2>2. /\ Owed' <=> Owed
        /\ Structure' <=> Structure
        /\ Points' <=> Points
    BY <1>2 DEF vars, Owed, Failed, Structure, InMerge, Building, Points
  <2>. QED
    BY <2>1, <2>2 DEF IInv
<1>. QED
  BY <1>1, <1>2

LEMMA LiveFromInv == IInv => OpenIsLive /\ MergeLosesNothing
<1>. SUFFICES ASSUME IInv PROVE OpenIsLive /\ MergeLosesNothing
  OBVIOUS
<1>1. OpenIsLive
  <2>. SUFFICES ASSUME Defined, NEW f \in Reachable PROVE flife[f] = "live"
    BY DEF OpenIsLive
  <2>1. Structure
    BY DEF IInv
  <2>2. f \in files
    <3>1. CASE f \in files \cup listed
      BY <2>1, <3>1 DEF Structure
    <3>2. ASSUME NEW c \in Callers, f \in {c1[c], c2[c]} PROVE f \in files
      BY <2>1, <3>2, FencesAssumption DEF Reachable, Structure, InMerge
    <3>3. ASSUME NEW c \in Callers, cpc[c] \in {"new", "list"}, f = cnew[c] PROVE f \in files
      BY <2>1, <3>3 DEF Structure
    <3>. QED
      BY <3>1, <3>2, <3>3, FencesAssumption DEF Reachable
  <2>. QED
    BY <2>1, <2>2 DEF Structure
<1>2. MergeLosesNothing
  BY DEF IInv, Owed, MergeLosesNothing
<1>. QED
  BY <1>1, <1>2

(* The inductive invariant of SyncFence.                                    *)
THEOREM Inductive == Spec => []IInv
BY InitInv, StepInv, PTL DEF Spec

(* Every variable stays in its set, in every run of the fence files.        *)
THEOREM TypeCorrect == Spec => []TypeOK
<1>1. IInv => TypeOK
  BY DEF IInv
<1>. QED
  BY Inductive, <1>1, PTL

(* ref_cnt of every node counts the arrays that hold it, and no array holds *)
(* a freed node (zx_sync_acquire_node, zx_sync_release_node), whatever      *)
(* fails.                                                                   *)
THEOREM RefsExact == Spec => []NodeRefs
<1>1. IInv => NodeRefs
  BY DEF IInv
<1>. QED
  BY Inductive, <1>1, PTL

(* zx_sync_fence_merge_one never writes past max_sync_num, and appends no   *)
(* node twice, whatever the sizes of the default array and of its growth.   *)
THEOREM ArraysFit == Spec => []ArrayFits
<1>1. IInv => ArrayFits
  BY DEF IInv
<1>. QED
  BY Inductive, <1>1, PTL

(* Merging loses no node a file stands for and signals no file early, also  *)
(* when another merge fails at its last step.                               *)
THEOREM NothingLost == Spec => []MergeLosesNothing
BY Inductive, LiveFromInv, PTL

(* A fence that was listed before all its nodes were reached, merged or     *)
(* not, never misses its event (zx_sync_event_thread, do_process_sync_list).*)
THEOREM NoneMissesItsEvent == Spec => []NoLostWakeup
<1>1. IInv => NoLostWakeup
  BY DEF IInv
<1>. QED
  BY Inductive, <1>1, PTL

(* Whatever else fails and whenever files are closed, a reachable fence is  *)
(* live until copy_to_user fails after a merge has listed its fence         *)
(* (zx_sync.c:386-393) or a file is released between its installation and   *)
(* its listing (365-373, 893-924).                                          *)
THEOREM FilesAreLive == Spec => []OpenIsLive
BY Inductive, LiveFromInv, PTL

-------------------------------------------------------------------------------
(* Two functions that agree everywhere but at one argument.                 *)
LEMMA UpdateOne ==
  ASSUME NEW S, NEW T, NEW p \in [S -> T], NEW q \in [S -> T], NEW x \in S, NEW v,
         q[x] = v, \A y \in S \ {x} : q[y] = p[y]
  PROVE  q = [p EXCEPT ![x] = v]
OBVIOUS

(* The fence files implement the abstract timeline, step by step.           *)
LEMMA TimelineStep ==
  IInv /\ IInv' /\ Next /\ Defined' => [Timeline!Next]_(Timeline!vars)
<1>. SUFFICES ASSUME IInv, IInv', Next, Defined' PROVE [Timeline!Next]_(Timeline!vars)
  OBVIOUS
<1>A. /\ Defined /\ TypeOK /\ Owed /\ Owed' /\ Structure /\ Points
  BY DEF IInv, Next
<1>. USE <1>A
<1>. DEFINE points == [f \in Fences |-> IF f \in files THEN needs[f] ELSE {}]
            done == fsig \cap files
            Stutter == reached' = reached /\ files' = files /\ points' = points /\ done' = done
<1>0. Stutter => [Timeline!Next]_(Timeline!vars)
  BY DEF Timeline!vars
<1>. USE FencesAssumption
     DEF TypeOK, Structure, InMerge, Building, node_vars, mark_vars, fence_vars, sig_vars,
       list_vars, file_vars, caller_vars, post_vars, thread_vars
<1>1. ASSUME NEW c \in Callers, NEW f \in Fences, NEW n \in Nodes, CreateFd(c, f, n)
      PROVE  [Timeline!Next]_(Timeline!vars)
  <2>1. f \notin files /\ f \notin fsig
    BY <1>1 DEF CreateFd
  <2>2. /\ files' = files \cup {f} /\ fsig' = fsig /\ reached' = reached
        /\ needs' = [needs EXCEPT ![f] = {n}]
    BY <1>1 DEF CreateFd
  <2>3. Timeline!Create(f, n)
    <3>1. points' = [points EXCEPT ![f] = {n}]
      BY <2>1, <2>2
    <3>2. done' = done
      BY <2>1, <2>2
    <3>. QED
      BY <2>1, <2>2, <3>1, <3>2 DEF Timeline!Create
  <2>. QED
    BY <2>3 DEF Timeline!Next
<1>2. ASSUME NEW f \in Fences, Close(f) PROVE [Timeline!Next]_(Timeline!vars)
  <2>10. Stutter
    BY <1>2 DEF Close
  <2>. QED
    BY <1>0, <2>10
<1>3. ASSUME NEW f \in Fences, ReleaseUnlist(f)
      PROVE  [Timeline!Next]_(Timeline!vars)
  <2>1. Timeline!Release(f)
    <3>1. f \in files /\ files' = files \ {f} /\ needs' = needs /\ fsig' = fsig /\ reached' = reached
      BY <1>3 DEF ReleaseUnlist
    <3>2. points' = [points EXCEPT ![f] = {}]
      BY <3>1
    <3>3. done' = done \ {f}
      BY <3>1
    <3>. QED
      BY <3>1, <3>2, <3>3 DEF Timeline!Release
  <2>. QED
    BY <2>1 DEF Timeline!Next
<1>4. ASSUME NEW f \in Fences, ReleaseFree(f) PROVE [Timeline!Next]_(Timeline!vars)
  <2>10. Stutter
    BY <1>4 DEF ReleaseFree, FreeFence
  <2>. QED
    BY <1>0, <2>10
<1>5. ASSUME NEW n \in Nodes, Reach(n) PROVE [Timeline!Next]_(Timeline!vars)
  <2>1. Timeline!Reach(n)
    BY <1>5 DEF Reach, Timeline!Reach
  <2>. QED
    BY <2>1 DEF Timeline!Next
<1>6. ASSUME NEW c \in Callers, NEW f \in Fences,
             NEW g \in Fences, NEW new \in Fences, MergeStart(c, f, g, new)
      PROVE  [Timeline!Next]_(Timeline!vars)
  <2>10. Stutter
    BY <1>6 DEF MergeStart
  <2>. QED
    BY <1>0, <2>10
<1>7. ASSUME NEW g \in Fences, MergeNoMemory(g)
      PROVE  [Timeline!Next]_(Timeline!vars)
  <2>10. Stutter
    BY <1>7 DEF MergeNoMemory
  <2>. QED
    BY <1>0, <2>10
<1>8. ASSUME NEW c \in Callers, NEW got \in SUBSET Nodes, MergeCopy(c, got)
      PROVE  [Timeline!Next]_(Timeline!vars)
  <2>10. Stutter
    BY <1>8 DEF MergeCopy, MergeOne
  <2>. QED
    BY <1>0, <2>10
<1>9. ASSUME NEW c \in Callers, MergeGetFd(c) PROVE [Timeline!Next]_(Timeline!vars)
  <2>0. CASE files' = files
    <3>1. Stutter
      BY <1>9, <2>0 DEF MergeGetFd
    <3>. QED
      BY <1>0, <3>1
  <2>. SUFFICES ASSUME files' = files \cup {cnew[c]} PROVE [Timeline!Next]_(Timeline!vars)
    BY <1>9, <2>0 DEF MergeGetFd
  <2>1. /\ cnew[c] \in Fences \ files /\ c1[c] \in files /\ c2[c] \in files
        /\ flife[cnew[c]] = "live"
    BY <1>9 DEF MergeGetFd
  <2>2. needs[cnew[c]] = needs[c1[c]] \cup needs[c2[c]]
    BY <1>9 DEF MergeGetFd, Points
  <2>3. /\ files' = files \cup {cnew[c]} /\ needs' = needs /\ fsig' = fsig /\ reached' = reached
    BY <1>9 DEF MergeGetFd
  <2>4. cnew[c] \in fsig => needs[cnew[c]] \subseteq reached
    <3>1. ~Failed(cnew[c])
      BY <1>9 DEF MergeGetFd, Failed
    <3>. QED
      BY <2>1, <3>1 DEF Owed
  <2>5. points' = [points EXCEPT ![cnew[c]] = points[c1[c]] \cup points[c2[c]]]
    <3>1. points[c1[c]] = needs[c1[c]] /\ points[c2[c]] = needs[c2[c]]
      BY <2>1
    <3>2. \A h \in Fences : (IF h \in files' THEN needs'[h] ELSE {})
            = IF h = cnew[c] THEN needs[cnew[c]] ELSE points[h]
      BY <2>1, <2>3
    <3>3. points \in [Fences -> SUBSET Nodes] /\ points' \in [Fences -> SUBSET Nodes]
      <4>1. needs \in [Fences -> SUBSET Nodes] /\ needs' = needs
        BY <2>3
      <4>. QED
        BY <4>1
    <3>4. points'[cnew[c]] = points[c1[c]] \cup points[c2[c]]
      BY <3>1, <3>2, <2>1, <2>2
    <3>5. \A h \in Fences \ {cnew[c]} : points'[h] = points[h]
      BY <3>2
    <3>6. cnew[c] \in Fences
      BY <2>1
    <3>. HIDE DEF points
    <3>. QED
      BY <3>3, <3>4, <3>5, <3>6, UpdateOne
  <2>6. points'[cnew[c]] = needs[cnew[c]]
    BY <2>1, <2>3
  <2>7. done' = done \/ (cnew[c] \in fsig /\ done' = done \cup {cnew[c]})
    BY <2>3
  <2>8. PICK f \in Fences, g \in Fences, new \in Fences :
          f = c1[c] /\ g = c2[c] /\ new = cnew[c]
    BY <2>1
  <2>9. Timeline!Merge(f, g, new)
    BY <2>1, <2>3, <2>4, <2>5, <2>6, <2>7, <2>8 DEF Timeline!Merge
  <2>. QED
    BY <2>9 DEF Timeline!Next
<1>10. ASSUME NEW c \in Callers, MergeList(c) PROVE [Timeline!Next]_(Timeline!vars)
  <2>10. Stutter
    BY <1>10 DEF MergeList, AddToList
  <2>. QED
    BY <1>0, <2>10
<1>11. ASSUME NEW c \in Callers, MergeReturn(c) PROVE [Timeline!Next]_(Timeline!vars)
  <2>10. Stutter
    BY <1>11 DEF MergeReturn, Finish
  <2>. QED
    BY <1>0, <2>10
<1>12. ASSUME NEW c \in Callers, MergeUndo(c) PROVE [Timeline!Next]_(Timeline!vars)
  <2>10. Stutter
    BY <1>12 DEF MergeUndo, FreeFence, Finish
  <2>. QED
    BY <1>0, <2>10
<1>13. ASSUME NEW c \in Callers, NEW f \in Fences, WaitStart(c, f)
      PROVE  [Timeline!Next]_(Timeline!vars)
  <2>10. Stutter
    BY <1>13 DEF WaitStart
  <2>. QED
    BY <1>0, <2>10
<1>14. ASSUME NEW c \in Callers, WaitEnd(c) PROVE [Timeline!Next]_(Timeline!vars)
  <2>10. Stutter
    BY <1>14 DEF WaitEnd, Finish
  <2>. QED
    BY <1>0, <2>10
<1>15. ASSUME NEW c \in Callers, WaitTimeout(c)
      PROVE  [Timeline!Next]_(Timeline!vars)
  <2>10. Stutter
    BY <1>15 DEF WaitTimeout, Finish
  <2>. QED
    BY <1>0, <2>10
<1>16. ASSUME PostEvent PROVE [Timeline!Next]_(Timeline!vars)
  <2>10. Stutter
    BY <1>16 DEF PostEvent, Post
  <2>. QED
    BY <1>0, <2>10
<1>17. ASSUME PostOther PROVE [Timeline!Next]_(Timeline!vars)
  <2>10. Stutter
    BY <1>17 DEF PostOther, Post
  <2>. QED
    BY <1>0, <2>10
<1>18. ASSUME ThreadWake PROVE [Timeline!Next]_(Timeline!vars)
  <2>10. Stutter
    BY <1>18 DEF ThreadWake
  <2>. QED
    BY <1>0, <2>10
<1>19. ASSUME FreezeWake PROVE [Timeline!Next]_(Timeline!vars)
  <2>10. Stutter
    BY <1>19 DEF FreezeWake
  <2>. QED
    BY <1>0, <2>10
<1>20. ASSUME ThreadProcess PROVE [Timeline!Next]_(Timeline!vars)
  <2>. DEFINE S == Complete \cap files
  <2>1. /\ files' = files /\ needs' = needs /\ reached' = reached /\ fsig' = fsig \cup Complete
    BY <1>20 DEF ThreadProcess
  <2>2. S \subseteq files \ done /\ S \in SUBSET Fences /\ done' = done \cup S
    BY <2>1 DEF Complete
  <2>3. \A f \in S : needs[f] \subseteq reached
    <3>1. \A f \in S : f \in fsig' /\ flife'[f] = "live" /\ ~Failed(f)'
      BY <2>1, <1>20 DEF ThreadProcess, Failed
    <3>. QED
      BY <3>1, <2>1 DEF Owed
  <2>4. Timeline!Signal(S)
    BY <2>1, <2>2, <2>3 DEF Timeline!Signal
  <2>. QED
    BY <2>2, <2>4 DEF Timeline!Next
<1>21. ASSUME ThreadThaw PROVE [Timeline!Next]_(Timeline!vars)
  <2>10. Stutter
    BY <1>21 DEF ThreadThaw
  <2>. QED
    BY <1>0, <2>10
<1>22. ASSUME NEW c \in Callers, CreateList(c) PROVE [Timeline!Next]_(Timeline!vars)
  <2>10. Stutter
    BY <1>22 DEF CreateList, AddToList
  <2>. QED
    BY <1>0, <2>10
<1>23. ASSUME NEW c \in Callers, MergeCopyFault(c) PROVE [Timeline!Next]_(Timeline!vars)
  BY <1>23 DEF MergeCopyFault, Defined
<1>. QED
  BY <1>1, <1>2, <1>3, <1>4, <1>5, <1>6, <1>7, <1>8, <1>9, <1>10, <1>11,
     <1>12, <1>13, <1>14, <1>15, <1>16, <1>17, <1>18, <1>19, <1>20, <1>21,
     <1>22, <1>23
  DEF Next, Files, Starts, Going, Syncd

(* SyncFence implements SyncTimeline: a merge takes effect at one instant,  *)
(* and no file is signaled before all it stands for is reached, nor ever    *)
(* falls back.                                                              *)
THEOREM ImplementsTimeline == Spec => TimelineSpec
<1>1. Init => Timeline!Init
  BY DEF Init, Timeline!Init
<1>2. IInv /\ IInv' /\ [Next]_vars => [Timeline!Next \/ ~Defined']_(Timeline!vars)
  <2>1. UNCHANGED vars => UNCHANGED Timeline!vars
    BY DEF vars, Timeline!vars
  <2>. QED
    BY <2>1, TimelineStep
<1>. QED
  BY <1>1, <1>2, Inductive, PTL DEF Spec, TimelineSpec
===============================================================================
