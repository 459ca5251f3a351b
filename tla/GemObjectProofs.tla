---------------------------- MODULE GemObjectProofs ----------------------------
(***************************************************************************)
(* Proofs about GemObject, for any number of threads, files, mappings and  *)
(* failures.                                                               *)
(***************************************************************************)
EXTENDS GemObject, FiniteSetTheorems, TLAPS

Places == [at : Steps, o : Objs \cup {None}, f : Files \cup {None}]

(* A step of thread t moves no other thread.                                *)
Only(t) == pc' \in [Threads -> Places] /\ \A u \in Threads : u # t => pc'[u] = pc[u]

LEMMA TypePlaces ==
  ASSUME TypeOK
  PROVE  pc \in [Threads -> Places]
BY Zenon DEF TypeOK, Places

LEMMA GoFacts ==
  ASSUME TypeOK, NEW t \in Threads, NEW a \in Steps, Go(t, a)
  PROVE  /\ Only(t) /\ pc'[t].at = a /\ pc'[t].o = pc[t].o /\ pc'[t].f = pc[t].f
BY TypePlaces DEF Go, Only, Places

LEMMA PlaceFacts ==
  ASSUME TypeOK, NEW t \in Threads, NEW a \in Steps, NEW o \in Objs, NEW f \in Files \cup {None},
         pc' = [pc EXCEPT ![t] = Step(a, o, f)]
  PROVE  Only(t) /\ pc'[t].at = a /\ pc'[t].o = o /\ pc'[t].f = f
BY TypePlaces DEF Step, Only, Places

LEMMA IdleFacts ==
  ASSUME TypeOK, NEW t \in Threads, pc' = [pc EXCEPT ![t] = Idle]
  PROVE  Only(t) /\ pc'[t].at = "idle" /\ pc'[t].o = None /\ pc'[t].f = None
BY TypePlaces DEF Idle, Only, Places, Steps

(* Where each call leaves its thread.                                       *)
LEMMA StartFacts ==
  ASSUME TypeOK, NEW t \in Threads, NEW a \in Steps, NEW o \in Objs, NEW f \in Files \cup {None},
         Start(t, a, o, f)
  PROVE  /\ Only(t) /\ pc[t] = Idle /\ pc[t].at = "idle" /\ pc[t].o = None /\ pc[t].f = None
         /\ pc'[t].at = a /\ pc'[t].o = o /\ pc'[t].f = f
<1>1. pc[t] = Idle /\ pc' = [pc EXCEPT ![t] = Step(a, o, f)]
  BY DEF Start
<1>2. Idle.at = "idle" /\ Idle.o = None /\ Idle.f = None
  BY DEF Idle
<1>3. Only(t) /\ pc'[t].at = a /\ pc'[t].o = o /\ pc'[t].f = f
  BY <1>1, PlaceFacts
<1>. QED
  BY <1>1, <1>2, <1>3

LEMMA TypePrime ==
  ASSUME state' \in [Objs -> {"none", "live", "freed"}], refs' \in [Objs -> Int],
         handles' \in [Objs -> SUBSET Files], core' \in [Objs -> BOOLEAN], opens' \in Nat,
         pins' \in [Objs -> Int], pages' \in [Objs -> BOOLEAN],
         lock' \in [Objs -> Threads \cup {None}], marks' \in [Objs -> Int], owed' \in Int,
         kmap' \in Int, kbad' \in BOOLEAN, vmas' \in [Objs -> Int], fbs' \in Int, shown' \in Int,
         exported' \in BOOLEAN, buf' \subseteq {"fd", "foreign"}, fmaps' \in Int,
         leaked' \in [Objs -> Nat], faults' \in 0 .. MaxFaults, pc' \in [Threads -> Places]
  PROVE  TypeOK'
BY Zenon DEF TypeOK, Places

(* The places of a thread, by the object and the file it works for.         *)
Opening == {"open", "openPin", "openAlloc", "openUnpin", "openFail"}
Mapping == {"mapMark", "mapPin", "mapTable", "mapFailed"}
Unmapping == {"unmapUnpin", "unmapMark"}
Shape ==
  \A t \in Threads :
    /\ pc[t].at = "idle" <=> pc[t].o = None
    /\ pc[t].o \in {Own, None} => pc[t].f = None
    /\ pc[t].at \in Opening => pc[t].o = Imp /\ pc[t].f # None
    /\ pc[t].at \in {"relUnpin", "detach"} => pc[t].o = Imp /\ pc[t].f = None
    /\ pc[t].at \in Mapping /\ pc[t].o = Imp => pc[t].f # None
    /\ pc[t].at = "vmapLock" => pc[t].o = Own
    /\ pc[t].at \in {"mmapMark", "mmapMap"} => pc[t].f = None

(* What a step does to the places: nothing, or it moves one thread.         *)
LEMMA StepKinds ==
  ASSUME [Next]_vars
  PROVE  \/ UNCHANGED vars
         \/ \E t \in Threads : Call(t) \/ Continue(t)
BY DEF Next

(* Where a step of a call leaves its thread.                                *)
After(t, a, o, f) == Only(t) /\ pc'[t].at = a /\ pc'[t].o = o /\ pc'[t].f = f
Ends(t) == After(t, "idle", None, None)
On(t, a) == After(t, a, pc[t].o, pc[t].f)

LEMMA OwnerOf ==
  ASSUME TypeOK, Shape, NEW t \in Threads, pc[t].at # "idle"
  PROVE  pc[t].o \in Objs /\ pc[t].f \in Files \cup {None}
BY TypePlaces DEF Shape, Places, Objs

LEMMA PutPlace ==
  ASSUME TypeOK, Shape, NEW t \in Threads, Put(t)
  PROVE  LET last == refs[pc[t].o] = 1 IN
         /\ pc[t].at = "put" /\ pc[t].o \in Objs
         /\ ~last \/ pc[t].o = Own => Ends(t)
         /\ last /\ pc[t].o = Imp => After(t, IF core[Imp] THEN "relUnpin" ELSE "detach", Imp, None)
<1>1. pc[t].at = "put" /\ pc[t].o \in Objs
  BY OwnerOf DEF Put, At
<1>2. CASE refs[pc[t].o] # 1 \/ pc[t].o = Own
  <2>1. pc' = [pc EXCEPT ![t] = Idle]
    BY <1>2 DEF Put
  <2>. QED
    BY <1>1, <1>2, <2>1, IdleFacts, GemAssumption DEF Ends, After
<1>3. CASE refs[pc[t].o] = 1 /\ pc[t].o # Own
  <2>. DEFINE a == IF core[Imp] THEN "relUnpin" ELSE "detach"
  <2>1. pc' = [pc EXCEPT ![t] = Step(a, Imp, None)]
    BY <1>3 DEF Put
  <2>2. a \in Steps /\ Imp \in Objs /\ None \in Files \cup {None}
    BY DEF Steps, Objs
  <2>3. After(t, a, Imp, None)
    <3>. HIDE DEF a
    <3>. QED
      BY <2>1, <2>2, PlaceFacts DEF After
  <2>4. pc[t].o = Imp /\ Own # Imp
    BY <1>1, <1>3, GemAssumption DEF Objs
  <2>. QED
    BY <1>1, <1>3, <2>3, <2>4
<1>. QED
  BY <1>2, <1>3

LEMMA LetGoPlace ==
  ASSUME TypeOK, NEW t \in Threads, Detach(t) \/ \E h \in {"fd", "foreign"} : LetBufGo(t, h)
  PROVE  IF BufHeld' THEN Ends(t) ELSE After(t, "put", Own, None)
<1>1. CASE BufHeld'
  <2>1. pc' = [pc EXCEPT ![t] = Idle]
    BY <1>1 DEF Detach, LetBufGo
  <2>. QED
    BY <1>1, <2>1, IdleFacts DEF Ends, After
<1>2. CASE ~BufHeld'
  <2>1. pc' = [pc EXCEPT ![t] = Step("put", Own, None)]
    BY <1>2 DEF Detach, LetBufGo
  <2>2. "put" \in Steps /\ Own \in Objs
    BY DEF Steps, Objs
  <2>. QED
    BY <1>2, <2>1, <2>2, PlaceFacts DEF After
<1>. QED
  BY <1>1, <1>2

LEMMA MapPlace ==
  ASSUME TypeOK, Shape, NEW t \in Threads
  PROVE  /\ MapMark(t) => pc[t].at = "mapMark" /\ On(t, "mapPin")
         /\ MapPin(t) => pc[t].at = "mapPin" /\ (On(t, "mapTable") \/ On(t, "mapFailed"))
         /\ MapTable(t) => pc[t].at = "mapTable" /\
              ( (pc[t].o = Own /\ Ends(t)) \/ (pc[t].o = Imp /\ On(t, "openAlloc"))
                \/ On(t, "mapFailed") )
         /\ MapFailed(t) => pc[t].at = "mapFailed" /\
              IF pc[t].o = Own THEN Ends(t) ELSE On(t, "openFail")
         /\ UnmapUnpin(t) => pc[t].at = "unmapUnpin" /\ On(t, "unmapMark")
         /\ UnmapMark(t) => pc[t].at = "unmapMark" /\
              IF pc[t].o = Own THEN Ends(t)
              ELSE On(t, IF pc[t].f = None THEN "detach" ELSE "openFail")
<1>. USE GoFacts, IdleFacts DEF At, On, Ends, After, Done, Steps
<1>1. MapMark(t) => pc[t].at = "mapMark" /\ On(t, "mapPin")
  BY DEF MapMark
<1>2. MapPin(t) => pc[t].at = "mapPin" /\ (On(t, "mapTable") \/ On(t, "mapFailed"))
  BY DEF MapPin
<1>3. ASSUME MapTable(t)
      PROVE  pc[t].at = "mapTable" /\
              ( (pc[t].o = Own /\ Ends(t)) \/ (pc[t].o = Imp /\ On(t, "openAlloc"))
                \/ On(t, "mapFailed") )
  <2>1. pc[t].at = "mapTable" /\ pc[t].o \in Objs
    BY <1>3, OwnerOf DEF MapTable
  <2>2. \/ pc[t].o = Own /\ Done(t)
        \/ pc[t].o # Own /\ Go(t, "openAlloc")
        \/ Go(t, "mapFailed")
    BY <1>3 DEF MapTable
  <2>. QED
    BY <2>1, <2>2 DEF Objs
<1>4. MapFailed(t) => pc[t].at = "mapFailed" /\
              IF pc[t].o = Own THEN Ends(t) ELSE On(t, "openFail")
  BY DEF MapFailed
<1>5. UnmapUnpin(t) => pc[t].at = "unmapUnpin" /\ On(t, "unmapMark")
  BY DEF UnmapUnpin
<1>6. UnmapMark(t) => pc[t].at = "unmapMark" /\
              IF pc[t].o = Own THEN Ends(t)
              ELSE On(t, IF pc[t].f = None THEN "detach" ELSE "openFail")
  BY DEF UnmapMark
<1>. QED
  BY <1>1, <1>2, <1>3, <1>4, <1>5, <1>6

LEMMA OpenPlace ==
  ASSUME TypeOK, Shape, NEW t \in Threads
  PROVE  /\ OpenCheck(t) => pc[t].at = "open" /\ On(t, IF core[Imp] THEN "put" ELSE "openPin")
         /\ OpenPin(t) => pc[t].at = "openPin" /\
              On(t, IF pins[Imp] = 0 THEN "mapMark" ELSE "openAlloc")
         /\ OpenAlloc(t) => pc[t].at = "openAlloc" /\ (On(t, "put") \/ On(t, "openUnpin"))
         /\ UnpinImp(t) => pc[t].at \in {"openUnpin", "relUnpin"} /\
              On(t, IF pins[Imp] = 1 THEN "unmapUnpin"
                    ELSE IF pc[t].at = "relUnpin" THEN "detach" ELSE "openFail")
         /\ OpenFail(t) => pc[t].at = "openFail" /\ On(t, "put")
<1>. USE GoFacts DEF At, On, After, Steps
<1>1. OpenCheck(t) => pc[t].at = "open" /\ On(t, IF core[Imp] THEN "put" ELSE "openPin")
  BY DEF OpenCheck
<1>2. OpenPin(t) => pc[t].at = "openPin" /\
              On(t, IF pins[Imp] = 0 THEN "mapMark" ELSE "openAlloc")
  BY DEF OpenPin
<1>3. OpenAlloc(t) => pc[t].at = "openAlloc" /\ (On(t, "put") \/ On(t, "openUnpin"))
  BY DEF OpenAlloc
<1>4. UnpinImp(t) => pc[t].at \in {"openUnpin", "relUnpin"} /\
              On(t, IF pins[Imp] = 1 THEN "unmapUnpin"
                    ELSE IF pc[t].at = "relUnpin" THEN "detach" ELSE "openFail")
  BY DEF UnpinImp
<1>5. OpenFail(t) => pc[t].at = "openFail" /\ On(t, "put")
  BY DEF OpenFail
<1>. QED
  BY <1>1, <1>2, <1>3, <1>4, <1>5

LEMMA MmapPlace ==
  ASSUME TypeOK, Shape, NEW t \in Threads
  PROVE  /\ VmapLock(t) => pc[t].at = "vmapLock" /\ Ends(t)
         /\ MmapMark(t) => pc[t].at = "mmapMark" /\ On(t, "mmapMap")
         /\ MmapMap(t) => pc[t].at = "mmapMap" /\ Ends(t)
<1>. USE GoFacts, IdleFacts DEF At, On, Ends, After, Done, Steps
<1>1. VmapLock(t) => pc[t].at = "vmapLock" /\ Ends(t)
  BY DEF VmapLock
<1>2. MmapMark(t) => pc[t].at = "mmapMark" /\ On(t, "mmapMap")
  BY DEF MmapMark
<1>3. MmapMap(t) => pc[t].at = "mmapMap" /\ Ends(t)
  BY DEF MmapMap
<1>. QED
  BY <1>1, <1>2, <1>3

Begins(t, a, o, f) == pc[t].at = "idle" /\ pc[t].o = None /\ pc[t].f = None /\ After(t, a, o, f)

LEMMA BeginPlace ==
  ASSUME TypeOK, NEW t \in Threads
  PROVE  /\ \A f \in Files : /\ PrimeImport(t, f) \/ OpenByName(t, f) => Begins(t, "open", Imp, f)
                             /\ \A o \in Objs :
                                  /\ HandleClose(t, f, o) => Begins(t, "put", o, None)
                                  /\ BeginCpuAccess(t, f, o) => Begins(t, "put", o, None)
                                  /\ Mmap(t, f, o) => Begins(t, "mmapMark", o, None)
         /\ \A o \in Objs : VmClose(t, o) => Begins(t, "put", o, None)
         /\ FbDestroy(t) => Begins(t, "put", Own, None)
         /\ ForeignMap(t) => Begins(t, "mapMark", Own, None)
         /\ ForeignUnmap(t) => Begins(t, "unmapUnpin", Own, None)
         /\ VmapMark(t) => Begins(t, "vmapLock", Own, None)
<1>1. ASSUME NEW a \in Steps, NEW o \in Objs, NEW f \in Files \cup {None}, Start(t, a, o, f)
      PROVE  Begins(t, a, o, f)
  BY <1>1, StartFacts DEF Begins, After
<1>2. /\ {"open", "put", "mmapMark", "mapMark", "unmapUnpin", "vmapLock"} \subseteq Steps
      /\ Own \in Objs /\ Imp \in Objs
  BY DEF Steps, Objs
<1>. QED
  BY <1>1, <1>2 DEF PrimeImport, OpenByName, HandleClose, BeginCpuAccess, Mmap, VmClose, FbDestroy,
     ForeignMap, ForeignUnmap, VmapMark

LEMMA PlacesType ==
  ASSUME TypeOK, Shape, [Next]_vars
  PROVE  pc' \in [Threads -> Places]
<1>1. ASSUME NEW t \in Threads, Call(t) PROVE pc' \in [Threads -> Places]
  <2>1. UNCHANGED pc \/ Only(t)
    BY <1>1, BeginPlace, LetGoPlace DEF Call, CreateObject, OpenOwn, PrimeExport, FbCreate, VmOpen,
       Attach, Vunmap, PreparePlaneFb, CleanupPlaneFb, Begins, After, Ends
  <2>. QED
    BY <2>1, TypePlaces DEF Only
<1>2. ASSUME NEW t \in Threads, Continue(t) PROVE pc' \in [Threads -> Places]
  <2>1. Only(t)
    BY <1>2, PutPlace, LetGoPlace, MapPlace, OpenPlace, MmapPlace, OwnerOf
       DEF Continue, After, Ends, On, Objs
  <2>. QED
    BY <2>1 DEF Only
<1>. QED
  BY <1>1, <1>2, TypePlaces DEF Next, vars

LEMMA BoolUpdate ==
  ASSUME NEW g \in [Objs -> BOOLEAN], NEW x, NEW b \in BOOLEAN
  PROVE  [g EXCEPT ![x] = b] \in [Objs -> BOOLEAN]
OBVIOUS

(* What giving up a use of the kernel mapping does, whether it is done or not. *)
LEMMA DropFacts ==
  ASSUME TypeOK, NEW d, DropKernelUse(d)
  PROVE  /\ marks' \in [Objs -> Int] /\ kmap' \in Int /\ kbad' \in BOOLEAN
         /\ marks'[Imp] = marks[Imp]
         /\ kmap \in Nat => kmap' \in Nat /\ marks'[Own] + B(kmap > 0) >= marks[Own] + B(kmap' > 0)
         /\ kmap' > 0 /\ ~kbad' => kmap > 0 /\ ~kbad
<1>1. marks \in [Objs -> Int] /\ kmap \in Int /\ Own \in Objs /\ Imp \in Objs /\ Own # Imp
  BY GemAssumption DEF TypeOK, Objs
<1>2. kbad' \in BOOLEAN
  BY Zenon DEF DropKernelUse
<1>3. /\ kmap' = IF d /\ kmap > 0 THEN kmap - 1 ELSE kmap
      /\ marks' = IF d /\ kmap = 1 THEN [marks EXCEPT ![Own] = @ - 1] ELSE marks
  BY DEF DropKernelUse
<1>4. ~kbad' => ~kbad \/ (d /\ kmap = 1)
  BY Zenon DEF DropKernelUse
<1>5. CASE d
  BY <1>1, <1>2, <1>3, <1>4, <1>5 DEF B
<1>6. CASE ~d
  BY <1>1, <1>2, <1>3, <1>4, <1>6 DEF B
<1>. QED
  BY <1>5, <1>6

LEMMA MarkingType ==
  ASSUME marks \in [Objs -> Int], NEW o \in Objs, NEW n \in Int, Marking(o, n)
  PROVE  marks' \in [Objs -> Int]
BY DEF Marking

LEMMA TypeStep == TypeOK /\ Shape /\ [Next]_vars => TypeOK'
<1>. SUFFICES ASSUME TypeOK, Shape, [Next]_vars PROVE TypeOK'
  OBVIOUS
<1>. USE GemAssumption DEF memory, counts, Fail, Objs
<1>0. /\ state \in [Objs -> {"none", "live", "freed"}] /\ refs \in [Objs -> Int]
      /\ handles \in [Objs -> SUBSET Files] /\ core \in [Objs -> BOOLEAN] /\ opens \in Nat
      /\ pins \in [Objs -> Int] /\ pages \in [Objs -> BOOLEAN]
      /\ lock \in [Objs -> Threads \cup {None}] /\ marks \in [Objs -> Int] /\ owed \in Int
      /\ kmap \in Int /\ kbad \in BOOLEAN /\ vmas \in [Objs -> Int] /\ fbs \in Int /\ shown \in Int
      /\ exported \in BOOLEAN /\ buf \subseteq {"fd", "foreign"} /\ fmaps \in Int
      /\ leaked \in [Objs -> Nat] /\ faults \in 0 .. MaxFaults /\ pc' \in [Threads -> Places]
  BY PlacesType, Zenon DEF TypeOK
<1>1. ASSUME NEW t \in Threads, NEW f \in Files, CreateObject(t, f) PROVE TypeOK'
  BY <1>0, <1>1, TypePrime DEF CreateObject
<1>2. ASSUME NEW t \in Threads, NEW f \in Files, OpenOwn(t, f) PROVE TypeOK'
  BY <1>0, <1>2, TypePrime DEF OpenOwn
<1>3. ASSUME NEW t \in Threads, NEW f \in Files, PrimeExport(t, f) PROVE TypeOK'
  BY <1>0, <1>3, TypePrime DEF PrimeExport
<1>4. ASSUME NEW t \in Threads, NEW f \in Files, NEW o \in Objs, FbCreate(t, f, o) PROVE TypeOK'
  BY <1>0, <1>4, TypePrime DEF FbCreate
<1>5. ASSUME NEW t \in Threads, NEW o \in Objs, VmOpen(t, o) PROVE TypeOK'
  <2>1. marks' \in [Objs -> Int]
    BY <1>0, <1>5, MarkingType DEF VmOpen
  <2>. QED
    BY <1>0, <1>5, <2>1, TypePrime DEF VmOpen
<1>6. ASSUME NEW t \in Threads, Attach(t) PROVE TypeOK'
  BY <1>0, <1>6, TypePrime DEF Attach
<1>7. ASSUME NEW t \in Threads, Vunmap(t) PROVE TypeOK'
  <2>1. marks' \in [Objs -> Int] /\ kmap' \in Int /\ kbad' \in BOOLEAN
    BY <1>7, DropFacts DEF Vunmap
  <2>2. UNCHANGED <<state, refs, handles, core, opens, pins, pages, lock, owed, vmas, fbs, shown,
                    fmaps, exported, buf, leaked, faults>>
    BY <1>7 DEF Vunmap
  <2>. QED
    BY <1>0, <2>1, <2>2, TypePrime
<1>8. ASSUME NEW t \in Threads, PreparePlaneFb(t) PROVE TypeOK'
  BY <1>0, <1>8, TypePrime DEF PreparePlaneFb
<1>9. ASSUME NEW t \in Threads, CleanupPlaneFb(t) PROVE TypeOK'
  BY <1>0, <1>9, TypePrime DEF CleanupPlaneFb
<1>10. ASSUME NEW t \in Threads, NEW f \in Files, PrimeImport(t, f) PROVE TypeOK'
  BY <1>0, <1>10, TypePrime DEF PrimeImport
<1>11. ASSUME NEW t \in Threads, NEW f \in Files, OpenByName(t, f) PROVE TypeOK'
  BY <1>0, <1>11, TypePrime DEF OpenByName
<1>12. ASSUME NEW t \in Threads, NEW f \in Files, NEW o \in Objs, HandleClose(t, f, o) PROVE TypeOK'
  BY <1>0, <1>12, TypePrime DEF HandleClose
<1>13. ASSUME NEW t \in Threads, NEW f \in Files, NEW o \in Objs, BeginCpuAccess(t, f, o)
       PROVE  TypeOK'
  BY <1>0, <1>13, TypePrime DEF BeginCpuAccess
<1>14. ASSUME NEW t \in Threads, NEW f \in Files, NEW o \in Objs, Mmap(t, f, o) PROVE TypeOK'
  BY <1>0, <1>14, TypePrime DEF Mmap
<1>15. ASSUME NEW t \in Threads, NEW o \in Objs, VmClose(t, o) PROVE TypeOK'
  <2>1. marks' \in [Objs -> Int]
    BY <1>0, <1>15, MarkingType DEF VmClose
  <2>. QED
    BY <1>0, <1>15, <2>1, TypePrime DEF VmClose
<1>16. ASSUME NEW t \in Threads, ForeignMap(t) PROVE TypeOK'
  BY <1>0, <1>16, TypePrime DEF ForeignMap
<1>17. ASSUME NEW t \in Threads, ForeignUnmap(t) PROVE TypeOK'
  BY <1>0, <1>17, TypePrime DEF ForeignUnmap
<1>18. ASSUME NEW t \in Threads, VmapMark(t) PROVE TypeOK'
  BY <1>0, <1>18, TypePrime DEF VmapMark
<1>19. ASSUME NEW t \in Threads, FbDestroy(t) PROVE TypeOK'
  BY <1>0, <1>19, TypePrime DEF FbDestroy
<1>20. ASSUME NEW t \in Threads, NEW h \in {"fd", "foreign"}, LetBufGo(t, h) PROVE TypeOK'
  <2>1. BufHeld' \in BOOLEAN
    BY DEF BufHeld
  <2>. QED
    BY <1>0, <1>20, <2>1, TypePrime DEF LetBufGo
<1>21. ASSUME NEW t \in Threads, Put(t) PROVE TypeOK'
  <2>1. pc[t].o \in Objs
    BY <1>21, PutPlace
  <2>2. marks' \in [Objs -> Int] /\ kmap' \in Int /\ kbad' \in BOOLEAN
    BY <1>21, DropFacts DEF Put
  <2>3. refs' \in [Objs -> Int] /\ state' \in [Objs -> {"none", "live", "freed"}]
    BY <1>0, <1>21, <2>1 DEF Put
  <2>4. core' \in [Objs -> BOOLEAN]
    <3>1. core' = core \/ core' = [core EXCEPT ![Own] = FALSE]
      BY <1>21 DEF Put, ReleaseOwn
    <3>. QED
      BY <1>0, <3>1, BoolUpdate, Zenon
  <2>5. UNCHANGED <<handles, opens, pins, pages, lock, owed, vmas, fbs, shown, fmaps, exported, buf,
                    leaked, faults>>
    BY <1>21 DEF Put
  <2>. QED
    BY <1>0, <2>2, <2>3, <2>4, <2>5, TypePrime
<1>22. ASSUME NEW t \in Threads, Detach(t) PROVE TypeOK'
  <2>1. BufHeld' \in BOOLEAN
    BY DEF BufHeld
  <2>. QED
    BY <1>0, <1>22, <2>1, TypePrime DEF Detach
<1>23. ASSUME NEW t \in Threads, MapMark(t) PROVE TypeOK'
  <2>1. pc[t].at # "idle" => pc[t].o \in {Own, Imp}
    BY OwnerOf
  <2>. QED
    BY <1>0, <1>23, <2>1, TypePrime DEF MapMark, ReleaseOwn, GetPages, UnpinOwn, At
<1>24. ASSUME NEW t \in Threads, MapPin(t) PROVE TypeOK'
  <2>0. faults' = faults \/ (faults < MaxFaults /\ faults' = faults + 1)
    BY <1>24, Zenon DEF MapPin
  <2>1. pins' \in [Objs -> Int] /\ pages' \in [Objs -> BOOLEAN] /\ faults' \in 0 .. MaxFaults
    <3>1. pins' = pins \/ pins' = [pins EXCEPT ![Own] = @ + 1]
      BY <1>24, Zenon DEF MapPin
    <3>2. pages' = pages \/ pages' = [pages EXCEPT ![Own] = TRUE]
      BY <1>24, Zenon DEF MapPin, GetPages
    <3>3. faults' \in 0 .. MaxFaults
      BY <1>0, <2>0
    <3>4. pages' \in [Objs -> BOOLEAN]
      BY <1>0, <3>2, BoolUpdate, Zenon
    <3>5. pins' \in [Objs -> Int]
      BY <1>0, <3>1
    <3>. QED
      BY <3>3, <3>4, <3>5
  <2>2. UNCHANGED <<state, refs, handles, core, opens, lock, marks, owed, counts, exported, buf,
                    leaked>>
    BY <1>24 DEF MapPin
  <2>. QED
    BY <1>0, <2>1, <2>2, TypePrime
<1>25. ASSUME NEW t \in Threads, MapTable(t) PROVE TypeOK'
  <2>1. pins' \in [Objs -> Int] /\ lock' \in [Objs -> Threads \cup {None}] /\ fmaps' \in Int
        /\ faults' \in 0 .. MaxFaults
    BY <1>0, <1>25 DEF MapTable, UnpinOwn
  <2>2. pages' \in [Objs -> BOOLEAN]
    <3>1. (pins[Own] > 1) \in BOOLEAN
      OBVIOUS
    <3>2. \/ pages' = pages \/ pages' = [pages EXCEPT ![Imp] = TRUE]
          \/ pages' = [pages EXCEPT ![Own] = pins[Own] > 1]
      BY <1>25, Zenon DEF MapTable, UnpinOwn
    <3>. QED
      BY <1>0, <3>1, <3>2
  <2>3. UNCHANGED <<state, refs, handles, core, opens, marks, owed, kmap, kbad, vmas, fbs, shown,
                    exported, buf, leaked>>
    BY <1>25 DEF MapTable
  <2>. QED
    BY <1>0, <2>1, <2>2, <2>3, TypePrime
<1>26. ASSUME NEW t \in Threads, MapFailed(t) PROVE TypeOK'
  <2>1. pc[t].at # "idle" => pc[t].o \in {Own, Imp}
    BY OwnerOf
  <2>. QED
    BY <1>0, <1>26, <2>1, TypePrime DEF MapFailed, ReleaseOwn, GetPages, UnpinOwn, At
<1>27. ASSUME NEW t \in Threads, UnmapUnpin(t) PROVE TypeOK'
  <2>1. pc[t].at # "idle" => pc[t].o \in {Own, Imp}
    BY OwnerOf
  <2>. QED
    BY <1>0, <1>27, <2>1, TypePrime DEF UnmapUnpin, ReleaseOwn, GetPages, UnpinOwn, At
<1>28. ASSUME NEW t \in Threads, UnmapMark(t) PROVE TypeOK'
  <2>1. pc[t].at # "idle" => pc[t].o \in {Own, Imp}
    BY OwnerOf
  <2>. QED
    BY <1>0, <1>28, <2>1, TypePrime DEF UnmapMark, ReleaseOwn, GetPages, UnpinOwn, At
<1>29. ASSUME NEW t \in Threads, OpenCheck(t) PROVE TypeOK'
  <2>1. pc[t].at # "idle" => pc[t].o \in {Own, Imp}
    BY OwnerOf
  <2>. QED
    BY <1>0, <1>29, <2>1, TypePrime DEF OpenCheck, ReleaseOwn, GetPages, UnpinOwn, At
<1>30. ASSUME NEW t \in Threads, OpenPin(t) PROVE TypeOK'
  <2>1. pc[t].at # "idle" => pc[t].o \in {Own, Imp}
    BY OwnerOf
  <2>. QED
    BY <1>0, <1>30, <2>1, TypePrime DEF OpenPin, ReleaseOwn, GetPages, UnpinOwn, At
<1>31. ASSUME NEW t \in Threads, OpenAlloc(t) PROVE TypeOK'
  <2>0. faults' = faults \/ (faults < MaxFaults /\ faults' = faults + 1)
    BY <1>31, Zenon DEF OpenAlloc
  <2>1. core' \in [Objs -> BOOLEAN] /\ opens' \in Nat /\ faults' \in 0 .. MaxFaults
    <3>1. core' = core \/ core' = [core EXCEPT ![Imp] = TRUE]
      BY <1>31, Zenon DEF OpenAlloc
    <3>2. opens' = opens \/ opens' = opens + 1
      BY <1>31, Zenon DEF OpenAlloc
    <3>3. faults' \in 0 .. MaxFaults
      BY <1>0, <2>0
    <3>4. core' \in [Objs -> BOOLEAN]
      BY <1>0, <3>1, BoolUpdate, Zenon
    <3>5. opens' \in Nat
      BY <1>0, <3>2
    <3>. QED
      BY <3>3, <3>4, <3>5
  <2>2. UNCHANGED <<state, refs, handles, pins, pages, lock, counts, exported, buf, leaked>>
    BY <1>31 DEF OpenAlloc
  <2>3. marks' \in [Objs -> Int] /\ owed' \in Int
    <3>1. \/ UNCHANGED <<marks, owed>>
          \/ marks' = [marks EXCEPT ![Imp] = 0] /\ owed' = owed + marks[Imp]
      BY <1>31 DEF OpenAlloc
    <3>. QED
      BY <1>0, <3>1
  <2>. QED
    BY <1>0, <2>1, <2>2, <2>3, TypePrime
<1>32. ASSUME NEW t \in Threads, UnpinImp(t) PROVE TypeOK'
  <2>1. core' \in [Objs -> BOOLEAN] /\ pages' \in [Objs -> BOOLEAN]
    <3>1. core' = core \/ core' = [core EXCEPT ![Imp] = FALSE]
      BY <1>32, Zenon DEF UnpinImp
    <3>2. pages' = pages \/ pages' = [pages EXCEPT ![Imp] = FALSE]
      BY <1>32, Zenon DEF UnpinImp
    <3>. QED
      BY <1>0, <3>1, <3>2, BoolUpdate, Zenon
  <2>2. pins' \in [Objs -> Int] /\ lock' \in [Objs -> Threads \cup {None}]
    BY <1>0, <1>32 DEF UnpinImp
  <2>3. UNCHANGED <<state, refs, handles, opens, marks, owed, counts, exported, buf, leaked,
                    faults>>
    BY <1>32 DEF UnpinImp
  <2>. QED
    BY <1>0, <2>1, <2>2, <2>3, TypePrime
<1>33. ASSUME NEW t \in Threads, OpenFail(t) PROVE TypeOK'
  <2>1. pc[t].at # "idle" => pc[t].o \in {Own, Imp}
    BY OwnerOf
  <2>. QED
    BY <1>0, <1>33, <2>1, TypePrime DEF OpenFail, ReleaseOwn, GetPages, UnpinOwn, At
<1>34. ASSUME NEW t \in Threads, VmapLock(t) PROVE TypeOK'
  <2>1. faults' = faults \/ (faults < MaxFaults /\ faults' = faults + 1)
    BY <1>34, Zenon DEF VmapLock
  <2>2. kbad' = kbad \/ kbad' = TRUE
    BY <1>34, Zenon DEF VmapLock
  <2>3. /\ UNCHANGED <<state, refs, handles, core, opens, memory, vmas, fbs, shown, fmaps, exported,
                       buf, leaked>>
        /\ kmap' = kmap + 1
    BY <1>34 DEF VmapLock
  <2>4. faults' \in 0 .. MaxFaults /\ kmap' \in Int
    BY <1>0, <2>1, <2>3
  <2>5. kbad' \in BOOLEAN
    BY <1>0, <2>2, Zenon
  <2>. QED
    BY <1>0, <2>3, <2>4, <2>5, TypePrime
<1>35. ASSUME NEW t \in Threads, MmapMark(t) PROVE TypeOK'
  <2>1. pc[t].at # "idle" => pc[t].o \in {Own, Imp}
    BY OwnerOf
  <2>. QED
    BY <1>0, <1>35, <2>1, TypePrime DEF MmapMark, ReleaseOwn, GetPages, UnpinOwn, At
<1>36. ASSUME NEW t \in Threads, MmapMap(t) PROVE TypeOK'
  <2>1. pc[t].at # "idle" => pc[t].o \in {Own, Imp}
    BY OwnerOf
  <2>. QED
    BY <1>0, <1>36, <2>1, TypePrime DEF MmapMap, ReleaseOwn, GetPages, UnpinOwn, At
<1>37. CASE UNCHANGED vars
  BY <1>0, <1>37, TypePrime DEF vars
<1>. QED
  BY <1>1, <1>2, <1>3, <1>4, <1>5, <1>6, <1>7, <1>8, <1>9, <1>10, <1>11, <1>12, <1>13, <1>14,
     <1>15, <1>16, <1>17, <1>18, <1>19, <1>20, <1>21, <1>22, <1>23, <1>24, <1>25, <1>26, <1>27,
     <1>28, <1>29, <1>30, <1>31, <1>32, <1>33, <1>34, <1>35, <1>36, <1>37 DEF Next, Call, Continue

(* The places stay consistent.                                              *)
ShapeOf(t) ==
  /\ pc[t].at = "idle" <=> pc[t].o = None
  /\ pc[t].o \in {Own, None} => pc[t].f = None
  /\ pc[t].at \in Opening => pc[t].o = Imp /\ pc[t].f # None
  /\ pc[t].at \in {"relUnpin", "detach"} => pc[t].o = Imp /\ pc[t].f = None
  /\ pc[t].at \in Mapping /\ pc[t].o = Imp => pc[t].f # None
  /\ pc[t].at = "vmapLock" => pc[t].o = Own
  /\ pc[t].at \in {"mmapMark", "mmapMap"} => pc[t].f = None

LEMMA ShapeStep == TypeOK /\ Shape /\ [Next]_vars => Shape'
<1>. SUFFICES ASSUME TypeOK, Shape, [Next]_vars PROVE Shape'
  OBVIOUS
<1>. USE GemAssumption
<1>1. ASSUME UNCHANGED pc PROVE Shape'
  BY <1>1 DEF Shape
<1>2. ASSUME NEW t \in Threads, Only(t), ShapeOf(t)' PROVE Shape'
  BY <1>2 DEF Shape, ShapeOf, Only
<1>3. ASSUME NEW t \in Threads, Call(t) PROVE Shape'
  <2>1. \/ UNCHANGED pc
        \/ \E f \in Files : Begins(t, "open", Imp, f)
        \/ \E a \in {"put", "mmapMark"}, o \in Objs : Begins(t, a, o, None)
        \/ \E a \in {"mapMark", "unmapUnpin", "vmapLock"} : Begins(t, a, Own, None)
        \/ Ends(t) \/ After(t, "put", Own, None)
    BY <1>3, BeginPlace, LetGoPlace DEF Call, CreateObject, OpenOwn, PrimeExport, FbCreate, VmOpen,
       Attach, Vunmap, PreparePlaneFb, CleanupPlaneFb, Objs
  <2>. QED
    BY <1>1, <1>2, <2>1 DEF Begins, After, Ends, ShapeOf, Opening, Mapping, Objs
<1>4. ASSUME NEW t \in Threads, Continue(t) PROVE Shape'
  <2>0. ShapeOf(t) /\ pc[t].o \in Objs \cup {None}
    BY TypePlaces DEF Shape, ShapeOf, Places
  <2>1. CASE Put(t)
    BY <1>2, <2>1, PutPlace DEF Ends, After, ShapeOf, Opening, Mapping, Objs
  <2>2. CASE Detach(t)
    BY <1>2, <2>2, LetGoPlace DEF Ends, After, ShapeOf, Opening, Mapping
  <2>3. CASE MapMark(t) \/ MapPin(t) \/ MapTable(t) \/ MapFailed(t) \/ UnmapUnpin(t) \/ UnmapMark(t)
    BY <1>2, <2>0, <2>3, MapPlace DEF Ends, On, After, ShapeOf, Opening, Mapping, Objs
  <2>4. CASE OpenCheck(t) \/ OpenPin(t) \/ OpenAlloc(t) \/ UnpinImp(t) \/ OpenFail(t)
    BY <1>2, <2>0, <2>4, OpenPlace DEF On, After, ShapeOf, Opening, Mapping, Objs
  <2>5. CASE VmapLock(t) \/ MmapMark(t) \/ MmapMap(t)
    BY <1>2, <2>0, <2>5, MmapPlace DEF Ends, On, After, ShapeOf, Opening, Mapping, Objs
  <2>. QED
    BY <1>4, <2>1, <2>2, <2>3, <2>4, <2>5 DEF Continue
<1>. QED
  BY <1>1, <1>3, <1>4 DEF Next, vars

-------------------------------------------------------------------------------
(* How many threads are somewhere, when one moves.                          *)
LEMMA OneMoves ==
  ASSUME NEW A \in SUBSET Threads, NEW D \in SUBSET Threads, NEW t \in Threads,
         \A u \in Threads : u # t => (u \in A <=> u \in D)
  PROVE  /\ Cardinality(A) \in Nat /\ Cardinality(D) \in Nat
         /\ Cardinality(D) + B(t \in A) = Cardinality(A) + B(t \in D)
         /\ t \in A => Cardinality(A) > 0
<1>1. IsFiniteSet(A) /\ IsFiniteSet(D)
  BY FS_Subset, GemAssumption
<1>2. Cardinality(A) \in Nat /\ Cardinality(D) \in Nat
  BY <1>1, FS_CardinalityType
<1>. DEFINE R == A \ {t}
<1>3. /\ IsFiniteSet(R)
      /\ Cardinality(R) = IF t \in A THEN Cardinality(A) - 1 ELSE Cardinality(A)
  BY <1>1, FS_RemoveElement
<1>4. Cardinality(R) \in Nat
  BY <1>3, FS_CardinalityType
<1>5. D = IF t \in D THEN R \cup {t} ELSE R
  OBVIOUS
<1>6. t \notin R
  OBVIOUS
<1>. HIDE DEF R
<1>7. Cardinality(R \cup {t}) = Cardinality(R) + 1
  BY <1>3, <1>6, FS_AddElement
<1>8. Cardinality(D) = Cardinality(R) + B(t \in D)
  <2>1. CASE t \in D
    <3>1. D = R \cup {t}
      BY <1>5, <2>1
    <3>. QED
      BY <1>7, <2>1, <3>1 DEF B
  <2>2. CASE t \notin D
    <3>1. D = R
      BY <1>5, <2>2
    <3>. QED
      BY <1>4, <2>2, <3>1 DEF B
  <2>. QED
    BY <2>1, <2>2
<1>. QED
  BY <1>2, <1>3, <1>4, <1>8 DEF B

In(t, S, o) == pc[t].at \in S /\ pc[t].o = o

LEMMA InStepMoves ==
  ASSUME NEW t \in Threads, Only(t), NEW S, NEW o
  PROVE  /\ InStep(S, o) \in Nat /\ InStep(S, o)' \in Nat
         /\ InStep(S, o)' + B(In(t, S, o)) = InStep(S, o) + B(In(t, S, o)')
         /\ In(t, S, o) => InStep(S, o) > 0
<1>. DEFINE A == {u \in Threads : In(u, S, o)}
            D == {u \in Threads : In(u, S, o)'}
<1>1. A \in SUBSET Threads /\ D \in SUBSET Threads
  OBVIOUS
<1>2. \A u \in Threads : u # t => (u \in A <=> u \in D)
  BY DEF Only, In
<1>3. (t \in A <=> In(t, S, o)) /\ (t \in D <=> In(t, S, o)')
  OBVIOUS
<1>4. InStep(S, o) = Cardinality(A) /\ InStep(S, o)' = Cardinality(D)
  BY DEF InStep, In
<1>. HIDE DEF A, D
<1>5. /\ Cardinality(A) \in Nat /\ Cardinality(D) \in Nat
      /\ Cardinality(D) + B(t \in A) = Cardinality(A) + B(t \in D)
      /\ t \in A => Cardinality(A) > 0
  BY <1>1, <1>2, OneMoves
<1>. QED
  BY <1>3, <1>4, <1>5 DEF B

LEMMA InStepStays ==
  ASSUME UNCHANGED pc, NEW S, NEW o
  PROVE  InStep(S, o)' = InStep(S, o)
BY DEF InStep

LEMMA InStepNat ==
  ASSUME NEW S, NEW o
  PROVE  /\ InStep(S, o) \in Nat
         /\ \A t \in Threads : In(t, S, o) => InStep(S, o) > 0
<1>. DEFINE A == {u \in Threads : In(u, S, o)}
<1>1. A \in SUBSET Threads /\ (\A t \in Threads : In(t, S, o) <=> t \in A)
  OBVIOUS
<1>2. InStep(S, o) = Cardinality(A)
  BY DEF InStep, In
<1>. HIDE DEF A
<1>3. IsFiniteSet(A) /\ Cardinality(A) \in Nat
  BY <1>1, FS_Subset, FS_CardinalityType, GemAssumption
<1>4. \A t \in Threads : t \in A => Cardinality(A) > 0
  BY <1>1, OneMoves
<1>. QED
  BY <1>1, <1>2, <1>3, <1>4

(* The lock of an import is held exactly while its pages are mapped or      *)
(* unmapped, by the thread that does it.                                    *)
Locking ==
  /\ lock[Own] = None
  /\ \A t \in Threads : pc[t].o = Imp /\ pc[t].at \in Mapping \cup Unmapping <=> lock[Imp] = t

(* There are pages while there are pins, and none while they come or go.    *)
Paging ==
  /\ (pages[Own] <=> pins[Own] > 0)
  /\ lock[Imp] = None => (pages[Imp] <=> pins[Imp] > 0)
  /\ \A t \in Threads : pc[t].o = Imp /\ pc[t].at \in Mapping => ~pages[Imp] /\ pins[Imp] = 1
  /\ \A t \in Threads : pc[t].o = Imp /\ pc[t].at \in Unmapping => ~pages[Imp] /\ pins[Imp] = 0

Counting == kmap \in Nat /\ vmas \in [Objs -> Nat] /\ fbs \in Nat /\ shown \in Nat /\ fmaps \in Nat

PinnedOwn == pins[Own] = fmaps + B(pages[Imp]) + InStep({"mapTable", "unmapUnpin"}, Own)
                           + InStep({"mapTable", "unmapUnpin"}, Imp)

LEMMA CountingStep == TypeOK /\ Counting /\ [Next]_vars => Counting'
<1>. SUFFICES ASSUME TypeOK, Counting, [Next]_vars PROVE Counting'
  OBVIOUS
<1>. USE DEF Counting, counts, memory
<1>0. ASSUME NEW d, DropKernelUse(d) PROVE kmap' \in Nat
  BY <1>0, DropFacts
<1>1. ASSUME NEW t \in Threads, Call(t) PROVE Counting'
  <2>1. CASE \/ \E f \in Files : \/ CreateObject(t, f) \/ OpenOwn(t, f) \/ PrimeImport(t, f)
                                \/ OpenByName(t, f) \/ PrimeExport(t, f)
                                \/ \E o \in Objs : HandleClose(t, f, o) \/ BeginCpuAccess(t, f, o)
                                                  \/ Mmap(t, f, o)
             \/ Attach(t) \/ (\E h \in {"fd", "foreign"} : LetBufGo(t, h)) \/ ForeignMap(t)
             \/ VmapMark(t)
    BY <2>1 DEF CreateObject, OpenOwn, PrimeImport, OpenByName, PrimeExport, HandleClose,
       BeginCpuAccess, Mmap, Attach, LetBufGo, ForeignMap, VmapMark
  <2>2. CASE \E f \in Files, o \in Objs : FbCreate(t, f, o)
    BY <2>2 DEF FbCreate
  <2>3. CASE \E o \in Objs : VmOpen(t, o) \/ VmClose(t, o)
    BY <2>3 DEF VmOpen, VmClose, TypeOK
  <2>4. CASE Vunmap(t)
    BY <1>0, <2>4 DEF Vunmap
  <2>5. CASE ForeignUnmap(t) \/ FbDestroy(t) \/ PreparePlaneFb(t) \/ CleanupPlaneFb(t)
    BY <2>5 DEF ForeignUnmap, FbDestroy, PreparePlaneFb, CleanupPlaneFb
  <2>. QED
    BY <1>1, <2>1, <2>2, <2>3, <2>4, <2>5 DEF Call
<1>2. ASSUME NEW t \in Threads, Continue(t) PROVE Counting'
  BY <1>0, <1>2 DEF Continue, Put, Detach, MapMark, MapPin, MapTable, MapFailed, UnmapUnpin,
     UnmapMark,
     OpenCheck, OpenPin, OpenAlloc, UnpinImp, OpenFail, VmapLock, MmapMark, MmapMap, TypeOK
<1>. QED
  BY <1>1, <1>2 DEF Next, vars

LEMMA LockingStep == TypeOK /\ Shape /\ Locking /\ [Next]_vars => Locking'
<1>. SUFFICES ASSUME TypeOK, Shape, Locking, [Next]_vars PROVE Locking'
  OBVIOUS
<1>. USE GemAssumption DEF memory, counts
<1>0. lock \in [Objs -> Threads \cup {None}] /\ Own \in Objs /\ Imp \in Objs
  BY DEF TypeOK, Objs
<1>1. ASSUME UNCHANGED <<lock, pc>> PROVE Locking'
  BY <1>1 DEF Locking
<1>2. ASSUME UNCHANGED lock, NEW t \in Threads, Only(t),
             pc'[t].o = Imp /\ pc'[t].at \in Mapping \cup Unmapping
               <=> pc[t].o = Imp /\ pc[t].at \in Mapping \cup Unmapping
      PROVE  Locking'
  BY <1>2 DEF Locking, Only
<1>3. ASSUME NEW t \in Threads, Call(t) PROVE Locking'
  <2>1. UNCHANGED lock
    BY <1>3 DEF Call, CreateObject, OpenOwn, PrimeImport, OpenByName, PrimeExport, HandleClose,
       BeginCpuAccess, Mmap, FbCreate, Attach, LetBufGo, VmOpen, VmClose, ForeignMap, ForeignUnmap,
       VmapMark, Vunmap, FbDestroy, PreparePlaneFb, CleanupPlaneFb
  <2>2. \/ UNCHANGED pc
        \/ \E f \in Files : Begins(t, "open", Imp, f)
        \/ \E a \in {"put", "mmapMark"}, o \in Objs : Begins(t, a, o, None)
        \/ \E a \in {"mapMark", "unmapUnpin", "vmapLock"} : Begins(t, a, Own, None)
        \/ pc[t] = Idle /\ (Ends(t) \/ After(t, "put", Own, None))
    BY <1>3, BeginPlace, LetGoPlace DEF Call, CreateObject, OpenOwn, PrimeExport, FbCreate, VmOpen,
       Attach, Vunmap, PreparePlaneFb, CleanupPlaneFb, Objs, LetBufGo
  <2>3. pc[t] = Idle => pc[t].o = None
    BY DEF Idle
  <2>. QED
    BY <1>1, <1>2, <2>1, <2>2, <2>3 DEF Begins, After, Ends, Mapping, Unmapping
<1>4. ASSUME NEW t \in Threads, Put(t) PROVE Locking'
  <2>1. UNCHANGED lock
    BY <1>4 DEF Put
  <2>. QED
    BY <1>2, <1>4, <2>1, PutPlace DEF Ends, After, Mapping, Unmapping, Objs
<1>5. ASSUME NEW t \in Threads, Detach(t) PROVE Locking'
  <2>1. UNCHANGED lock /\ pc[t].at = "detach"
    BY <1>5 DEF Detach, At
  <2>. QED
    BY <1>2, <1>5, <2>1, LetGoPlace DEF Ends, After, Mapping, Unmapping
<1>6. ASSUME NEW t \in Threads, MapMark(t) \/ MapPin(t) \/ UnmapUnpin(t) PROVE Locking'
  <2>1. UNCHANGED lock
    BY <1>6 DEF MapMark, MapPin, UnmapUnpin
  <2>. QED
    BY <1>2, <1>6, <2>1, MapPlace DEF On, After, Mapping, Unmapping
<1>7. ASSUME NEW t \in Threads, MapTable(t) PROVE Locking'
  <2>1. pc[t].at = "mapTable" /\ pc[t].o \in Objs
    BY <1>7, MapPlace, OwnerOf
  <2>2. \/ pc[t].o = Own /\ UNCHANGED lock /\ Ends(t)
        \/ pc[t].o = Imp /\ lock' = [lock EXCEPT ![Imp] = None] /\ On(t, "openAlloc")
        \/ UNCHANGED lock /\ On(t, "mapFailed")
    BY <1>7, <2>1, GoFacts, IdleFacts DEF MapTable, Done, On, Ends, After, Steps, Objs
  <2>3. ASSUME pc[t].o = Imp, lock' = [lock EXCEPT ![Imp] = None], On(t, "openAlloc") PROVE Locking'
    BY <1>0, <2>1, <2>3 DEF Locking, On, After, Only, Mapping, Unmapping
  <2>. QED
    BY <1>2, <2>1, <2>2, <2>3 DEF On, Ends, After, Mapping, Unmapping
<1>8. ASSUME NEW t \in Threads, MapFailed(t) \/ UnmapMark(t) PROVE Locking'
  <2>1. pc[t].at \in {"mapFailed", "unmapMark"} /\ pc[t].o \in Objs
    BY <1>8, MapPlace, OwnerOf
  <2>2. CASE pc[t].o = Own
    <3>1. UNCHANGED lock
      BY <1>8, <2>2 DEF MapFailed, UnmapMark
    <3>. QED
      BY <1>2, <1>8, <2>2, <3>1, MapPlace DEF Ends, After
  <2>3. CASE pc[t].o = Imp
    <3>1. lock' = [lock EXCEPT ![Imp] = None]
      BY <1>8, <2>3 DEF MapFailed, UnmapMark
    <3>2. Only(t) /\ pc'[t].at \in {"openFail", "detach"}
      BY <1>8, <2>3, MapPlace DEF On, After
    <3>. QED
      BY <1>0, <2>1, <2>3, <3>1, <3>2 DEF Locking, Only, Mapping, Unmapping
  <2>. QED
    BY <2>1, <2>2, <2>3 DEF Objs
<1>9. ASSUME NEW t \in Threads, OpenCheck(t) \/ OpenAlloc(t) \/ OpenFail(t) PROVE Locking'
  <2>1. UNCHANGED lock
    BY <1>9 DEF OpenCheck, OpenAlloc, OpenFail
  <2>. QED
    BY <1>2, <1>9, <2>1, OpenPlace DEF On, After, Mapping, Unmapping
<1>10. ASSUME NEW t \in Threads, OpenPin(t) \/ UnpinImp(t) PROVE Locking'
  <2>1. lock[Imp] = None /\ pc[t].o = Imp /\ pc[t].at \in {"openPin", "openUnpin", "relUnpin"}
    BY <1>10 DEF OpenPin, UnpinImp, Shape, Opening, At
  <2>2. \/ UNCHANGED lock /\ Only(t) /\ pc'[t].at \in {"openAlloc", "detach", "openFail"}
        \/ lock' = [lock EXCEPT ![Imp] = t] /\ On(t, "mapMark")
        \/ lock' = [lock EXCEPT ![Imp] = t] /\ On(t, "unmapUnpin")
    BY <1>10, OpenPlace DEF OpenPin, UnpinImp, On, After
  <2>3. ASSUME UNCHANGED lock, Only(t), pc'[t].at \in {"openAlloc", "detach", "openFail"}
        PROVE  Locking'
    BY <1>2, <2>1, <2>3 DEF Mapping, Unmapping
  <2>4. ASSUME lock' = [lock EXCEPT ![Imp] = t], On(t, "mapMark") \/ On(t, "unmapUnpin")
        PROVE  Locking'
    BY <1>0, <2>1, <2>4 DEF Locking, On, After, Only, Mapping, Unmapping
  <2>. QED
    BY <2>2, <2>3, <2>4
<1>11. ASSUME NEW t \in Threads, VmapLock(t) \/ MmapMark(t) \/ MmapMap(t) PROVE Locking'
  <2>1. UNCHANGED lock
    BY <1>11 DEF VmapLock, MmapMark, MmapMap
  <2>. QED
    BY <1>2, <1>11, <2>1, MmapPlace DEF On, Ends, After, Mapping, Unmapping
<1>. QED
  BY <1>1, <1>3, <1>4, <1>5, <1>6, <1>7, <1>8, <1>9, <1>10, <1>11 DEF Next, Continue, vars

(* The steps that leave pins, pages and locks alone, by where they leave    *)
(* their thread.                                                            *)
LEMMA PlainSteps ==
  ASSUME TypeOK, Shape, NEW t \in Threads,
         \/ Call(t) \/ Put(t) \/ Detach(t) \/ MapMark(t) \/ OpenCheck(t) \/ OpenAlloc(t)
         \/ OpenFail(t) \/ VmapLock(t) \/ MmapMark(t) \/ MmapMap(t)
  PROVE  /\ UNCHANGED <<pins, pages, lock>>
         /\ \/ UNCHANGED pc
            \/ /\ Only(t)
               /\ pc'[t].o = Imp =>
                    \/ pc'[t].at \notin Mapping \cup Unmapping
                    \/ pc[t].o = Imp /\ pc[t].at = "mapMark" /\ pc'[t].at = "mapPin"
<1>. USE GemAssumption DEF memory, counts
<1>1. CASE Call(t)
  <2>1. UNCHANGED <<pins, pages, lock>>
    BY <1>1 DEF Call, CreateObject, OpenOwn, PrimeImport, OpenByName, PrimeExport, HandleClose,
       BeginCpuAccess, Mmap, FbCreate, Attach, LetBufGo, VmOpen, VmClose, ForeignMap, ForeignUnmap,
       VmapMark, Vunmap, FbDestroy, PreparePlaneFb, CleanupPlaneFb
  <2>2. \/ UNCHANGED pc
        \/ \E f \in Files : Begins(t, "open", Imp, f)
        \/ \E a \in {"put", "mmapMark"}, o \in Objs : Begins(t, a, o, None)
        \/ \E a \in {"mapMark", "unmapUnpin", "vmapLock"} : Begins(t, a, Own, None)
        \/ Ends(t) \/ After(t, "put", Own, None)
    BY <1>1, BeginPlace, LetGoPlace DEF Call, CreateObject, OpenOwn, PrimeExport, FbCreate, VmOpen,
       Attach, Vunmap, PreparePlaneFb, CleanupPlaneFb, Objs
  <2>. QED
    BY <2>1, <2>2 DEF Begins, After, Ends, Mapping, Unmapping
<1>2. CASE Put(t) \/ Detach(t)
  <2>1. UNCHANGED <<pins, pages, lock>>
    BY <1>2 DEF Put, Detach
  <2>. QED
    BY <1>2, <2>1, PutPlace, LetGoPlace DEF Ends, After, Mapping, Unmapping, Objs
<1>3. CASE MapMark(t) \/ OpenCheck(t) \/ OpenAlloc(t) \/ OpenFail(t)
  <2>1. UNCHANGED <<pins, pages, lock>>
    BY <1>3 DEF MapMark, OpenCheck, OpenAlloc, OpenFail
  <2>. QED
    BY <1>3, <2>1, MapPlace, OpenPlace DEF On, After, Mapping, Unmapping
<1>4. CASE VmapLock(t) \/ MmapMark(t) \/ MmapMap(t)
  <2>1. UNCHANGED <<pins, pages, lock>>
    BY <1>4 DEF VmapLock, MmapMark, MmapMap
  <2>. QED
    BY <1>4, <2>1, MmapPlace DEF On, Ends, After, Mapping, Unmapping
<1>. QED
  BY <1>1, <1>2, <1>3, <1>4

LEMMA UnpinOwnFacts ==
  ASSUME TypeOK, UnpinOwn
  PROVE  /\ pins'[Own] = pins[Own] - 1 /\ pins'[Imp] = pins[Imp]
         /\ pages'[Imp] = pages[Imp] /\ (pages'[Own] <=> pins[Own] > 1)
<1>1. pages \in [Objs -> BOOLEAN] /\ pins \in [Objs -> Int] /\ Own \in Objs /\ Imp \in Objs
      /\ Own # Imp
  BY GemAssumption DEF TypeOK, Objs
<1>2. pins'[Own] = pins[Own] - 1 /\ pins'[Imp] = pins[Imp]
  BY <1>1 DEF UnpinOwn
<1>. DEFINE b == pins[Own] > 1
<1>3. pages' = [pages EXCEPT ![Own] = b]
  BY DEF UnpinOwn
<1>4. pages'[Own] = b /\ pages'[Imp] = pages[Imp]
  <2>. HIDE DEF b
  <2>. QED
    BY <1>1, <1>3, Zenon
<1>. QED
  BY <1>2, <1>4

LEMMA PagingStep ==
  TypeOK /\ Shape /\ Locking /\ Counting /\ PinnedOwn /\ Paging /\ [Next]_vars => Paging'
<1>. SUFFICES ASSUME TypeOK, Shape, Locking, Counting, PinnedOwn, Paging, [Next]_vars PROVE Paging'
  OBVIOUS
<1>. USE GemAssumption
<1>0. /\ pins \in [Objs -> Int] /\ pages \in [Objs -> BOOLEAN] /\ Own \in Objs /\ Imp \in Objs
      /\ lock \in [Objs -> Threads \cup {None}] /\ pins[Own] >= 0
  <2>1. \A o : InStep({"mapTable", "unmapUnpin"}, o) \in Nat
    BY InStepNat
  <2>. QED
    BY <2>1 DEF TypeOK, Objs, PinnedOwn, Counting, B
<1>1. ASSUME UNCHANGED <<pins, pages, lock, pc>> PROVE Paging'
  BY <1>1 DEF Paging
<1>2. ASSUME NEW t \in Threads,
             \/ Call(t) \/ Put(t) \/ Detach(t) \/ MapMark(t) \/ OpenCheck(t) \/ OpenAlloc(t)
             \/ OpenFail(t) \/ VmapLock(t) \/ MmapMark(t) \/ MmapMap(t)
      PROVE  Paging'
  <2>1. UNCHANGED <<pins, pages, lock>>
    BY <1>2, PlainSteps
  <2>2. \A u \in Threads : pc'[u].o = Imp /\ pc'[u].at \in Mapping =>
          pc[u].o = Imp /\ pc[u].at \in Mapping
    BY <1>2, PlainSteps DEF Only, Mapping, Unmapping
  <2>3. \A u \in Threads : pc'[u].o = Imp /\ pc'[u].at \in Unmapping =>
          pc[u].o = Imp /\ pc[u].at \in Unmapping
    BY <1>2, PlainSteps DEF Only, Mapping, Unmapping
  <2>. QED
    BY <2>1, <2>2, <2>3 DEF Paging
<1>3. ASSUME NEW t \in Threads, MapPin(t) PROVE Paging'
  <2>1. /\ UNCHANGED lock
        /\ \/ pins' = [pins EXCEPT ![Own] = @ + 1] /\ pages' = [pages EXCEPT ![Own] = TRUE]
           \/ UNCHANGED <<pins, pages>>
    BY <1>3, Zenon DEF MapPin, GetPages
  <2>2. /\ pins'[Imp] = pins[Imp] /\ pages'[Imp] = pages[Imp]
        /\ (pages'[Own] <=> pins'[Own] > 0)
    BY <1>0, <2>1 DEF Paging
  <2>3. pc[t].at = "mapPin" /\ pc'[t].at \in {"mapTable", "mapFailed"} /\ pc'[t].o = pc[t].o
        /\ \A u \in Threads : u # t => pc'[u] = pc[u]
    BY <1>3, MapPlace DEF On, After, Only
  <2>. QED
    BY <2>1, <2>2, <2>3 DEF Paging, Mapping, Unmapping
<1>4. ASSUME NEW t \in Threads, MapTable(t) PROVE Paging'
  <2>1. pc[t].at = "mapTable" /\ pc[t].o \in Objs
    BY <1>4, MapPlace, OwnerOf
  <2>2. \/ pc[t].o = Own /\ UNCHANGED <<lock, pages, pins>> /\ Ends(t)
        \/ /\ pc[t].o = Imp /\ lock' = [lock EXCEPT ![Imp] = None] /\ On(t, "openAlloc")
           /\ UNCHANGED pins /\ pages' = [pages EXCEPT ![Imp] = TRUE]
        \/ UNCHANGED lock /\ On(t, "mapFailed") /\ UnpinOwn
    BY <1>4, <2>1, GoFacts, IdleFacts DEF MapTable, Done, On, Ends, After, Steps, Objs
  <2>3. CASE pc[t].o = Own /\ UNCHANGED <<lock, pages, pins>> /\ Ends(t)
    BY <2>3 DEF Paging, Ends, After, Only, Mapping, Unmapping
  <2>4. CASE /\ pc[t].o = Imp /\ lock' = [lock EXCEPT ![Imp] = None] /\ On(t, "openAlloc")
             /\ UNCHANGED pins /\ pages' = [pages EXCEPT ![Imp] = TRUE]
    <3>1. pins[Imp] = 1 /\ pages'[Imp] = TRUE /\ pages'[Own] = pages[Own]
      BY <1>0, <2>1, <2>4 DEF Paging, Mapping
    <3>2. \A u \in Threads : ~(pc'[u].o = Imp /\ pc'[u].at \in Mapping \cup Unmapping)
      BY <2>1, <2>4 DEF Locking, On, After, Only, Mapping, Unmapping
    <3>. QED
      BY <2>4, <3>1, <3>2 DEF Paging
  <2>5. CASE UNCHANGED lock /\ On(t, "mapFailed") /\ UnpinOwn
    <3>1. /\ pins'[Imp] = pins[Imp] /\ pages'[Imp] = pages[Imp] /\ (pages'[Own] <=> pins'[Own] > 0)
      BY <1>0, <2>5, UnpinOwnFacts
    <3>. QED
      BY <2>1, <2>5, <3>1 DEF Paging, On, After, Only, Mapping, Unmapping
  <2>. QED
    BY <2>2, <2>3, <2>4, <2>5
<1>5. ASSUME NEW t \in Threads, UnmapUnpin(t) PROVE Paging'
  <2>1. UnpinOwn /\ UNCHANGED lock
    BY <1>5 DEF UnmapUnpin
  <2>2. /\ pins'[Imp] = pins[Imp] /\ pages'[Imp] = pages[Imp] /\ (pages'[Own] <=> pins'[Own] > 0)
    BY <1>0, <2>1, UnpinOwnFacts
  <2>3. pc[t].at = "unmapUnpin" /\ On(t, "unmapMark")
    BY <1>5, MapPlace
  <2>. QED
    BY <2>1, <2>2, <2>3 DEF Paging, On, After, Only, Mapping, Unmapping
<1>6. ASSUME NEW t \in Threads, MapFailed(t) \/ UnmapMark(t) PROVE Paging'
  <2>1. pc[t].at \in {"mapFailed", "unmapMark"} /\ pc[t].o \in Objs /\ Only(t)
        /\ pc'[t].at \notin Mapping \cup Unmapping
    BY <1>6, MapPlace, OwnerOf DEF On, Ends, After, Mapping, Unmapping
  <2>2. CASE pc[t].o = Own
    <3>1. UNCHANGED <<pins, pages, lock>>
      BY <1>6, <2>2 DEF MapFailed, UnmapMark
    <3>. QED
      BY <2>1, <3>1 DEF Paging, Only
  <2>3. CASE pc[t].o = Imp
    <3>1. UNCHANGED pages /\ pins' = (IF pc[t].at = "mapFailed" THEN [pins EXCEPT ![Imp] = @ - 1] ELSE pins)
      BY <1>6, <2>3 DEF MapFailed, UnmapMark, At
    <3>2. ~pages[Imp] /\ pins[Imp] = (IF pc[t].at = "mapFailed" THEN 1 ELSE 0)
      BY <2>1, <2>3 DEF Paging, Mapping, Unmapping
    <3>3. \A u \in Threads : ~(pc'[u].o = Imp /\ pc'[u].at \in Mapping \cup Unmapping)
      BY <2>1, <2>3 DEF Locking, Only, Mapping, Unmapping
    <3>4. pins'[Imp] = 0 /\ pins'[Own] = pins[Own]
      BY <1>0, <3>1, <3>2
    <3>. QED
      BY <3>1, <3>2, <3>3, <3>4 DEF Paging
  <2>. QED
    BY <2>1, <2>2, <2>3 DEF Objs
<1>7. ASSUME NEW t \in Threads, OpenPin(t) PROVE Paging'
  <2>1. lock[Imp] = None /\ pins' = [pins EXCEPT ![Imp] = @ + 1] /\ UNCHANGED pages
    BY <1>7 DEF OpenPin
  <2>2. pins'[Imp] = pins[Imp] + 1 /\ pins'[Own] = pins[Own] /\ (pages[Imp] <=> pins[Imp] > 0)
    BY <1>0, <2>1 DEF Paging
  <2>3. \A u \in Threads : ~(pc[u].o = Imp /\ pc[u].at \in Mapping \cup Unmapping)
    BY <2>1 DEF Locking
  <2>4. pc[t].at = "openPin" /\ On(t, IF pins[Imp] = 0 THEN "mapMark" ELSE "openAlloc")
        /\ pc[t].o = Imp
    BY <1>7, OpenPlace DEF Shape, Opening
  <2>5. pins[Imp] = 0 => lock' = [lock EXCEPT ![Imp] = t]
    BY <1>7 DEF OpenPin
  <2>6. CASE pins[Imp] = 0
    <3>1. lock'[Imp] # None
      BY <1>0, <2>5, <2>6
    <3>. QED
      BY <2>1, <2>2, <2>3, <2>4, <2>6, <3>1 DEF Paging, On, After, Only, Mapping, Unmapping
  <2>7. CASE pins[Imp] # 0
    <3>1. (pages'[Imp] <=> pins'[Imp] > 0)
      BY <1>0, <2>1, <2>2, <2>7
    <3>2. \A u \in Threads : ~(pc'[u].o = Imp /\ pc'[u].at \in Mapping \cup Unmapping)
      BY <2>3, <2>4, <2>7 DEF On, After, Only, Mapping, Unmapping
    <3>. QED
      BY <2>1, <2>2, <3>1, <3>2 DEF Paging
  <2>. QED
    BY <2>6, <2>7
<1>8. ASSUME NEW t \in Threads, UnpinImp(t) PROVE Paging'
  <2>1. lock[Imp] = None /\ pins' = [pins EXCEPT ![Imp] = @ - 1]
    BY <1>8 DEF UnpinImp
  <2>2. pins'[Imp] = pins[Imp] - 1 /\ pins'[Own] = pins[Own] /\ (pages[Imp] <=> pins[Imp] > 0)
    BY <1>0, <2>1 DEF Paging
  <2>3. \A u \in Threads : ~(pc[u].o = Imp /\ pc[u].at \in Mapping \cup Unmapping)
    BY <2>1 DEF Locking
  <2>4. pc[t].o = Imp /\ Only(t) /\ pc'[t].o = Imp
        /\ pc'[t].at \in (IF pins[Imp] = 1 THEN {"unmapUnpin"} ELSE {"detach", "openFail"})
    BY <1>8, OpenPlace DEF Shape, Opening, On, After
  <2>5. CASE pins[Imp] = 1
    <3>1. pages' = [pages EXCEPT ![Imp] = FALSE] /\ lock' = [lock EXCEPT ![Imp] = t]
      BY <1>8, <2>5 DEF UnpinImp
    <3>2. ~pages'[Imp] /\ pages'[Own] = pages[Own] /\ lock'[Imp] # None
      BY <1>0, <3>1
    <3>. QED
      BY <2>2, <2>3, <2>4, <2>5, <3>2 DEF Paging, Only, Mapping, Unmapping
  <2>6. CASE pins[Imp] # 1
    <3>1. UNCHANGED pages
      BY <1>8, <2>6 DEF UnpinImp
    <3>2. (pages'[Imp] <=> pins'[Imp] > 0)
      BY <1>0, <2>2, <2>6, <3>1
    <3>3. \A u \in Threads : ~(pc'[u].o = Imp /\ pc'[u].at \in Mapping \cup Unmapping)
      BY <2>3, <2>4, <2>6 DEF Only, Mapping, Unmapping
    <3>. QED
      BY <2>2, <3>1, <3>2, <3>3 DEF Paging
  <2>. QED
    BY <2>5, <2>6
<1>. QED
  BY <1>1, <1>2, <1>3, <1>4, <1>5, <1>6, <1>7, <1>8 DEF Next, Continue, vars

(* The pins of Own balance when they change by as much as what they are for. *)
Pinning(t, o) == In(t, {"mapTable", "unmapUnpin"}, o)

LEMMA PinBalance ==
  ASSUME TypeOK, TypeOK', Counting, Counting', PinnedOwn, NEW t \in Threads, Only(t),
         pins'[Own] + fmaps + B(pages[Imp]) + B(Pinning(t, Own)) + B(Pinning(t, Imp))
           = pins[Own] + fmaps' + B(pages'[Imp]) + B(Pinning(t, Own)') + B(Pinning(t, Imp)')
  PROVE  PinnedOwn'
<1>. DEFINE S == {"mapTable", "unmapUnpin"}
<1>1. /\ InStep(S, Own) \in Nat /\ InStep(S, Own)' \in Nat
      /\ InStep(S, Own)' + B(In(t, S, Own)) = InStep(S, Own) + B(In(t, S, Own)')
      /\ InStep(S, Imp) \in Nat /\ InStep(S, Imp)' \in Nat
      /\ InStep(S, Imp)' + B(In(t, S, Imp)) = InStep(S, Imp) + B(In(t, S, Imp)')
  BY InStepMoves
<1>2. pins[Own] = fmaps + B(pages[Imp]) + InStep(S, Own) + InStep(S, Imp)
  BY DEF PinnedOwn
<1>3. pins[Own] \in Int /\ pins'[Own] \in Int /\ fmaps \in Nat /\ fmaps' \in Nat
  BY DEF TypeOK, Objs, Counting
<1>4. pins'[Own] = fmaps' + B(pages'[Imp]) + InStep(S, Own)' + InStep(S, Imp)'
  <2>. HIDE DEF S
  <2>1. Pinning(t, Own) = In(t, S, Own) /\ Pinning(t, Imp) = In(t, S, Imp)
    BY DEF Pinning, S
  <2>2. Pinning(t, Own)' = In(t, S, Own)' /\ Pinning(t, Imp)' = In(t, S, Imp)'
    BY DEF Pinning, S
  <2>. QED
    BY <1>1, <1>2, <1>3, <2>1, <2>2 DEF B
<1>. QED
  BY <1>4 DEF PinnedOwn

LEMMA PinnedStep ==
  ASSUME TypeOK, Shape, Locking, Counting, Paging, PinnedOwn, [Next]_vars
  PROVE  PinnedOwn'
<1>. USE GemAssumption
<1>0. /\ pins \in [Objs -> Int] /\ pages \in [Objs -> BOOLEAN] /\ Own \in Objs /\ Imp \in Objs
      /\ fmaps \in Nat /\ fmaps' \in Nat /\ TypeOK' /\ Counting'
  BY TypeStep, CountingStep DEF TypeOK, Objs, Counting
<1>1. ASSUME UNCHANGED <<pins, pages, fmaps, pc>> PROVE PinnedOwn'
  BY <1>1 DEF PinnedOwn, InStep
<1>2. ASSUME NEW t \in Threads,
             \/ Call(t) /\ ~ForeignUnmap(t)
             \/ Put(t) \/ Detach(t) \/ MapMark(t) \/ OpenCheck(t) \/ OpenAlloc(t)
             \/ OpenFail(t) \/ VmapLock(t) \/ MmapMark(t) \/ MmapMap(t)
      PROVE  PinnedOwn'
  <2>1. UNCHANGED <<pins, pages>>
    BY <1>2, PlainSteps
  <2>2. UNCHANGED fmaps
    BY <1>2 DEF Call, CreateObject, OpenOwn, PrimeImport, OpenByName, PrimeExport, HandleClose,
       BeginCpuAccess, Mmap, FbCreate, Attach, LetBufGo, VmOpen, VmClose, ForeignMap,
       VmapMark, Vunmap, FbDestroy, PreparePlaneFb, CleanupPlaneFb, Put, Detach, MapMark,
       OpenCheck, OpenAlloc, OpenFail, VmapLock, MmapMark, MmapMap, counts
  <2>3. UNCHANGED pc \/
        (Only(t) /\ ~Pinning(t, Own) /\ ~Pinning(t, Own)' /\ ~Pinning(t, Imp) /\ ~Pinning(t, Imp)')
    <3>1. CASE Call(t) /\ ~ForeignUnmap(t)
      <4>1. \/ UNCHANGED pc
            \/ \E f \in Files : Begins(t, "open", Imp, f)
            \/ \E a \in {"put", "mmapMark"}, o \in Objs : Begins(t, a, o, None)
            \/ \E a \in {"mapMark", "vmapLock"} : Begins(t, a, Own, None)
            \/ pc[t] = Idle /\ (Ends(t) \/ After(t, "put", Own, None))
        BY <3>1, BeginPlace, LetGoPlace DEF Call, CreateObject, OpenOwn, PrimeExport, FbCreate,
           VmOpen, Attach, Vunmap, PreparePlaneFb, CleanupPlaneFb, Objs, LetBufGo
      <4>2. pc[t] = Idle => pc[t].at = "idle"
        BY DEF Idle
      <4>. QED
        BY <4>1, <4>2 DEF Begins, After, Ends, Pinning, In
    <3>2. CASE Put(t) \/ Detach(t)
      <4>1. pc[t].at \in {"put", "detach"}
        BY <3>2 DEF Put, Detach, At
      <4>. QED
        BY <3>2, <4>1, PutPlace, LetGoPlace DEF Ends, After, Pinning, In, Objs
    <3>3. CASE MapMark(t) \/ OpenCheck(t) \/ OpenAlloc(t) \/ OpenFail(t)
      BY <3>3, MapPlace, OpenPlace DEF On, After, Pinning, In
    <3>4. CASE VmapLock(t) \/ MmapMark(t) \/ MmapMap(t)
      BY <3>4, MmapPlace DEF On, Ends, After, Pinning, In
    <3>. QED
      BY <1>2, <3>1, <3>2, <3>3, <3>4
  <2>. QED
    BY <1>0, <1>1, <2>1, <2>2, <2>3, PinBalance DEF B
<1>3. ASSUME NEW t \in Threads, ForeignUnmap(t) PROVE PinnedOwn'
  <2>1. fmaps' = fmaps - 1 /\ UNCHANGED <<pins, pages>>
    BY <1>3 DEF ForeignUnmap, memory
  <2>2. Only(t) /\ ~Pinning(t, Own) /\ Pinning(t, Own)' /\ ~Pinning(t, Imp) /\ ~Pinning(t, Imp)'
    BY <1>3, BeginPlace DEF Begins, After, Pinning, In
  <2>. QED
    BY <1>0, <2>1, <2>2, PinBalance DEF B
<1>4. ASSUME NEW t \in Threads, MapPin(t) PROVE PinnedOwn'
  <2>1. pc[t].at = "mapPin" /\ Only(t) /\ pc'[t].o = pc[t].o /\ pc[t].o \in Objs
        /\ UNCHANGED fmaps
    BY <1>4, MapPlace, OwnerOf DEF On, After, MapPin, counts
  <2>2. \/ pins'[Own] = pins[Own] + 1 /\ pages'[Imp] = pages[Imp] /\ pc'[t].at = "mapTable"
        \/ UNCHANGED <<pins, pages>> /\ pc'[t].at = "mapFailed"
    BY <1>0, <1>4, GoFacts DEF MapPin, GetPages, Steps
  <2>3. ~Pinning(t, Own) /\ ~Pinning(t, Imp)
    BY <2>1 DEF Pinning, In
  <2>4. CASE pins'[Own] = pins[Own] + 1 /\ pages'[Imp] = pages[Imp] /\ pc'[t].at = "mapTable"
    <3>1. B(Pinning(t, Own)') + B(Pinning(t, Imp)') = 1
      BY <2>1, <2>4 DEF Pinning, In, B, Objs
    <3>. QED
      BY <1>0, <2>1, <2>3, <2>4, <3>1, PinBalance DEF B
  <2>5. CASE UNCHANGED <<pins, pages>> /\ pc'[t].at = "mapFailed"
    BY <1>0, <2>1, <2>3, <2>5, PinBalance DEF B, Pinning, In
  <2>. QED
    BY <2>2, <2>4, <2>5
<1>5. ASSUME NEW t \in Threads, MapTable(t) PROVE PinnedOwn'
  <2>1. pc[t].at = "mapTable" /\ pc[t].o \in Objs /\ Only(t)
        /\ pc'[t].at \in {"idle", "openAlloc", "mapFailed"}
    BY <1>5, MapPlace, OwnerOf DEF On, Ends, After
  <2>2. B(Pinning(t, Own)) + B(Pinning(t, Imp)) = 1 /\ ~Pinning(t, Own)' /\ ~Pinning(t, Imp)'
    BY <2>1 DEF Pinning, In, B, Objs
  <2>3. \/ pc[t].o = Own /\ fmaps' = fmaps + 1 /\ UNCHANGED <<pages, pins>>
        \/ pc[t].o = Imp /\ UNCHANGED <<fmaps, pins>> /\ pages' = [pages EXCEPT ![Imp] = TRUE]
        \/ UNCHANGED fmaps /\ UnpinOwn
    BY <1>5, <2>1 DEF MapTable, Objs
  <2>4. CASE pc[t].o = Own /\ fmaps' = fmaps + 1 /\ UNCHANGED <<pages, pins>>
    BY <1>0, <2>1, <2>2, <2>4, PinBalance DEF B
  <2>5. CASE pc[t].o = Imp /\ UNCHANGED <<fmaps, pins>> /\ pages' = [pages EXCEPT ![Imp] = TRUE]
    <3>1. ~pages[Imp] /\ pages'[Imp]
      BY <1>0, <2>1, <2>5 DEF Paging, Mapping
    <3>. QED
      BY <1>0, <2>1, <2>2, <2>5, <3>1, PinBalance DEF B
  <2>6. CASE UNCHANGED fmaps /\ UnpinOwn
    BY <1>0, <2>1, <2>2, <2>6, UnpinOwnFacts, PinBalance DEF B
  <2>. QED
    BY <2>3, <2>4, <2>5, <2>6
<1>6. ASSUME NEW t \in Threads, UnmapUnpin(t) PROVE PinnedOwn'
  <2>1. pc[t].at = "unmapUnpin" /\ pc[t].o \in Objs /\ Only(t) /\ pc'[t].at = "unmapMark"
        /\ UNCHANGED fmaps /\ UnpinOwn
    BY <1>6, MapPlace, OwnerOf DEF On, After, UnmapUnpin, counts
  <2>2. B(Pinning(t, Own)) + B(Pinning(t, Imp)) = 1 /\ ~Pinning(t, Own)' /\ ~Pinning(t, Imp)'
    BY <2>1 DEF Pinning, In, B, Objs
  <2>. QED
    BY <1>0, <2>1, <2>2, UnpinOwnFacts, PinBalance DEF B
<1>7. ASSUME NEW t \in Threads, MapFailed(t) \/ UnmapMark(t) \/ OpenPin(t) PROVE PinnedOwn'
  <2>1. UNCHANGED <<fmaps, pages>> /\ pins'[Own] = pins[Own]
    BY <1>0, <1>7 DEF MapFailed, UnmapMark, OpenPin, counts
  <2>2. Only(t) /\ ~Pinning(t, Own) /\ ~Pinning(t, Own)' /\ ~Pinning(t, Imp) /\ ~Pinning(t, Imp)'
    BY <1>7, MapPlace, OpenPlace DEF On, Ends, After, Pinning, In
  <2>. QED
    BY <1>0, <2>1, <2>2, PinBalance DEF B
<1>8. ASSUME NEW t \in Threads, UnpinImp(t) PROVE PinnedOwn'
  <2>1. lock[Imp] = None /\ pins'[Own] = pins[Own] /\ UNCHANGED fmaps
    BY <1>0, <1>8 DEF UnpinImp, counts
  <2>2. pc[t].o = Imp /\ Only(t) /\ pc'[t].o = Imp /\ pc[t].at \in {"openUnpin", "relUnpin"}
        /\ pc'[t].at \in (IF pins[Imp] = 1 THEN {"unmapUnpin"} ELSE {"detach", "openFail"})
    BY <1>8, OpenPlace DEF Shape, Opening, On, After
  <2>3. IF pins[Imp] = 1 THEN pages[Imp] /\ ~pages'[Imp] ELSE UNCHANGED pages
    BY <1>0, <1>8, <2>1 DEF UnpinImp, Paging
  <2>4. /\ ~Pinning(t, Own) /\ ~Pinning(t, Imp) /\ ~Pinning(t, Own)'
        /\ Pinning(t, Imp)' <=> pins[Imp] = 1
    BY <2>2 DEF Pinning, In
  <2>. QED
    BY <1>0, <2>1, <2>2, <2>3, <2>4, PinBalance DEF B
<1>. QED
  BY <1>1, <1>2, <1>3, <1>4, <1>5, <1>6, <1>7, <1>8 DEF Next, Continue, vars

-------------------------------------------------------------------------------
(* What the references of an object are for, and the threads that have one. *)
Extra(o) == IF o = Own THEN fbs + B(exported) ELSE 0
Owed(o) == Cardinality(handles[o]) + vmas[o] + leaked[o] + Extra(o)
Holders(o) == Cardinality({t \in Threads : HoldsRef(t, o)})
Counted == \A o \in Objs : refs[o] = Owed(o) + Holders(o)

LEMMA HoldersMove ==
  ASSUME NEW t \in Threads, Only(t), NEW o
  PROVE  /\ Holders(o) \in Nat /\ Holders(o)' \in Nat
         /\ Holders(o)' + B(HoldsRef(t, o)) = Holders(o) + B(HoldsRef(t, o)')
<1>. DEFINE A == {u \in Threads : HoldsRef(u, o)}
            D == {u \in Threads : HoldsRef(u, o)'}
<1>1. A \in SUBSET Threads /\ D \in SUBSET Threads
  OBVIOUS
<1>2. \A u \in Threads : u # t => (u \in A <=> u \in D)
  BY DEF Only, HoldsRef
<1>3. (t \in A <=> HoldsRef(t, o)) /\ (t \in D <=> HoldsRef(t, o)')
  OBVIOUS
<1>4. Holders(o) = Cardinality(A) /\ Holders(o)' = Cardinality(D)
  BY DEF Holders
<1>. HIDE DEF A, D
<1>5. /\ Cardinality(A) \in Nat /\ Cardinality(D) \in Nat
      /\ Cardinality(D) + B(t \in A) = Cardinality(A) + B(t \in D)
  BY <1>1, <1>2, OneMoves
<1>. QED
  BY <1>3, <1>4, <1>5 DEF B

LEMMA HandleFacts ==
  ASSUME TypeOK, NEW o \in Objs, NEW f
  PROVE  /\ IsFiniteSet(handles[o]) /\ Cardinality(handles[o]) \in Nat
         /\ Cardinality(handles[o]) = 0 => handles[o] = {}
         /\ Cardinality({f}) = 1 /\ Cardinality({}) = 0
         /\ f \notin handles[o] => Cardinality(handles[o] \cup {f}) = Cardinality(handles[o]) + 1
         /\ f \in handles[o] => Cardinality(handles[o] \ {f}) = Cardinality(handles[o]) - 1
<1>1. IsFiniteSet(handles[o])
  <2>1. handles[o] \in SUBSET Files
    BY DEF TypeOK
  <2>. QED
    BY <2>1, FS_Subset, GemAssumption
<1>2. Cardinality(handles[o]) \in Nat /\ (Cardinality(handles[o]) = 0 => handles[o] = {})
  BY <1>1, FS_CardinalityType, FS_EmptySet
<1>3. Cardinality({f}) = 1 /\ Cardinality({}) = 0
  BY FS_Singleton, FS_EmptySet
<1>. QED
  BY <1>1, <1>2, <1>3, FS_AddElement, FS_RemoveElement

(* No references: nothing is owed, and no thread has one.  One reference,   *)
(* and a thread that has it: nothing else is left.                          *)
Unowned(o) ==
  /\ handles[o] = {} /\ vmas[o] = 0 /\ leaked[o] = 0
  /\ o = Own => fbs = 0 /\ ~exported

LEMMA OwnersFacts ==
  ASSUME TypeOK, Counting, Counted, NEW o \in Objs
  PROVE  /\ Owed(o) \in Nat /\ Holders(o) \in Nat /\ refs[o] \in Nat
         /\ Owed(o) = 0 => Unowned(o)
         /\ refs[o] = 0 => Unowned(o) /\ \A t \in Threads : ~HoldsRef(t, o)
         /\ \A t \in Threads : HoldsRef(t, o) /\ refs[o] = 1 =>
              Unowned(o) /\ \A u \in Threads : HoldsRef(u, o) => u = t
<1>. DEFINE A == {u \in Threads : HoldsRef(u, o)}
<1>1. A \in SUBSET Threads /\ (\A u \in Threads : HoldsRef(u, o) <=> u \in A)
  OBVIOUS
<1>2. Holders(o) = Cardinality(A)
  BY DEF Holders
<1>3. IsFiniteSet(A)
  BY <1>1, FS_Subset, GemAssumption
<1>4. Owed(o) \in Nat /\ (Owed(o) = 0 => Unowned(o))
  <2>1. Cardinality(handles[o]) \in Nat /\ (Cardinality(handles[o]) = 0 => handles[o] = {})
    BY HandleFacts
  <2>2. vmas[o] \in Nat /\ leaked[o] \in Nat /\ fbs \in Nat /\ B(exported) \in {0, 1}
    BY DEF Counting, TypeOK, B
  <2>3. B(exported) = 0 => ~exported
    BY DEF B
  <2>4. Extra(o) \in Nat /\ (o = Own /\ Extra(o) = 0 => fbs = 0 /\ B(exported) = 0)
    BY <2>2 DEF Extra
  <2>5. /\ Owed(o) \in Nat /\ Owed(o) >= Cardinality(handles[o]) /\ Owed(o) >= vmas[o]
        /\ Owed(o) >= leaked[o] /\ Owed(o) >= Extra(o)
    BY <2>1, <2>2, <2>4 DEF Owed
  <2>6. Owed(o) = 0 => Cardinality(handles[o]) = 0 /\ vmas[o] = 0 /\ leaked[o] = 0 /\ Extra(o) = 0
    BY <2>1, <2>2, <2>4, <2>5
  <2>. QED
    BY <2>1, <2>3, <2>4, <2>5, <2>6 DEF Unowned
<1>. HIDE DEF A
<1>5. Holders(o) \in Nat /\ (Holders(o) = 0 => A = {})
  BY <1>2, <1>3, FS_CardinalityType, FS_EmptySet
<1>6. refs[o] = Owed(o) + Holders(o)
  BY DEF Counted
<1>7. ASSUME NEW t \in Threads, t \in A, refs[o] = 1
      PROVE  Unowned(o) /\ A \ {t} = {}
  <2>1. Holders(o) # 0
    BY <1>5, <1>7
  <2>2. Owed(o) = 0 /\ Cardinality(A) = 1
    BY <1>2, <1>4, <1>5, <1>6, <1>7, <2>1
  <2>3. IsFiniteSet(A \ {t}) /\ Cardinality(A \ {t}) = 0
    BY <1>3, <1>7, <2>2, FS_RemoveElement
  <2>. QED
    BY <1>4, <2>2, <2>3, FS_EmptySet
<1>8. refs[o] = 0 => Unowned(o) /\ A = {}
  BY <1>4, <1>5, <1>6
<1>. QED
  BY <1>1, <1>4, <1>5, <1>6, <1>7, <1>8

LEMMA CountBalance ==
  ASSUME TypeOK, TypeOK', Counting, Counting', Counted, NEW t \in Threads, Only(t),
         \A o \in Objs : refs'[o] + Owed(o) + B(HoldsRef(t, o))
                           = refs[o] + Owed(o)' + B(HoldsRef(t, o)')
  PROVE  Counted'
<1>. SUFFICES ASSUME NEW o \in Objs PROVE refs'[o] = Owed(o)' + Holders(o)'
  BY DEF Counted
<1>1. /\ Holders(o) \in Nat /\ Holders(o)' \in Nat
      /\ Holders(o)' + B(HoldsRef(t, o)) = Holders(o) + B(HoldsRef(t, o)')
  BY HoldersMove
<1>2. Owed(o) \in Nat /\ refs[o] \in Int /\ refs'[o] \in Int
  BY OwnersFacts DEF TypeOK
<1>3. Owed(o)' \in Nat
  <2>1. IsFiniteSet(handles'[o])
    <3>1. handles'[o] \in SUBSET Files
      BY DEF TypeOK
    <3>. QED
      BY <3>1, FS_Subset, GemAssumption
  <2>2. Cardinality(handles'[o]) \in Nat
    BY <2>1, FS_CardinalityType
  <2>3. vmas'[o] \in Nat /\ leaked'[o] \in Nat /\ fbs' \in Nat /\ B(exported') \in Nat
    BY DEF Counting, TypeOK, B
  <2>4. Extra(o)' \in Nat
    BY <2>3 DEF Extra
  <2>. QED
    BY <2>2, <2>3, <2>4 DEF Owed
<1>4. refs[o] = Owed(o) + Holders(o)
  BY DEF Counted
<1>. QED
  BY <1>1, <1>2, <1>3, <1>4 DEF B
LEMMA OwedParts ==
  ASSUME TypeOK, Counting, NEW o \in Objs
  PROVE  /\ Cardinality(handles[o]) \in Nat /\ vmas[o] \in Nat /\ leaked[o] \in Nat
         /\ Extra(o) \in Nat
<1>1. Cardinality(handles[o]) \in Nat
  BY HandleFacts
<1>2. vmas[o] \in Nat /\ leaked[o] \in Nat /\ fbs \in Nat
  BY DEF Counting, TypeOK
<1>3. Extra(o) \in Nat
  BY <1>2 DEF Extra, B
<1>. QED
  BY <1>1, <1>2, <1>3

LEMMA NothingOwed ==
  ASSUME TypeOK, NEW o \in Objs, Unowned(o)
  PROVE  Owed(o) = 0
<1>1. Cardinality(handles[o]) = 0
  BY FS_EmptySet DEF Unowned
<1>2. Extra(o) = 0
  BY DEF Unowned, Extra, B
<1>. QED
  BY <1>1, <1>2 DEF Owed, Unowned

(* An object that does not exist yet has nothing.                           *)
Fresh ==
  /\ \A o \in Objs : state[o] = "none" => Unowned(o) /\ \A t \in Threads : pc[t].o # o
  /\ state[Imp] = "none" => opens = 0 /\ pins[Imp] = 0 /\ ~core[Imp]

(* What keeps Own alive for the foreign device and for the import, and its  *)
(* framebuffer for the planes.                                              *)
ForOther == {"mapMark", "mapPin", "mapTable", "unmapUnpin", "unmapMark", "vmapLock"}
Mapped == kmap > 0 /\ ~kbad
Held ==
  /\ buf # {} \/ state[Imp] = "live" => exported
  /\ fmaps > 0 \/ Mapped => "foreign" \in buf
  /\ \A t \in Threads : pc[t].o = Own /\ pc[t].at \in ForOther => "foreign" \in buf
  /\ shown > 0 => fbs > 0

(* A file is given a handle of the import by one thread at a time.          *)
Handed ==
  \A t \in Threads : pc[t].f # None /\ pc[t].at # "put" =>
    /\ pc[t].f \in handles[Imp]
    /\ \A u \in Threads : pc[u].f = pc[t].f /\ pc[u].at # "put" => u = t

(* One thread releases the import, when nobody else has a reference.        *)
Releases(t) ==
  pc[t].o = Imp /\ pc[t].f = None
    /\ pc[t].at \in {"relUnpin", "unmapUnpin", "unmapMark", "detach"}
Releasing ==
  \A t \in Threads : Releases(t) =>
    /\ state[Imp] = "live" /\ refs[Imp] = 0
    /\ \A u \in Threads : Releases(u) => u = t

LEMMA CountedStep ==
  ASSUME TypeOK, Shape, Counting, Counted, Fresh, Held, Handed, Releasing, [Next]_vars
  PROVE  Counted'
<1>. USE GemAssumption
<1>0. /\ refs \in [Objs -> Nat] /\ vmas \in [Objs -> Nat] /\ fbs \in Nat
      /\ leaked \in [Objs -> Nat] /\ Own \in Objs /\ Imp \in Objs /\ TypeOK' /\ Counting'
      /\ exported \in BOOLEAN /\ handles \in [Objs -> SUBSET Files] /\ Owed(Own) \in Nat
      /\ Owed(Imp) \in Nat
  BY TypeStep, CountingStep, OwnersFacts DEF TypeOK, Objs, Counting
<1>1. ASSUME UNCHANGED <<refs, handles, vmas, leaked, fbs, exported, pc>> PROVE Counted'
  BY <1>1 DEF Counted, Owed, Extra, Holders, HoldsRef
<1>2. ASSUME NEW t \in Threads, UNCHANGED pc PROVE Only(t)
  BY <1>2, TypePlaces DEF Only
<1>3. ASSUME NEW t \in Threads, Only(t),
             UNCHANGED <<refs, handles, vmas, leaked, fbs, exported>>,
             \A o \in Objs : HoldsRef(t, o)' <=> HoldsRef(t, o)
      PROVE  Counted'
  <2>1. \A o \in Objs : Owed(o)' = Owed(o) /\ Owed(o) \in Nat
    BY <1>3, OwnersFacts DEF Owed, Extra
  <2>. QED
    BY <1>0, <1>3, <2>1, CountBalance DEF B
<1>4. ASSUME NEW t \in Threads, NEW f \in Files, CreateObject(t, f) PROVE Counted'
  <2>1. /\ UNCHANGED <<vmas, leaked, fbs, exported, pc>>
        /\ refs' = [refs EXCEPT ![Own] = 1] /\ handles' = [handles EXCEPT ![Own] = {f}]
        /\ Unowned(Own) /\ \A u \in Threads : ~HoldsRef(u, Own)
    BY <1>0, <1>4 DEF CreateObject, counts, Fresh, HoldsRef
  <2>2. refs[Own] = 0
    <3>1. Owed(Own) = 0
      BY <1>0, <2>1, NothingOwed
    <3>2. Holders(Own) = 0
      <4>1. {u \in Threads : HoldsRef(u, Own)} = {}
        BY <2>1
      <4>. QED
        BY <4>1, FS_EmptySet DEF Holders
    <3>. QED
      BY <1>0, <3>1, <3>2 DEF Counted
  <2>3. Owed(Own) = 0 /\ Owed(Own)' = 1 /\ Owed(Imp)' = Owed(Imp)
    <3>1. Owed(Own) = 0
      BY <1>0, <2>1, NothingOwed
    <3>2. handles'[Own] = {f} /\ handles'[Imp] = handles[Imp] /\ Cardinality({f}) = 1
      BY <1>0, <2>1, HandleFacts
    <3>3. Extra(Own)' = 0 /\ Extra(Imp)' = Extra(Imp)
      BY <2>1 DEF Unowned, Extra, B
    <3>. QED
      BY <2>1, <3>1, <3>2, <3>3 DEF Owed, Unowned
  <2>4. \A o \in Objs : HoldsRef(t, o)' <=> HoldsRef(t, o)
    BY <2>1 DEF HoldsRef
  <2>. QED
    BY <1>0, <1>2, <2>1, <2>2, <2>3, <2>4, CountBalance DEF B, Objs
<1>5. ASSUME NEW t \in Threads,
             Attach(t) \/ Vunmap(t) \/ PreparePlaneFb(t) \/ CleanupPlaneFb(t)
      PROVE  Counted'
  BY <1>1, <1>5 DEF Attach, Vunmap, PreparePlaneFb, CleanupPlaneFb, counts
<1>6. ASSUME NEW t \in Threads, ForeignMap(t) \/ ForeignUnmap(t) \/ VmapMark(t) PROVE Counted'
  <2>1. UNCHANGED <<refs, handles, vmas, leaked, fbs, exported>>
    BY <1>6 DEF ForeignMap, ForeignUnmap, VmapMark, counts
  <2>2. Only(t) /\ \A o \in Objs : HoldsRef(t, o)' <=> HoldsRef(t, o)
    BY <1>6, BeginPlace DEF Begins, After, HoldsRef, Objs
  <2>. QED
    BY <1>3, <2>1, <2>2
<1>7. ASSUME NEW t \in Threads,
             \/ MapMark(t) \/ MapPin(t) \/ MapTable(t) \/ MapFailed(t) \/ UnmapUnpin(t)
             \/ UnmapMark(t) \/ OpenCheck(t) \/ OpenPin(t) \/ OpenAlloc(t) \/ UnpinImp(t)
             \/ VmapLock(t) \/ MmapMark(t)
      PROVE  Counted'
  <2>1. UNCHANGED <<refs, handles, vmas, leaked, fbs, exported>>
    BY <1>7 DEF MapMark, MapPin, MapTable, MapFailed, UnmapUnpin, UnmapMark, OpenCheck, OpenPin,
       OpenAlloc, UnpinImp, VmapLock, MmapMark, counts
  <2>2. pc[t].o \in Objs /\ (pc[t].o = Own => pc[t].f = None)
    BY <1>7, MapPlace, OpenPlace, MmapPlace, OwnerOf DEF Shape
  <2>3. CASE MapMark(t) \/ MapPin(t) \/ MapTable(t) \/ MapFailed(t) \/ UnmapUnpin(t) \/ UnmapMark(t)
    <3>1. Only(t) /\ \A o \in Objs : HoldsRef(t, o)' <=> HoldsRef(t, o)
      BY <2>2, <2>3, MapPlace DEF On, Ends, After, HoldsRef, Objs, Shape, Mapping
    <3>. QED
      BY <1>3, <2>1, <3>1
  <2>4. CASE OpenCheck(t) \/ OpenPin(t) \/ OpenAlloc(t) \/ UnpinImp(t)
    <3>1. Only(t) /\ \A o \in Objs : HoldsRef(t, o)' <=> HoldsRef(t, o)
      BY <2>2, <2>4, OpenPlace DEF On, After, HoldsRef, Objs, Shape, Opening
    <3>. QED
      BY <1>3, <2>1, <3>1
  <2>5. CASE VmapLock(t) \/ MmapMark(t)
    <3>1. Only(t) /\ \A o \in Objs : HoldsRef(t, o)' <=> HoldsRef(t, o)
      BY <2>2, <2>5, MmapPlace DEF On, Ends, After, HoldsRef, Objs, Shape
    <3>. QED
      BY <1>3, <2>1, <3>1
  <2>. QED
    BY <1>7, <2>3, <2>4, <2>5
<1>8. ASSUME NEW t \in Threads, Detach(t) \/ \E h \in {"fd", "foreign"} : LetBufGo(t, h)
      PROVE  Counted'
  <2>1. /\ UNCHANGED <<refs, handles, vmas, leaked, fbs>>
        /\ exported /\ (exported' <=> BufHeld')
    <3>1. CASE Detach(t)
      <4>1. Releases(t)
        BY <3>1 DEF Detach, At, Shape, Releases
      <4>2. exported
        BY <4>1 DEF Releasing, Held
      <4>. QED
        BY <3>1, <4>2 DEF Detach, counts
    <3>2. CASE \E h \in {"fd", "foreign"} : LetBufGo(t, h)
      BY <3>2 DEF LetBufGo, Held, counts
    <3>. QED
      BY <1>8, <3>1, <3>2
  <2>2. Only(t) /\ (\A o \in Objs : ~HoldsRef(t, o)) /\ ~HoldsRef(t, Imp)'
        /\ (HoldsRef(t, Own)' <=> ~BufHeld')
    <3>1. pc[t].f = None /\ pc[t].at \in {"idle", "detach"}
      BY <1>8 DEF Detach, LetBufGo, At, Idle, Shape
    <3>. QED
      BY <1>8, <3>1, LetGoPlace DEF Ends, After, HoldsRef, Objs
  <2>3. Owed(Own)' = Owed(Own) - B(~BufHeld') /\ Owed(Imp)' = Owed(Imp)
    <3>1. Extra(Imp)' = Extra(Imp) /\ Extra(Own)' = Extra(Own) - B(~BufHeld')
          /\ Extra(Own) \in Nat
      BY <1>0, <2>1 DEF Extra, B
    <3>. QED
      BY <1>0, <2>1, <3>1, OwedParts DEF Owed, B
  <2>. QED
    BY <1>0, <2>1, <2>2, <2>3, CountBalance DEF B, Objs
<1>9. ASSUME NEW t \in Threads, NEW f \in Files, OpenOwn(t, f) PROVE Counted'
  <2>1. /\ UNCHANGED <<vmas, leaked, fbs, exported, pc>> /\ refs' = [refs EXCEPT ![Own] = @ + 1]
        /\ handles' = [handles EXCEPT ![Own] = @ \cup {f}] /\ f \notin handles[Own]
    BY <1>9 DEF OpenOwn, counts
  <2>2. Owed(Own)' = Owed(Own) + 1 /\ Owed(Imp)' = Owed(Imp)
    <3>1. /\ Cardinality(handles'[Own]) = Cardinality(handles[Own]) + 1
          /\ handles'[Imp] = handles[Imp] /\ Extra(Own)' = Extra(Own) /\ Extra(Imp)' = Extra(Imp)
      BY <1>0, <2>1, HandleFacts DEF Extra
    <3>. QED
      BY <1>0, <2>1, <3>1, OwedParts DEF Owed
  <2>3. Only(t) /\ \A o \in Objs : HoldsRef(t, o)' <=> HoldsRef(t, o)
    BY <1>2, <2>1 DEF HoldsRef
  <2>. QED
    BY <1>0, <2>1, <2>2, <2>3, CountBalance DEF B, Objs
<1>10. ASSUME NEW t \in Threads, NEW f \in Files, PrimeImport(t, f) PROVE Counted'
  <2>1. /\ UNCHANGED <<vmas, leaked, fbs, exported>> /\ refs' = [refs EXCEPT ![Imp] = 2]
        /\ handles' = [handles EXCEPT ![Imp] = {f}]
        /\ Unowned(Imp) /\ \A u \in Threads : ~HoldsRef(u, Imp)
    BY <1>0, <1>10 DEF PrimeImport, counts, Fresh, HoldsRef
  <2>2. Holders(Imp) = 0
    <3>1. {u \in Threads : HoldsRef(u, Imp)} = {}
      BY <2>1
    <3>. QED
      BY <3>1, FS_EmptySet DEF Holders
  <2>3. Owed(Imp) = 0 /\ refs[Imp] = 0
    BY <1>0, <2>1, <2>2, NothingOwed DEF Counted
  <2>4. Owed(Imp)' = 1 /\ Owed(Own)' = Owed(Own)
    <3>1. handles'[Imp] = {f} /\ handles'[Own] = handles[Own] /\ Cardinality({f}) = 1
      BY <1>0, <2>1, HandleFacts
    <3>2. Extra(Imp)' = 0 /\ Extra(Own)' = Extra(Own)
      BY <2>1 DEF Extra
    <3>. QED
      BY <2>1, <3>1, <3>2 DEF Owed, Unowned
  <2>5. Only(t) /\ HoldsRef(t, Imp)' /\ ~HoldsRef(t, Imp) /\ ~HoldsRef(t, Own) /\ ~HoldsRef(t, Own)'
    BY <1>10, BeginPlace DEF Begins, After, HoldsRef, Objs
  <2>. QED
    BY <1>0, <2>1, <2>3, <2>4, <2>5, CountBalance DEF B, Objs
<1>11. ASSUME NEW t \in Threads, NEW f \in Files, OpenByName(t, f) PROVE Counted'
  <2>1. /\ UNCHANGED <<vmas, leaked, fbs, exported>> /\ refs' = [refs EXCEPT ![Imp] = @ + 2]
        /\ handles' = [handles EXCEPT ![Imp] = @ \cup {f}] /\ f \notin handles[Imp]
    BY <1>11 DEF OpenByName, counts
  <2>2. Owed(Imp)' = Owed(Imp) + 1 /\ Owed(Own)' = Owed(Own)
    <3>1. /\ Cardinality(handles'[Imp]) = Cardinality(handles[Imp]) + 1
          /\ handles'[Own] = handles[Own] /\ Extra(Own)' = Extra(Own) /\ Extra(Imp)' = Extra(Imp)
      BY <1>0, <2>1, HandleFacts DEF Extra
    <3>. QED
      BY <1>0, <2>1, <3>1, OwedParts DEF Owed
  <2>3. Only(t) /\ HoldsRef(t, Imp)' /\ ~HoldsRef(t, Imp) /\ ~HoldsRef(t, Own) /\ ~HoldsRef(t, Own)'
    BY <1>11, BeginPlace DEF Begins, After, HoldsRef, Objs
  <2>. QED
    BY <1>0, <2>1, <2>2, <2>3, CountBalance DEF B, Objs
<1>12. ASSUME NEW t \in Threads, NEW f \in Files, NEW o \in Objs, HandleClose(t, f, o)
       PROVE  Counted'
  <2>. DEFINE last == exported /\ ~BufHeld'
  <2>1. /\ UNCHANGED <<vmas, leaked, fbs>> /\ (exported' <=> exported /\ ~last)
        /\ refs' = [refs EXCEPT ![Own] = @ - B(last)]
        /\ handles' = [handles EXCEPT ![o] = @ \ {f}] /\ f \in handles[o]
    BY <1>12 DEF HandleClose, counts, B
  <2>2. /\ Cardinality(handles'[o]) = Cardinality(handles[o]) - 1
        /\ \A p \in Objs : p # o => handles'[p] = handles[p]
    BY <1>0, <2>1, HandleFacts
  <2>3. /\ Extra(Own)' = Extra(Own) - B(last) /\ Extra(Imp)' = Extra(Imp) /\ B(last) \in {0, 1}
        /\ refs'[Own] = refs[Own] - B(last) /\ refs'[Imp] = refs[Imp]
    <3>1. B(last) \in {0, 1} /\ B(exported') = B(exported) - B(last) /\ B(exported) \in {0, 1}
      BY <1>0, <2>1 DEF B
    <3>. HIDE DEF last
    <3>. QED
      BY <1>0, <2>1, <3>1 DEF Extra
  <2>4. Only(t) /\ HoldsRef(t, o)' /\ \A p \in Objs : ~HoldsRef(t, p) /\ (p # o => ~HoldsRef(t, p)')
    BY <1>12, BeginPlace DEF Begins, After, HoldsRef, Objs
  <2>. DEFINE d(p) == IF p = Own THEN B(last) ELSE 0
  <2>5. ASSUME NEW p \in Objs
        PROVE  refs'[p] + Owed(p) + B(HoldsRef(t, p)) = refs[p] + Owed(p)' + B(HoldsRef(t, p)')
    <3>1. d(p) \in {0, 1} /\ refs'[p] = refs[p] - d(p) /\ Extra(p)' = Extra(p) - d(p)
      <4>. HIDE DEF last
      <4>1. CASE p = Own
        BY <1>0, <2>3, <4>1
      <4>2. CASE p = Imp
        BY <1>0, <2>3, <4>2, OwedParts
      <4>. QED
        BY <4>1, <4>2 DEF Objs
    <3>. HIDE DEF d
    <3>2. CASE p = o
      <4>1. Owed(p)' = Owed(p) - 1 - d(p) /\ Owed(p) \in Nat
        BY <1>0, <2>1, <2>2, <3>1, <3>2, OwedParts DEF Owed
      <4>2. B(HoldsRef(t, p)) = 0 /\ B(HoldsRef(t, p)') = 1
        BY <2>4, <3>2 DEF B
      <4>. QED
        BY <1>0, <3>1, <4>1, <4>2
    <3>3. CASE p # o
      <4>1. Owed(p)' = Owed(p) - d(p) /\ Owed(p) \in Nat
        BY <1>0, <2>1, <2>2, <3>1, <3>3, OwedParts DEF Owed
      <4>2. B(HoldsRef(t, p)) = 0 /\ B(HoldsRef(t, p)') = 0
        BY <2>4, <3>3 DEF B
      <4>. QED
        BY <1>0, <3>1, <4>1, <4>2
    <3>. QED
      BY <3>2, <3>3
  <2>. QED
    BY <1>0, <2>4, <2>5, CountBalance
<1>13. ASSUME NEW t \in Threads, NEW f \in Files, NEW o \in Objs,
              BeginCpuAccess(t, f, o) \/ Mmap(t, f, o)
       PROVE  Counted'
  <2>1. /\ UNCHANGED <<handles, vmas, leaked, fbs, exported>>
        /\ refs' = [refs EXCEPT ![o] = @ + 1]
    BY <1>13 DEF BeginCpuAccess, Mmap, counts
  <2>2. \A p \in Objs : Owed(p)' = Owed(p) /\ Owed(p) \in Nat
    BY <1>0, <2>1 DEF Owed, Extra, Objs
  <2>3. Only(t) /\ HoldsRef(t, o)' /\ \A p \in Objs : ~HoldsRef(t, p) /\ (p # o => ~HoldsRef(t, p)')
    BY <1>13, BeginPlace DEF Begins, After, HoldsRef, Objs
  <2>. QED
    BY <1>0, <2>1, <2>2, <2>3, CountBalance DEF B
<1>14. ASSUME NEW t \in Threads, NEW f \in Files, NEW o \in Objs, FbCreate(t, f, o) PROVE Counted'
  <2>1. /\ UNCHANGED <<handles, vmas, exported, pc>> /\ refs' = [refs EXCEPT ![o] = @ + 1]
        /\ \/ leaked' = [leaked EXCEPT ![o] = @ + 1] /\ UNCHANGED fbs
           \/ o = Own /\ fbs' = fbs + 1 /\ UNCHANGED leaked
    BY <1>14 DEF FbCreate
  <2>2. Owed(o)' = Owed(o) + 1 /\ \A p \in Objs : p # o => Owed(p)' = Owed(p)
    <3>1. CASE leaked' = [leaked EXCEPT ![o] = @ + 1] /\ UNCHANGED fbs
      <4>1. Extra(Imp)' = Extra(Imp) /\ Extra(Own)' = Extra(Own)
        BY <2>1, <3>1 DEF Extra
      <4>. QED
        BY <1>0, <2>1, <3>1, <4>1, OwedParts DEF Owed, Objs
    <3>2. CASE o = Own /\ fbs' = fbs + 1 /\ UNCHANGED leaked
      <4>1. Extra(Imp)' = Extra(Imp) /\ Extra(Own)' = Extra(Own) + 1
        BY <1>0, <2>1, <3>2 DEF Extra, B
      <4>. QED
        BY <1>0, <2>1, <3>2, <4>1, OwedParts DEF Owed, Objs
    <3>. QED
      BY <2>1, <3>1, <3>2
  <2>3. Only(t) /\ \A p \in Objs : HoldsRef(t, p)' <=> HoldsRef(t, p)
    BY <1>2, <2>1 DEF HoldsRef
  <2>4. \A p \in Objs : Owed(p) \in Nat
    BY <1>0 DEF Objs
  <2>. QED
    BY <1>0, <2>1, <2>2, <2>3, <2>4, CountBalance DEF B
<1>15. ASSUME NEW t \in Threads, NEW f \in Files, PrimeExport(t, f) PROVE Counted'
  <2>1. /\ UNCHANGED <<handles, vmas, leaked, fbs, pc>> /\ exported'
        /\ refs' = [refs EXCEPT ![Own] = @ + (IF exported THEN 0 ELSE 1)]
    BY <1>15 DEF PrimeExport, counts
  <2>2. Owed(Own)' = Owed(Own) + (IF exported THEN 0 ELSE 1) /\ Owed(Imp)' = Owed(Imp)
    <3>1. Extra(Imp)' = Extra(Imp) /\ Extra(Own)' = Extra(Own) + (IF exported THEN 0 ELSE 1)
      BY <1>0, <2>1 DEF Extra, B
    <3>. QED
      BY <1>0, <2>1, <3>1, OwedParts DEF Owed
  <2>3. Only(t) /\ \A p \in Objs : HoldsRef(t, p)' <=> HoldsRef(t, p)
    BY <1>2, <2>1 DEF HoldsRef
  <2>. QED
    BY <1>0, <2>1, <2>2, <2>3, CountBalance DEF B, Objs
<1>16. ASSUME NEW t \in Threads, NEW o \in Objs, VmOpen(t, o) PROVE Counted'
  <2>1. /\ UNCHANGED <<handles, exported, leaked, fbs, pc>> /\ refs' = [refs EXCEPT ![o] = @ + 1]
        /\ vmas' = [vmas EXCEPT ![o] = @ + 1]
    BY <1>16 DEF VmOpen
  <2>2. Owed(o)' = Owed(o) + 1 /\ \A p \in Objs : p # o => Owed(p)' = Owed(p)
    BY <1>0, <2>1, OwedParts DEF Owed, Extra
  <2>3. Only(t) /\ \A p \in Objs : HoldsRef(t, p)' <=> HoldsRef(t, p)
    BY <1>2, <2>1 DEF HoldsRef
  <2>4. \A p \in Objs : Owed(p) \in Nat
    BY <1>0 DEF Objs
  <2>. QED
    BY <1>0, <2>1, <2>2, <2>3, <2>4, CountBalance DEF B
<1>17. ASSUME NEW t \in Threads, NEW o \in Objs, VmClose(t, o) \/ (FbDestroy(t) /\ o = Own)
       PROVE  Counted'
  <2>1. UNCHANGED <<refs, handles, exported, leaked>>
        /\ IF VmClose(t, o) THEN vmas' = [vmas EXCEPT ![o] = @ - 1] /\ UNCHANGED fbs
                            ELSE fbs' = fbs - 1 /\ UNCHANGED vmas
    BY <1>17 DEF VmClose, FbDestroy
  <2>2. Owed(o)' = Owed(o) - 1 /\ \A p \in Objs : p # o => Owed(p)' = Owed(p)
    <3>1. CASE VmClose(t, o)
      BY <1>0, <2>1, <3>1, OwedParts DEF Owed, Extra
    <3>2. CASE ~VmClose(t, o)
      <4>1. Extra(Imp)' = Extra(Imp) /\ Extra(Own)' = Extra(Own) - 1
        BY <1>0, <2>1, <3>2 DEF Extra, B
      <4>. QED
        BY <1>0, <1>17, <2>1, <3>2, <4>1, OwedParts DEF Owed, Objs
    <3>. QED
      BY <3>1, <3>2
  <2>3. Only(t) /\ HoldsRef(t, o)' /\ \A p \in Objs : ~HoldsRef(t, p) /\ (p # o => ~HoldsRef(t, p)')
    BY <1>17, BeginPlace DEF Begins, After, HoldsRef, Objs
  <2>4. \A p \in Objs : Owed(p) \in Nat
    BY <1>0 DEF Objs
  <2>. QED
    BY <1>0, <2>1, <2>2, <2>3, <2>4, CountBalance DEF B
<1>18. ASSUME NEW t \in Threads, Put(t) PROVE Counted'
  <2>1. /\ UNCHANGED <<handles, vmas, leaked, fbs, exported>>
        /\ refs' = [refs EXCEPT ![pc[t].o] = @ - 1]
    BY <1>18 DEF Put
  <2>2. \A p \in Objs : Owed(p)' = Owed(p) /\ Owed(p) \in Nat
    BY <1>0, <2>1 DEF Owed, Extra, Objs
  <2>3. Only(t) /\ pc[t].o \in Objs /\ HoldsRef(t, pc[t].o)
        /\ \A p \in Objs : ~HoldsRef(t, p)' /\ (p # pc[t].o => ~HoldsRef(t, p))
    BY <1>18, PutPlace DEF Ends, After, HoldsRef, Objs
  <2>. QED
    BY <1>0, <2>1, <2>2, <2>3, CountBalance DEF B
<1>19. ASSUME NEW t \in Threads, MmapMap(t) PROVE Counted'
  <2>0. PICK o \in Objs : o = pc[t].o
    BY <1>19, MmapPlace, OwnerOf
  <2>1. /\ UNCHANGED <<refs, handles, exported, fbs>>
        /\ \/ vmas' = [vmas EXCEPT ![o] = @ + 1] /\ UNCHANGED leaked
           \/ leaked' = [leaked EXCEPT ![o] = @ + 1] /\ UNCHANGED vmas
    BY <1>19, <2>0 DEF MmapMap
  <2>2. Only(t) /\ HoldsRef(t, o)
        /\ \A p \in Objs : ~HoldsRef(t, p)' /\ (p # o => ~HoldsRef(t, p))
    BY <1>19, <2>0, MmapPlace DEF Ends, After, HoldsRef, Objs
  <2>3. Owed(o)' = Owed(o) + 1 /\ \A p \in Objs : p # o => Owed(p)' = Owed(p)
    <3>1. CASE vmas' = [vmas EXCEPT ![o] = @ + 1] /\ UNCHANGED leaked
      BY <1>0, <2>1, <2>2, <3>1, OwedParts DEF Owed, Extra
    <3>2. CASE leaked' = [leaked EXCEPT ![o] = @ + 1] /\ UNCHANGED vmas
      BY <1>0, <2>1, <2>2, <3>2, OwedParts DEF Owed, Extra
    <3>. QED
      BY <2>1, <3>1, <3>2
  <2>4. \A p \in Objs : Owed(p) \in Nat
    BY <1>0 DEF Objs
  <2>5. ASSUME NEW p \in Objs
        PROVE  refs'[p] + Owed(p) + B(HoldsRef(t, p)) = refs[p] + Owed(p)' + B(HoldsRef(t, p)')
    BY <1>0, <2>1, <2>2, <2>3, <2>4 DEF B
  <2>. QED
    BY <1>0, <2>2, <2>5, CountBalance
<1>20. ASSUME NEW t \in Threads, OpenFail(t) PROVE Counted'
  <2>1. /\ UNCHANGED <<vmas, leaked, fbs, exported>> /\ refs' = [refs EXCEPT ![Imp] = @ - 1]
        /\ handles' = [handles EXCEPT ![Imp] = @ \ {pc[t].f}] /\ pc[t].at = "openFail"
    BY <1>20 DEF OpenFail, counts, At
  <2>2. pc[t].o = Imp /\ pc[t].f # None /\ pc[t].f \in handles[Imp]
    BY <2>1 DEF Shape, Opening, Handed
  <2>3. Owed(Imp)' = Owed(Imp) - 1 /\ Owed(Own)' = Owed(Own)
    <3>1. /\ Cardinality(handles'[Imp]) = Cardinality(handles[Imp]) - 1
          /\ handles'[Own] = handles[Own] /\ Extra(Own)' = Extra(Own) /\ Extra(Imp)' = Extra(Imp)
      BY <1>0, <2>1, <2>2, HandleFacts DEF Extra
    <3>. QED
      BY <1>0, <2>1, <3>1, OwedParts DEF Owed
  <2>4. Only(t) /\ \A p \in Objs : HoldsRef(t, p)' <=> HoldsRef(t, p)
    BY <1>20, <2>2, OpenPlace DEF On, After, HoldsRef
  <2>. QED
    BY <1>0, <2>1, <2>3, <2>4, CountBalance DEF B, Objs
<1>21. CASE UNCHANGED vars
  BY <1>1, <1>21 DEF vars
<1>. QED
  <2>1. ASSUME NEW t \in Threads, Call(t) PROVE Counted'
    BY <1>4, <1>5, <1>6, <1>8, <1>9, <1>10, <1>11, <1>12, <1>13, <1>14, <1>15, <1>16, <1>17,
       <1>0, <2>1 DEF Call
  <2>2. ASSUME NEW t \in Threads, Continue(t) PROVE Counted'
    BY <1>7, <1>8, <1>18, <1>19, <1>20, <2>2 DEF Continue
  <2>. QED
    BY <1>21, <2>1, <2>2 DEF Next

LEMMA HeldStep ==
  ASSUME TypeOK, Shape, Counting, Held, [Next]_vars
  PROVE  Held'
<1>. USE GemAssumption DEF Mapped
<1>0. fmaps \in Nat /\ kmap \in Nat /\ fbs \in Nat /\ shown \in Nat /\ Own \in Objs /\ Imp \in Objs
      /\ state \in [Objs -> {"none", "live", "freed"}]
  BY DEF Counting, TypeOK, Objs
<1>1. ASSUME UNCHANGED <<state, exported, buf, fmaps, kmap, kbad, shown, fbs>>, NEW t \in Threads,
             UNCHANGED pc \/ Only(t),
             pc'[t].o = Own /\ pc'[t].at \in ForOther => pc[t].o = Own /\ pc[t].at \in ForOther
      PROVE  Held'
  BY <1>1 DEF Held, Only
<1>2. ASSUME NEW t \in Threads, NEW f \in Files,
             CreateObject(t, f) \/ OpenOwn(t, f) \/ PrimeExport(t, f) \/ PrimeImport(t, f)
             \/ OpenByName(t, f)
      PROVE  Held'
  <2>1. /\ UNCHANGED <<fmaps, kmap, kbad, shown, fbs>>
        /\ state'[Imp] = "live" => state[Imp] = "live" \/ "fd" \in buf
        /\ (exported => exported') /\ buf \subseteq buf' /\ (buf' # {} => buf # {} \/ exported')
    BY <1>0, <1>2 DEF CreateObject, OpenOwn, PrimeExport, PrimeImport, OpenByName, counts
  <2>2. UNCHANGED pc \/ Begins(t, "open", Imp, f)
    BY <1>2, BeginPlace DEF CreateObject, OpenOwn, PrimeExport
  <2>3. \A u \in Threads : pc'[u].o = Own /\ pc'[u].at \in ForOther =>
          pc[u].o = Own /\ pc[u].at \in ForOther
    BY <2>2 DEF Begins, After, Only, ForOther
  <2>. QED
    BY <2>1, <2>3 DEF Held
<1>3. ASSUME NEW t \in Threads, NEW f \in Files, NEW o \in Objs,
             HandleClose(t, f, o) \/ BeginCpuAccess(t, f, o) \/ Mmap(t, f, o)
      PROVE  Held'
  <2>1. UNCHANGED <<state, buf, fmaps, kmap, kbad, shown, fbs>>
    BY <1>3 DEF HandleClose, BeginCpuAccess, Mmap, counts
  <2>3. exported /\ BufHeld' => exported'
    <3>1. exported' = (exported /\ BufHeld') \/ exported' = exported
      BY <1>3, Zenon DEF HandleClose, BeginCpuAccess, Mmap
    <3>. QED
      BY <3>1
  <2>2. Only(t) /\ pc'[t].at \notin ForOther
    BY <1>3, BeginPlace DEF Begins, After, ForOther
  <2>. QED
    BY <2>1, <2>2, <2>3 DEF Held, BufHeld, Only
<1>4. ASSUME NEW t \in Threads,
             (\E f \in Files, o \in Objs : FbCreate(t, f, o)) \/ (\E o \in Objs : VmOpen(t, o))
             \/ Attach(t) \/ Vunmap(t) \/ PreparePlaneFb(t)
             \/ CleanupPlaneFb(t)
      PROVE  Held'
  <2>1. /\ UNCHANGED <<state, exported, fmaps, pc>> /\ buf \subseteq buf' /\ (buf' # {} => buf # {})
        /\ fbs' >= fbs /\ (shown' > 0 => shown > 0 \/ fbs > 0) /\ fbs' \in Nat
    <3>1. CASE \E f \in Files, o \in Objs : FbCreate(t, f, o)
      BY <1>0, <3>1 DEF FbCreate
    <3>2. CASE \E o \in Objs : VmOpen(t, o)
      BY <1>0, <3>2 DEF VmOpen
    <3>3. CASE Attach(t)
      BY <1>0, <3>3 DEF Attach, counts
    <3>4. CASE Vunmap(t)
      BY <1>0, <3>4 DEF Vunmap
    <3>5. CASE PreparePlaneFb(t)
      BY <1>0, <3>5 DEF PreparePlaneFb
    <3>6. CASE CleanupPlaneFb(t)
      BY <1>0, <3>6 DEF CleanupPlaneFb
    <3>. QED
      BY <1>4, <3>1, <3>2, <3>3, <3>4, <3>5, <3>6
  <2>2. Mapped' => Mapped
    <3>1. UNCHANGED <<kmap, kbad>> \/ DropKernelUse(TRUE)
      BY <1>4 DEF FbCreate, VmOpen, Attach, Vunmap, PreparePlaneFb, CleanupPlaneFb, counts
    <3>. QED
      BY <3>1, DropFacts
  <2>. QED
    BY <1>0, <2>1, <2>2 DEF Held
<1>5. ASSUME NEW t \in Threads, \E o \in Objs : VmClose(t, o) PROVE Held'
  <2>1. UNCHANGED <<state, exported, buf, fmaps, kmap, kbad, shown, fbs>>
    BY <1>5 DEF VmClose
  <2>2. Only(t) /\ pc'[t].at \notin ForOther
    BY <1>5, BeginPlace DEF Begins, After, ForOther
  <2>. QED
    BY <1>1, <2>1, <2>2
<1>6. ASSUME NEW t \in Threads, FbDestroy(t) PROVE Held'
  <2>1. UNCHANGED <<state, exported, buf, fmaps, kmap, kbad, shown>> /\ fbs > 0 /\ fbs' = fbs - 1
        /\ (fbs = 1 => shown = 0)
    BY <1>6 DEF FbDestroy
  <2>2. Only(t) /\ pc'[t].at \notin ForOther
    BY <1>6, BeginPlace DEF Begins, After, ForOther
  <2>. QED
    BY <1>0, <2>1, <2>2 DEF Held, Only
<1>7. ASSUME NEW t \in Threads, ForeignMap(t) \/ ForeignUnmap(t) \/ VmapMark(t) PROVE Held'
  <2>1. UNCHANGED <<state, exported, buf, kmap, kbad, shown, fbs>> /\ "foreign" \in buf
        /\ (fmaps' > 0 => fmaps > 0)
    BY <1>0, <1>7 DEF ForeignMap, ForeignUnmap, VmapMark, counts, Held
  <2>2. Only(t)
    BY <1>7, BeginPlace DEF Begins, After
  <2>. QED
    BY <2>1, <2>2 DEF Held, Only
<1>8. ASSUME NEW t \in Threads, NEW h \in {"fd", "foreign"}, LetBufGo(t, h) PROVE Held'
  <2>1. /\ UNCHANGED <<state, fmaps, kmap, kbad, shown, fbs>> /\ (exported' <=> BufHeld')
        /\ buf' = buf \ {h}
        /\ h = "foreign" => fmaps = 0 /\ (kmap = 0 \/ kbad) /\ \A u \in Threads : pc[u].o = Own =>
                              pc[u].at \notin ForOther
    BY <1>8 DEF LetBufGo, counts, ForOther
  <2>2. Only(t) /\ pc'[t].at \notin ForOther
    BY <1>8, LetGoPlace DEF Ends, After, ForOther
  <2>. QED
    BY <1>0, <2>1, <2>2 DEF Held, BufHeld, Only
<1>9. ASSUME NEW t \in Threads, Detach(t) PROVE Held'
  <2>1. /\ UNCHANGED <<buf, fmaps, kmap, kbad, shown, fbs>> /\ (exported' <=> BufHeld')
    BY <1>9 DEF Detach, counts
  <2>2. Only(t) /\ pc'[t].at \notin ForOther
    BY <1>9, LetGoPlace DEF Ends, After, ForOther
  <2>. QED
    BY <2>1, <2>2 DEF Held, BufHeld, Only
<1>10. ASSUME NEW t \in Threads, Put(t) PROVE Held'
  <2>1. /\ UNCHANGED <<exported, buf, fmaps, shown, fbs>> /\ state'[Imp] = state[Imp]
        /\ (Mapped' => Mapped)
    <3>1. /\ UNCHANGED <<exported, buf, fmaps, shown, fbs>> /\ state'[Imp] = state[Imp]
      BY <1>0, <1>10 DEF Put
    <3>2. Mapped' => Mapped
      BY <1>10, DropFacts DEF Put
    <3>. QED
      BY <3>1, <3>2
  <2>2. Only(t) /\ pc'[t].at \notin ForOther
    BY <1>10, PutPlace DEF Ends, After, ForOther, Objs
  <2>. QED
    BY <2>1, <2>2 DEF Held, Only
<1>11. ASSUME NEW t \in Threads,
              \/ MapMark(t) \/ MapPin(t) \/ MapFailed(t) \/ UnmapUnpin(t) \/ UnmapMark(t)
              \/ OpenCheck(t) \/ OpenPin(t) \/ OpenAlloc(t) \/ UnpinImp(t) \/ OpenFail(t)
              \/ MmapMark(t) \/ MmapMap(t)
       PROVE  Held'
  <2>1. UNCHANGED <<state, exported, buf, fmaps, kmap, kbad, shown, fbs>>
    BY <1>11 DEF MapMark, MapPin, MapFailed, UnmapUnpin, UnmapMark, OpenCheck, OpenPin, OpenAlloc,
       UnpinImp, OpenFail, MmapMark, MmapMap, counts
  <2>2. Only(t) /\ (pc'[t].o = Own /\ pc'[t].at \in ForOther => pc[t].o = Own /\ pc[t].at \in ForOther)
    BY <1>11, MapPlace, OpenPlace, MmapPlace DEF On, Ends, After, ForOther, Shape, Opening
  <2>. QED
    BY <1>1, <2>1, <2>2
<1>12. ASSUME NEW t \in Threads, MapTable(t) \/ VmapLock(t) PROVE Held'
  <2>1. UNCHANGED <<state, exported, buf, shown, fbs>>
    BY <1>12 DEF MapTable, VmapLock, memory
  <2>2. UNCHANGED <<fmaps, kmap, kbad>> \/ (pc[t].o = Own /\ pc[t].at \in ForOther)
    BY <1>12, MmapPlace DEF MapTable, VmapLock, At, ForOther, Shape
  <2>3. Only(t) /\ (pc'[t].at \in ForOther => FALSE)
    BY <1>12, MapPlace, MmapPlace DEF On, Ends, After, ForOther
  <2>. QED
    BY <2>1, <2>2, <2>3 DEF Held, Only
<1>13. CASE UNCHANGED vars
  BY <1>13 DEF vars, Held
<1>. QED
  <2>1. ASSUME NEW t \in Threads, Call(t) PROVE Held'
    BY <1>0, <1>2, <1>3, <1>4, <1>5, <1>6, <1>7, <1>8, <2>1 DEF Call
  <2>2. ASSUME NEW t \in Threads, Continue(t) PROVE Held'
    BY <1>9, <1>10, <1>11, <1>12, <2>2 DEF Continue
  <2>. QED
    BY <1>13, <2>1, <2>2 DEF Next

(* An object that is freed has no reference; no pin of the import is left   *)
(* unless two opens overlapped.                                             *)
Freed ==
  /\ \A o \in Objs : state[o] = "freed" => refs[o] = 0 /\ ~core[o]
  /\ state[Imp] = "freed" /\ opens <= 1 => pins[Imp] = 0

LEMMA Busy ==
  ASSUME TypeOK, Shape, Counting, Counted, Fresh, Releasing, Freed, NEW t \in Threads,
         pc[t].o = Imp
  PROVE  /\ state[Imp] = "live"
         /\ \/ Releases(t) /\ refs[Imp] = 0 /\ ~HoldsRef(t, Imp)
            \/ HoldsRef(t, Imp) /\ refs[Imp] > 0 /\ ~Releases(t)
<1>. USE GemAssumption
<1>1. Imp \in Objs /\ pc[t].at \in Steps /\ refs[Imp] \in Nat
  BY TypePlaces, OwnersFacts DEF Places, Objs
<1>2. state[Imp] \in {"live", "freed"}
  BY <1>1 DEF Fresh, TypeOK
<1>3. CASE Releases(t)
  BY <1>3 DEF Releasing, Releases, HoldsRef
<1>4. CASE ~Releases(t)
  <2>1. HoldsRef(t, Imp)
    BY <1>1, <1>4 DEF Releases, HoldsRef, Shape, Steps, Opening, Mapping
  <2>2. refs[Imp] # 0
    BY <1>1, <2>1, OwnersFacts
  <2>. QED
    BY <1>1, <1>2, <1>4, <2>1, <2>2 DEF Freed
<1>. QED
  BY <1>3, <1>4

(* What is not there, or not there any more, is not used.                   *)
LEMMA DeadFacts ==
  ASSUME TypeOK, Shape, Counting, Counted, Fresh, Held, Releasing, Freed, NEW o \in Objs,
         state[o] # "live"
  PROVE  /\ Unowned(o)
         /\ \A t \in Threads : ~HoldsRef(t, o) /\ (o = Imp => pc[t].o # Imp)
         /\ o = Own => /\ buf = {} /\ fmaps = 0 /\ (kmap = 0 \/ kbad) /\ shown = 0
                        /\ state[Imp] # "live"
         /\ \A t \in Threads : o = Own => ~(pc[t].o = Own /\ pc[t].at \in ForOther)
                                          /\ pc[t].o # Imp
<1>. USE GemAssumption
<1>1. Unowned(o) /\ \A t \in Threads : ~HoldsRef(t, o)
  <2>1. CASE state[o] = "none"
    BY <2>1 DEF Fresh, HoldsRef
  <2>2. CASE state[o] = "freed"
    BY <2>2, OwnersFacts DEF Freed
  <2>. QED
    BY <2>1, <2>2 DEF TypeOK
<1>2. o = Own => buf = {} /\ fmaps = 0 /\ (kmap = 0 \/ kbad) /\ shown = 0 /\ state[Imp] # "live"
  <2>1. o = Own => ~exported
    BY <1>1 DEF Unowned
  <2>2. o = Own => buf = {} /\ state[Imp] # "live" /\ fbs = 0
    BY <1>1, <2>1 DEF Unowned, Held
  <2>. QED
    BY <2>2 DEF Held, Mapped, Counting, TypeOK
<1>3. \A t \in Threads : pc[t].o = Imp => state[Imp] = "live"
  BY Busy
<1>. QED
  BY <1>1, <1>2, <1>3 DEF Held

(* A step either brings such an object to life or leaves it alone.          *)
Alone(o) ==
  /\ state'[o] = state[o] /\ refs'[o] = refs[o] /\ handles'[o] = handles[o]
  /\ vmas'[o] = vmas[o] /\ leaked'[o] = leaked[o] /\ (core'[o] <=> core[o])
  /\ o = Own => fbs' = fbs /\ (exported' <=> exported)
  /\ o = Imp => opens' = opens /\ pins'[Imp] = pins[Imp]

LEMMA DeadStays ==
  ASSUME TypeOK, Shape, Counting, Counted, Fresh, Held, Releasing, Freed, [Next]_vars,
         NEW o \in Objs, state[o] # "live"
  PROVE  \/ state[o] = "none" /\ state'[o] = "live"
         \/ Alone(o) /\ \A u \in Threads : pc'[u].o = o => pc[u].o = o
<1>. USE GemAssumption
<1>. DEFINE Stays == Alone(o) /\ \A u \in Threads : pc'[u].o = o => pc[u].o = o
<1>0. /\ state \in [Objs -> {"none", "live", "freed"}] /\ refs \in [Objs -> Int]
      /\ handles \in [Objs -> SUBSET Files] /\ core \in [Objs -> BOOLEAN]
      /\ pins \in [Objs -> Int] /\ vmas \in [Objs -> Int] /\ leaked \in [Objs -> Nat]
      /\ Objs = {Own, Imp} /\ exported \in BOOLEAN
  BY DEF TypeOK, Objs
<1>1. /\ handles[o] = {} /\ vmas[o] = 0 /\ leaked[o] = 0 /\ (o = Own => fbs = 0 /\ ~exported)
      /\ \A t \in Threads : ~HoldsRef(t, o) /\ (o = Imp => pc[t].o # Imp)
      /\ o = Own => /\ buf = {} /\ fmaps = 0 /\ (kmap = 0 \/ kbad) /\ shown = 0
                        /\ state[Imp] # "live"
      /\ \A t \in Threads : o = Own => ~(pc[t].o = Own /\ pc[t].at \in ForOther) /\ pc[t].o # Imp
  BY DeadFacts DEF Unowned
<1>2. ASSUME NEW t \in Threads, NEW f \in Files, CreateObject(t, f) \/ PrimeImport(t, f)
      PROVE  Stays \/ (state[o] = "none" /\ state'[o] = "live")
  <2>1. CASE CreateObject(t, f)
    BY <1>0, <2>1 DEF CreateObject, counts, memory, Alone
  <2>2. CASE PrimeImport(t, f)
    <3>1. o = Imp
      BY <1>0, <1>1, <2>2 DEF PrimeImport
    <3>. QED
      BY <1>0, <2>2, <3>1 DEF PrimeImport
  <2>. QED
    BY <1>2, <2>1, <2>2
<1>3. ASSUME NEW t \in Threads, NEW f \in Files,
             \/ OpenOwn(t, f) \/ PrimeExport(t, f) \/ \E p \in Objs : FbCreate(t, f, p)
      PROVE  Stays
  BY <1>0, <1>1, <1>3 DEF OpenOwn, PrimeExport, FbCreate, counts, memory, Alone
<1>4. ASSUME NEW t \in Threads,
             Attach(t) \/ Vunmap(t) \/ PreparePlaneFb(t) \/ CleanupPlaneFb(t)
             \/ \E p \in Objs : VmOpen(t, p)
      PROVE  Stays
  <2>1. UNCHANGED <<state, handles, core, opens, pins, leaked, fbs, exported, pc>>
        /\ refs'[o] = refs[o] /\ vmas'[o] = vmas[o]
    <3>1. CASE Attach(t)
      BY <3>1 DEF Attach, counts, memory
    <3>2. CASE Vunmap(t) \/ PreparePlaneFb(t) \/ CleanupPlaneFb(t)
      BY <3>2 DEF Vunmap, PreparePlaneFb, CleanupPlaneFb
    <3>3. CASE \E p \in Objs : VmOpen(t, p)
      BY <1>0, <1>1, <3>3 DEF VmOpen
    <3>. QED
      BY <1>4, <3>1, <3>2, <3>3
  <2>. QED
    BY <2>1 DEF Alone
<1>5. ASSUME NEW t \in Threads, NEW f \in Files, OpenByName(t, f) PROVE Stays
  <2>1. o = Own /\ Only(t) /\ pc'[t].o = Imp
    BY <1>0, <1>5, BeginPlace DEF OpenByName, Begins, After
  <2>. QED
    BY <1>0, <1>5, <2>1 DEF OpenByName, counts, Alone, Only
<1>6. ASSUME NEW t \in Threads, NEW f \in Files, NEW p \in Objs, HandleClose(t, f, p) PROVE Stays
  <2>0. Begins(t, "put", p, None)
    BY <1>6, BeginPlace
  <2>1. p # o /\ Only(t) /\ pc'[t].o = p
    BY <1>0, <1>1, <1>6, <2>0 DEF HandleClose, Begins, After
  <2>2. UNCHANGED <<state, core, opens, pins, vmas, leaked, fbs>> /\ handles'[o] = handles[o]
        /\ refs'[Imp] = refs[Imp]
    BY <1>0, <1>6, <2>1 DEF HandleClose, counts, memory
  <2>3. o = Own => refs'[o] = refs[o] /\ ~exported'
    <3>1. exported' = (exported /\ BufHeld')
      BY <1>6, Zenon DEF HandleClose
    <3>2. refs' = [refs EXCEPT ![Own] = @ - (IF exported /\ ~BufHeld' THEN 1 ELSE 0)]
      BY <1>6 DEF HandleClose
    <3>. QED
      BY <1>0, <1>1, <3>1, <3>2
  <2>. QED
    BY <1>0, <1>1, <2>1, <2>2, <2>3 DEF Alone, Only
<1>7. ASSUME NEW t \in Threads, NEW f \in Files, NEW p \in Objs,
             BeginCpuAccess(t, f, p) \/ Mmap(t, f, p)
      PROVE  Stays
  <2>1. p # o /\ Only(t) /\ pc'[t].o = p
    BY <1>0, <1>1, <1>7, BeginPlace DEF BeginCpuAccess, Mmap, Begins, After
  <2>. QED
    BY <1>0, <1>7, <2>1 DEF BeginCpuAccess, Mmap, counts, memory, Alone, Only
<1>8. ASSUME NEW t \in Threads, NEW p \in Objs, VmClose(t, p) PROVE Stays
  <2>0. Begins(t, "put", p, None)
    BY <1>8, BeginPlace
  <2>1. p # o /\ Only(t) /\ pc'[t].o = p
    BY <1>0, <1>1, <1>8, <2>0 DEF VmClose, Begins, After
  <2>. QED
    BY <1>0, <1>8, <2>1 DEF VmClose, Alone, Only
<1>9. ASSUME NEW t \in Threads,
             \/ FbDestroy(t) \/ ForeignMap(t) \/ ForeignUnmap(t) \/ VmapMark(t)
             \/ \E h \in {"fd", "foreign"} : LetBufGo(t, h)
      PROVE  Stays
  <2>1. o = Imp
    BY <1>0, <1>1, <1>9 DEF FbDestroy, ForeignMap, ForeignUnmap, VmapMark, LetBufGo
  <2>2. Only(t) /\ pc'[t].o # Imp
    BY <1>9, BeginPlace, LetGoPlace DEF Begins, After, Ends
  <2>. QED
    BY <1>0, <1>9, <2>1, <2>2 DEF FbDestroy, ForeignMap, ForeignUnmap, VmapMark, LetBufGo, counts,
       memory, Alone, Only
<1>10. ASSUME NEW t \in Threads, Put(t) PROVE Stays
  <2>1. HoldsRef(t, pc[t].o) /\ pc[t].o \in Objs /\ Only(t) /\ pc'[t].o \in {None, Imp}
        /\ (pc'[t].o = Imp => pc[t].o = Imp)
    BY <1>10, PutPlace DEF Ends, After, HoldsRef, Objs
  <2>2. pc[t].o # o
    BY <1>1, <2>1
  <2>3. UNCHANGED <<handles, opens, pins, vmas, fbs, exported, leaked>>
        /\ refs'[o] = refs[o] /\ state'[o] = state[o] /\ (core'[o] <=> core[o])
    <3>1. UNCHANGED <<handles, opens, pins, vmas, fbs, exported, leaked>>
      BY <1>10 DEF Put
    <3>2. refs'[o] = refs[o] /\ state'[o] = state[o]
      BY <1>0, <1>10, <2>1, <2>2 DEF Put
    <3>3. core'[o] <=> core[o]
      <4>1. core' = core \/ (pc[t].o = Own /\ core' = [core EXCEPT ![Own] = FALSE])
        BY <1>10 DEF Put, ReleaseOwn
      <4>. QED
        BY <1>0, <2>1, <2>2, <4>1
    <3>. QED
      BY <3>1, <3>2, <3>3
  <2>. QED
    BY <1>0, <2>1, <2>2, <2>3 DEF Alone, Only
<1>11. ASSUME NEW t \in Threads,
              \/ Detach(t) \/ OpenCheck(t) \/ OpenPin(t) \/ OpenAlloc(t) \/ UnpinImp(t) \/ OpenFail(t)
       PROVE  Stays
  <2>1. pc[t].o = Imp
    BY <1>11, OpenPlace DEF Detach, At, Shape, Opening
  <2>. QED
    BY <1>0, <1>1, <2>1
<1>12. ASSUME NEW t \in Threads,
              \/ MapMark(t) \/ MapPin(t) \/ MapTable(t) \/ MapFailed(t) \/ UnmapUnpin(t) \/ UnmapMark(t)
       PROVE  Stays
  <2>1. pc[t].o = Own /\ Only(t) /\ pc'[t].o \in {Own, None}
    BY <1>0, <1>1, <1>12, MapPlace, OwnerOf DEF On, Ends, After
  <2>2. UNCHANGED <<state, refs, handles, core, opens, vmas, fbs, exported, leaked>>
    BY <1>12 DEF MapMark, MapPin, MapTable, MapFailed, UnmapUnpin, UnmapMark, counts
  <2>3. pins'[Imp] = pins[Imp]
    BY <1>0, <1>12, <2>1, UnpinOwnFacts
       DEF MapMark, MapPin, MapTable, MapFailed, UnmapUnpin, UnmapMark
  <2>. QED
    BY <2>1, <2>2, <2>3, GemAssumption DEF Alone, Only, Objs
<1>13. ASSUME NEW t \in Threads, VmapLock(t) \/ MmapMark(t) \/ MmapMap(t) PROVE Stays
  <2>1. pc[t].o \in Objs /\ pc[t].o # o /\ Only(t) /\ pc'[t].o \in {pc[t].o, None}
    BY <1>0, <1>1, <1>13, MmapPlace, OwnerOf DEF On, Ends, After, ForOther, HoldsRef, Shape
  <2>2. UNCHANGED <<state, refs, handles, core, opens, pins, fbs, exported>>
        /\ vmas'[o] = vmas[o] /\ leaked'[o] = leaked[o]
    BY <1>0, <1>13, <2>1 DEF VmapLock, MmapMark, MmapMap, counts, memory
  <2>. QED
    BY <2>1, <2>2, GemAssumption DEF Alone, Only, Objs
<1>14. CASE UNCHANGED vars
  BY <1>14 DEF vars, Alone
<1>. QED
  <2>1. ASSUME NEW t \in Threads, Call(t) PROVE Stays \/ (state[o] = "none" /\ state'[o] = "live")
    BY <1>2, <1>3, <1>4, <1>5, <1>6, <1>7, <1>8, <1>9, <2>1 DEF Call
  <2>2. ASSUME NEW t \in Threads, Continue(t) PROVE Stays
    BY <1>10, <1>11, <1>12, <1>13, <2>2 DEF Continue
  <2>. QED
    BY <1>14, <2>1, <2>2 DEF Next

LEMMA StateSteps ==
  ASSUME TypeOK, Shape, [Next]_vars, NEW o \in Objs
  PROVE  \/ state'[o] = state[o] \/ state'[o] = "live"
         \/ /\ state'[o] = "freed"
            /\ \E t \in Threads : \/ Put(t) /\ pc[t].o = Own /\ refs[Own] = 1 /\ o = Own
                                  \/ Detach(t) /\ o = Imp
<1>. USE GemAssumption
<1>0. state \in [Objs -> {"none", "live", "freed"}] /\ Objs = {Own, Imp}
  BY DEF TypeOK, Objs
<1>. DEFINE Goal ==
       \/ state'[o] = state[o] \/ state'[o] = "live"
       \/ /\ state'[o] = "freed"
          /\ \E t \in Threads : \/ Put(t) /\ pc[t].o = Own /\ refs[Own] = 1 /\ o = Own
                                \/ Detach(t) /\ o = Imp
<1>1. ASSUME NEW t \in Threads, Call(t) PROVE Goal
  <2>1. state' = state \/ \E p \in Objs : state' = [state EXCEPT ![p] = "live"]
    BY <1>0, <1>1 DEF Call, CreateObject, OpenOwn, PrimeImport, OpenByName, PrimeExport,
       HandleClose,
       BeginCpuAccess, Mmap, FbCreate, Attach, LetBufGo, VmOpen, VmClose, ForeignMap, ForeignUnmap,
       VmapMark, Vunmap, FbDestroy, PreparePlaneFb, CleanupPlaneFb
  <2>. QED
    BY <1>0, <2>1
<1>2. ASSUME NEW t \in Threads, Continue(t), ~Put(t), ~Detach(t) PROVE Goal
  <2>1. state' = state
    BY <1>2 DEF Continue, MapMark, MapPin, MapTable, MapFailed, UnmapUnpin, UnmapMark,
       OpenCheck, OpenPin, OpenAlloc, UnpinImp, OpenFail, VmapLock, MmapMark, MmapMap
  <2>. QED
    BY <2>1
<1>3. ASSUME NEW t \in Threads, Put(t) PROVE Goal
  <2>1. state' = IF refs[pc[t].o] = 1 /\ pc[t].o = Own THEN [state EXCEPT ![Own] = "freed"] ELSE state
    BY <1>3 DEF Put
  <2>. QED
    BY <1>0, <1>3, <2>1
<1>4. ASSUME NEW t \in Threads, Detach(t) PROVE Goal
  <2>1. state' = [state EXCEPT ![Imp] = "freed"]
    BY <1>4 DEF Detach
  <2>. QED
    BY <1>0, <1>4, <2>1
<1>. QED
  BY <1>1, <1>2, <1>3, <1>4 DEF Next, vars, Continue

LEMMA FreshStep ==
  ASSUME TypeOK, Shape, Counting, Counted, Fresh, Held, Releasing, Freed, [Next]_vars
  PROVE  Fresh'
<1>. USE GemAssumption
<1>1. ASSUME NEW o \in Objs, state'[o] = "none"
      PROVE  state[o] = "none" /\ Alone(o) /\ \A u \in Threads : pc'[u].o = o => pc[u].o = o
  <2>1. state[o] = "none"
    BY <1>1, StateSteps
  <2>. QED
    BY <1>1, <2>1, DeadStays
<1>2. ASSUME NEW o \in Objs, state'[o] = "none"
      PROVE  Unowned(o)' /\ \A t \in Threads : pc'[t].o # o
  <2>1. Unowned(o) /\ \A t \in Threads : pc[t].o # o
    BY <1>1, <1>2 DEF Fresh
  <2>. QED
    BY <1>1, <1>2, <2>1 DEF Unowned, Alone
<1>3. state'[Imp] = "none" => opens' = 0 /\ pins'[Imp] = 0 /\ ~core'[Imp]
  BY <1>1 DEF Objs, Fresh, Alone
<1>. QED
  BY <1>2, <1>3 DEF Fresh

(* While the import lives its pins are the allocations made from its pages  *)
(* and the opens that are between the two; the release takes one back.      *)
Opens == {"openAlloc", "openUnpin", "mapMark", "mapPin", "mapTable", "mapFailed"}
Allocated ==
  /\ state[Imp] = "live" /\ refs[Imp] > 0 =>
       pins[Imp] = opens + InStep(Opens, Imp) /\ (core[Imp] <=> opens > 0)
  /\ \A t \in Threads : Releases(t) =>
       IF pc[t].at = "relUnpin" THEN core[Imp] /\ opens > 0 /\ pins[Imp] = opens
                                ELSE ~core[Imp] /\ (opens <= 1 => pins[Imp] = 0)

LEMMA FreedStep ==
  ASSUME TypeOK, Shape, Counting, Counted, Fresh, Held, Releasing, Freed, Allocated, [Next]_vars
  PROVE  Freed'
<1>. USE GemAssumption
<1>0. /\ refs \in [Objs -> Int] /\ core \in [Objs -> BOOLEAN] /\ Own \in Objs /\ Imp \in Objs
  BY DEF TypeOK, Objs
<1>1. ASSUME NEW o \in Objs, state'[o] = "freed", state[o] = "freed"
      PROVE  /\ refs'[o] = 0 /\ ~core'[o]
             /\ o = Imp /\ opens' <= 1 => pins'[Imp] = 0
  BY <1>1, DeadStays DEF Alone, Freed
<1>2. ASSUME NEW t \in Threads, Put(t), pc[t].o = Own, refs[Own] = 1
      PROVE  refs'[Own] = 0 /\ ~core'[Own]
  <2>1. refs' = [refs EXCEPT ![Own] = @ - 1]
    BY <1>2 DEF Put
  <2>2. core' = [core EXCEPT ![Own] = FALSE]
    BY <1>2 DEF Put, ReleaseOwn
  <2>. QED
    BY <1>0, <1>2, <2>1, <2>2
<1>3. ASSUME NEW t \in Threads, Detach(t)
      PROVE  refs'[Imp] = 0 /\ ~core'[Imp] /\ (opens' <= 1 => pins'[Imp] = 0)
  <2>1. pc[t].at = "detach" /\ Releases(t)
    BY <1>3 DEF Detach, At, Shape, Releases
  <2>2. refs[Imp] = 0 /\ ~core[Imp] /\ (opens <= 1 => pins[Imp] = 0)
    BY <2>1 DEF Releasing, Allocated
  <2>3. UNCHANGED <<refs, core, opens, pins>>
    BY <1>3 DEF Detach, memory
  <2>. QED
    BY <2>2, <2>3
<1>4. ASSUME NEW o \in Objs, state'[o] = "freed"
      PROVE  /\ refs'[o] = 0 /\ ~core'[o]
             /\ o = Imp /\ opens' <= 1 => pins'[Imp] = 0
  <2>1. CASE state'[o] = state[o]
    BY <1>1, <1>4, <2>1
  <2>2. CASE state'[o] # state[o]
    <3>1. \E t \in Threads : \/ Put(t) /\ pc[t].o = Own /\ refs[Own] = 1 /\ o = Own
                             \/ Detach(t) /\ o = Imp
      BY <1>4, <2>2, StateSteps
    <3>. QED
      BY <1>2, <1>3, <3>1
  <2>. QED
    BY <2>1, <2>2
<1>. QED
  BY <1>0, <1>4 DEF Freed

(* Most steps leave the life of the import alone.                           *)
Settled(t) ==
  /\ pc'[t].f # None /\ pc'[t].at # "put" => pc'[t].f = pc[t].f /\ pc[t].at # "put"
  /\ Releases(t)' => Releases(t) /\ (pc'[t].at = "relUnpin" <=> pc[t].at = "relUnpin")
  /\ In(t, Opens, Imp)' <=> In(t, Opens, Imp)

Calm(t) ==
  /\ opens' = opens /\ state'[Imp] = state[Imp] /\ (core'[Imp] <=> core[Imp])
  /\ pins'[Imp] = pins[Imp]
  /\ refs'[Imp] = refs[Imp] \/ (refs[Imp] > 0 /\ refs'[Imp] > 0)
  /\ \A u \in Threads : pc[u].f # None /\ pc[u].f \in handles[Imp] => pc[u].f \in handles'[Imp]
  /\ UNCHANGED pc \/ (Only(t) /\ Settled(t))

LEMMA CalmStep ==
  ASSUME TypeOK, Handed, Releasing, Allocated, NEW t \in Threads, Calm(t)
  PROVE  Handed' /\ Releasing' /\ Allocated'
<1>1. \A u \in Threads : pc'[u].f # None /\ pc'[u].at # "put" =>
        pc'[u].f = pc[u].f /\ pc[u].at # "put"
  BY DEF Calm, Only, Settled
<1>2. \A u \in Threads : Releases(u)' =>
        Releases(u) /\ (pc'[u].at = "relUnpin" <=> pc[u].at = "relUnpin")
  BY DEF Calm, Only, Settled, Releases
<1>3. InStep(Opens, Imp)' = InStep(Opens, Imp)
  <2>1. CASE UNCHANGED pc
    BY <2>1 DEF InStep
  <2>2. CASE Only(t) /\ Settled(t)
    <3>1. /\ InStep(Opens, Imp) \in Nat /\ InStep(Opens, Imp)' \in Nat
          /\ InStep(Opens, Imp)' + B(In(t, Opens, Imp)) = InStep(Opens, Imp) + B(In(t, Opens, Imp)')
      BY <2>2, InStepMoves
    <3>. QED
      BY <2>2, <3>1 DEF Settled, B
  <2>. QED
    BY <2>1, <2>2 DEF Calm
<1>4. Handed'
  BY <1>1 DEF Handed, Calm
<1>5. Releasing'
  BY <1>2 DEF Releasing, Calm
<1>6. Allocated'
  <2>1. refs \in [Objs -> Int] /\ Imp \in Objs
    BY DEF TypeOK, Objs
  <2>2. state'[Imp] = "live" /\ refs'[Imp] > 0 =>
          pins'[Imp] = opens' + InStep(Opens, Imp)' /\ (core'[Imp] <=> opens' > 0)
    BY <1>3, <2>1 DEF Allocated, Calm
  <2>. QED
    BY <1>2, <2>2 DEF Allocated, Calm
<1>. QED
  BY <1>4, <1>5, <1>6

LEMMA CalmCalls ==
  ASSUME TypeOK, Shape, Counting, Counted, NEW t \in Threads, Call(t),
         \A f \in Files : ~PrimeImport(t, f) /\ ~OpenByName(t, f)
  PROVE  Calm(t)
<1>. USE GemAssumption
<1>0. /\ state \in [Objs -> {"none", "live", "freed"}] /\ refs \in [Objs -> Nat]
      /\ handles \in [Objs -> SUBSET Files] /\ core \in [Objs -> BOOLEAN]
      /\ pins \in [Objs -> Int] /\ vmas \in [Objs -> Nat] /\ Objs = {Own, Imp}
      /\ (refs[Imp] = 0 => handles[Imp] = {} /\ vmas[Imp] = 0)
  BY OwnersFacts DEF TypeOK, Objs, Counting, Unowned
<1>1. /\ opens' = opens /\ state'[Imp] = state[Imp] /\ (core'[Imp] <=> core[Imp])
      /\ pins'[Imp] = pins[Imp]
  <2>1. UNCHANGED <<opens, pins>>
    BY DEF Call, CreateObject, OpenOwn, PrimeExport, HandleClose, BeginCpuAccess, Mmap, FbCreate,
       Attach, LetBufGo, VmOpen, VmClose, ForeignMap, ForeignUnmap, VmapMark, Vunmap, FbDestroy,
       PreparePlaneFb, CleanupPlaneFb, memory
  <2>2. \/ UNCHANGED <<state, core>>
        \/ state' = [state EXCEPT ![Own] = "live"] /\ core' = [core EXCEPT ![Own] = TRUE]
    BY DEF Call, CreateObject, OpenOwn, PrimeExport, HandleClose, BeginCpuAccess, Mmap, FbCreate,
       Attach, LetBufGo, VmOpen, VmClose, ForeignMap, ForeignUnmap, VmapMark, Vunmap, FbDestroy,
       PreparePlaneFb, CleanupPlaneFb
  <2>. QED
    BY <1>0, <2>1, <2>2
<1>. DEFINE Kept ==
       /\ refs'[Imp] = refs[Imp] \/ (refs[Imp] > 0 /\ refs'[Imp] > 0)
       /\ \A u \in Threads : pc[u].f # None /\ pc[u].f \in handles[Imp] => pc[u].f \in handles'[Imp]
<1>2. Kept
  <2>1. ASSUME NEW f \in Files, CreateObject(t, f) \/ OpenOwn(t, f) \/ PrimeExport(t, f)
        PROVE  Kept
    BY <1>0, <2>1 DEF CreateObject, OpenOwn, PrimeExport
  <2>2. ASSUME NEW f \in Files, NEW o \in Objs, HandleClose(t, f, o)
        PROVE  Kept
    <3>1. /\ refs'[Imp] = refs[Imp] /\ handles' = [handles EXCEPT ![o] = @ \ {f}]
          /\ \A u \in Threads : pc[u].o = o => pc[u].f # f
      BY <1>0, <2>2 DEF HandleClose
    <3>2. \A u \in Threads : pc[u].f # None => pc[u].o = Imp
      BY TypePlaces DEF Shape, Places, Objs
    <3>. QED
      BY <1>0, <3>1, <3>2
  <2>3. ASSUME NEW f \in Files, NEW o \in Objs,
               BeginCpuAccess(t, f, o) \/ Mmap(t, f, o) \/ FbCreate(t, f, o)
        PROVE  Kept
    <3>1. UNCHANGED handles /\ refs' = [refs EXCEPT ![o] = @ + 1] /\ handles[o] # {}
      BY <2>3 DEF BeginCpuAccess, Mmap, FbCreate
    <3>. QED
      BY <1>0, <3>1
  <2>4. ASSUME NEW o \in Objs, VmOpen(t, o) PROVE Kept
    <3>1. UNCHANGED handles /\ refs' = [refs EXCEPT ![o] = @ + 1] /\ vmas[o] > 0
      BY <2>4 DEF VmOpen
    <3>. QED
      BY <1>0, <3>1
  <2>5. ASSUME (\E o \in Objs : VmClose(t, o)) \/ (\E h \in {"fd", "foreign"} : LetBufGo(t, h))
               \/ Attach(t) \/ ForeignMap(t) \/ ForeignUnmap(t) \/ VmapMark(t) \/ Vunmap(t)
               \/ FbDestroy(t) \/ PreparePlaneFb(t) \/ CleanupPlaneFb(t)
        PROVE  Kept
    BY <2>5 DEF Attach, LetBufGo, VmClose, ForeignMap, ForeignUnmap, VmapMark, Vunmap, FbDestroy,
       PreparePlaneFb, CleanupPlaneFb
  <2>. QED
    BY <2>1, <2>2, <2>3, <2>4, <2>5 DEF Call
<1>3. UNCHANGED pc \/ (Only(t) /\ Settled(t))
  <2>1. \/ UNCHANGED pc
        \/ \E a \in {"put", "mmapMark"}, o \in Objs : Begins(t, a, o, None)
        \/ \E a \in {"mapMark", "unmapUnpin", "vmapLock"} : Begins(t, a, Own, None)
        \/ pc[t] = Idle /\ (Ends(t) \/ After(t, "put", Own, None))
    BY BeginPlace, LetGoPlace DEF Call, CreateObject, OpenOwn, PrimeExport, FbCreate, VmOpen,
       Attach, Vunmap, PreparePlaneFb, CleanupPlaneFb, Objs, LetBufGo
  <2>2. pc[t] = Idle => pc[t].o = None
    BY DEF Idle
  <2>. QED
    BY <2>1, <2>2 DEF Begins, After, Ends, Settled, Releases, In, Opens
<1>. QED
  BY <1>1, <1>2, <1>3 DEF Calm

LEMMA CalmMoves ==
  ASSUME TypeOK, Shape, NEW t \in Threads,
         \/ Put(t) /\ pc[t].o = Own
         \/ MapMark(t) \/ MapPin(t) \/ MapTable(t) \/ (MapFailed(t) /\ pc[t].o = Own)
         \/ UnmapUnpin(t) \/ UnmapMark(t) \/ OpenCheck(t)
         \/ VmapLock(t) \/ MmapMark(t) \/ MmapMap(t)
  PROVE  Calm(t)
<1>. USE GemAssumption
<1>0. /\ state \in [Objs -> {"none", "live", "freed"}] /\ refs \in [Objs -> Int]
      /\ core \in [Objs -> BOOLEAN] /\ pins \in [Objs -> Int] /\ Objs = {Own, Imp}
      /\ pc[t].o \in Objs
  <2>1. pc[t].at # "idle"
    BY MapPlace, OpenPlace, MmapPlace DEF Put, At
  <2>. QED
    BY <2>1, OwnerOf DEF TypeOK, Objs
<1>1. CASE Put(t) /\ pc[t].o = Own
  <2>1. UNCHANGED <<opens, pins, handles>> /\ refs'[Imp] = refs[Imp] /\ state'[Imp] = state[Imp]
    BY <1>0, <1>1 DEF Put
  <2>2. core'[Imp] <=> core[Imp]
    <3>1. core' = core \/ core' = [core EXCEPT ![Own] = FALSE]
      BY <1>1 DEF Put, ReleaseOwn
    <3>. QED
      BY <1>0, <3>1
  <2>3. Only(t) /\ Settled(t)
    BY <1>1, PutPlace DEF Ends, After, Settled, Releases, In
  <2>. QED
    BY <2>1, <2>2, <2>3 DEF Calm
<1>2. CASE \/ MapMark(t) \/ MapPin(t) \/ MapTable(t) \/ (MapFailed(t) /\ pc[t].o = Own)
           \/ UnmapUnpin(t) \/ UnmapMark(t)
  <2>1. UNCHANGED <<state, refs, handles, core, opens>>
    BY <1>2 DEF MapMark, MapPin, MapTable, MapFailed, UnmapUnpin, UnmapMark
  <2>2. pins'[Imp] = pins[Imp]
    BY <1>0, <1>2, UnpinOwnFacts DEF MapMark, MapPin, MapTable, MapFailed, UnmapUnpin, UnmapMark
  <2>3. Only(t)
    BY <1>0, <1>2, MapPlace DEF On, Ends, After
  <2>4. Settled(t)
    <3>1. pc[t].at \in Mapping /\ pc[t].o = Imp => pc[t].f # None
      BY DEF Shape
    <3>2. pc[t].o = Own => pc[t].f = None
      BY DEF Shape
    <3>. QED
      BY <1>0, <1>2, <3>1, <3>2, MapPlace DEF On, Ends, After, Settled, Releases, In, Opens, Mapping
  <2>. QED
    BY <2>1, <2>2, <2>3, <2>4 DEF Calm
<1>3. CASE OpenCheck(t) \/ VmapLock(t) \/ MmapMark(t) \/ MmapMap(t)
  <2>1. UNCHANGED <<state, refs, handles, core, opens, pins>>
    BY <1>3 DEF OpenCheck, VmapLock, MmapMark, MmapMap, memory
  <2>2. Only(t) /\ Settled(t)
    BY <1>3, OpenPlace, MmapPlace DEF On, Ends, After, Settled, Releases, In, Opens, Shape, Opening
  <2>. QED
    BY <2>1, <2>2 DEF Calm
<1>. QED
  BY <1>1, <1>2, <1>3

LEMMA LifeStep ==
  ASSUME TypeOK, Shape, Counting, Locking, Paging, Counted, Fresh, Held, Handed, Releasing, Freed,
         Allocated, [Next]_vars
  PROVE  Handed' /\ Releasing' /\ Allocated'
<1>. USE GemAssumption
<1>. DEFINE Goal == Handed' /\ Releasing' /\ Allocated'
<1>0. /\ state \in [Objs -> {"none", "live", "freed"}] /\ refs \in [Objs -> Nat]
      /\ handles \in [Objs -> SUBSET Files] /\ core \in [Objs -> BOOLEAN] /\ opens \in Nat
      /\ pins \in [Objs -> Int] /\ Own \in Objs /\ Imp \in Objs
      /\ (refs[Imp] = 0 => handles[Imp] = {})
  BY OwnersFacts DEF TypeOK, Objs, Unowned
<1>1. \A u \in Threads : pc[u].f # None => pc[u].o = Imp
  BY TypePlaces DEF Shape, Places, Objs
<1>2. \A u \in Threads : pc[u].o = Imp =>
        \/ Releases(u) /\ refs[Imp] = 0 /\ state[Imp] = "live"
        \/ ~Releases(u) /\ HoldsRef(u, Imp) /\ refs[Imp] > 0 /\ state[Imp] = "live"
  BY Busy
<1>3. ASSUME NEW t \in Threads, NEW f \in Files, PrimeImport(t, f) PROVE Goal
  <2>1. /\ state[Imp] = "none" /\ UNCHANGED <<core, opens, pins>>
        /\ state' = [state EXCEPT ![Imp] = "live"] /\ handles' = [handles EXCEPT ![Imp] = {f}]
    BY <1>3 DEF PrimeImport, memory
  <2>2. /\ Only(t) /\ pc'[t].at = "open" /\ pc'[t].o = Imp /\ pc'[t].f = f
        /\ \A u \in Threads : pc[u].o # Imp
    BY <1>0, <1>3, <2>1, BeginPlace DEF Begins, After, Fresh
  <2>3. \A u \in Threads : ~Releases(u)' /\ (pc'[u].f # None => u = t)
    BY <1>1, <2>2 DEF Releases, Only
  <2>4. InStep(Opens, Imp)' = 0
    <3>1. {u \in Threads : pc'[u].at \in Opens /\ pc'[u].o = Imp} = {}
      BY <2>2 DEF Only, Opens
    <3>. QED
      BY <3>1, FS_EmptySet DEF InStep
  <2>5. Handed'
    BY <1>0, <2>1, <2>2, <2>3 DEF Handed
  <2>6. Allocated'
    BY <2>1, <2>3, <2>4 DEF Allocated, Fresh
  <2>. QED
    BY <2>3, <2>5, <2>6 DEF Releasing
<1>4. ASSUME NEW t \in Threads, NEW f \in Files, OpenByName(t, f) PROVE Goal
  <2>1. /\ handles[Imp] # {} /\ f \notin handles[Imp] /\ UNCHANGED <<state, core, opens, pins>>
        /\ handles' = [handles EXCEPT ![Imp] = @ \cup {f}] /\ refs'[Imp] = refs[Imp] + 2
    BY <1>0, <1>4 DEF OpenByName, memory
  <2>2. /\ Only(t) /\ pc[t].o = None /\ pc'[t].at = "open" /\ pc'[t].o = Imp /\ pc'[t].f = f
    BY <1>4, BeginPlace DEF Begins, After
  <2>3. refs[Imp] > 0 /\ \A u \in Threads : ~Releases(u) /\ ~Releases(u)'
    BY <1>0, <1>2, <2>1, <2>2 DEF Releases, Only
  <2>4. InStep(Opens, Imp)' = InStep(Opens, Imp)
    <3>1. /\ InStep(Opens, Imp) \in Nat /\ InStep(Opens, Imp)' \in Nat
          /\ InStep(Opens, Imp)' + B(In(t, Opens, Imp)) = InStep(Opens, Imp) + B(In(t, Opens, Imp)')
      BY <2>2, InStepMoves
    <3>. QED
      BY <2>2, <3>1 DEF In, B, Opens
  <2>5. Handed'
    BY <1>0, <2>1, <2>2 DEF Handed, Only
  <2>6. Allocated'
    BY <2>1, <2>3, <2>4 DEF Allocated
  <2>. QED
    BY <2>3, <2>5, <2>6 DEF Releasing
<1>5. ASSUME NEW t \in Threads, Put(t), pc[t].o = Imp PROVE Goal
  <2>. DEFINE last == refs[Imp] = 1
  <2>1. /\ UNCHANGED <<handles, opens, pins, state, core>> /\ refs'[Imp] = refs[Imp] - 1
    BY <1>0, <1>5 DEF Put, ReleaseOwn
  <2>2. /\ pc[t].at = "put" /\ HoldsRef(t, Imp) /\ refs[Imp] > 0 /\ state[Imp] = "live"
        /\ IF last THEN After(t, IF core[Imp] THEN "relUnpin" ELSE "detach", Imp, None) ELSE Ends(t)
    BY <1>2, <1>5, PutPlace DEF Releases, Put, At
  <2>3. \A u \in Threads : ~Releases(u)
    BY <1>2, <2>2 DEF Releases
  <2>4. InStep(Opens, Imp)' = InStep(Opens, Imp)
    <3>1. Only(t) /\ ~In(t, Opens, Imp) /\ ~In(t, Opens, Imp)'
      BY <2>2 DEF After, Ends, In, Opens
    <3>2. /\ InStep(Opens, Imp) \in Nat /\ InStep(Opens, Imp)' \in Nat
          /\ InStep(Opens, Imp)' + B(In(t, Opens, Imp)) = InStep(Opens, Imp) + B(In(t, Opens, Imp)')
      BY <3>1, InStepMoves
    <3>. QED
      BY <3>1, <3>2 DEF B
  <2>5. Handed'
    BY <2>1, <2>2 DEF Handed, After, Ends, Only
  <2>6. CASE ~last
    <3>1. \A u \in Threads : ~Releases(u)'
      BY <2>2, <2>3, <2>6 DEF Ends, After, Only, Releases
    <3>. QED
      BY <1>0, <2>1, <2>2, <2>4, <2>5, <3>1 DEF Releasing, Allocated
  <2>7. CASE last
    <3>1. \A u \in Threads : Releases(u)' => u = t
      BY <2>2, <2>3, <2>7 DEF After, Only, Releases
    <3>2. InStep(Opens, Imp) = 0
      <4>1. \A u \in Threads : HoldsRef(u, Imp) => u = t
        BY <1>0, <2>2, <2>7, OwnersFacts
      <4>2. {u \in Threads : pc[u].at \in Opens /\ pc[u].o = Imp} = {}
        BY <1>2, <2>2, <2>3, <4>1 DEF Opens
      <4>. QED
        BY <4>2, FS_EmptySet DEF InStep
    <3>3. pins[Imp] = opens /\ (core[Imp] <=> opens > 0)
      BY <1>0, <2>2, <3>2 DEF Allocated
    <3>4. Allocated'
      BY <1>0, <2>1, <2>2, <2>7, <3>1, <3>3 DEF Allocated, After
    <3>. QED
      BY <2>1, <2>2, <2>5, <2>7, <3>1, <3>4 DEF Releasing
  <2>. QED
    BY <2>6, <2>7
<1>6. ASSUME NEW t \in Threads, Detach(t) PROVE Goal
  <2>1. /\ UNCHANGED handles /\ state' = [state EXCEPT ![Imp] = "freed"]
        /\ pc[t].at = "detach"
    BY <1>6 DEF Detach, At
  <2>2. Only(t) /\ pc'[t].f = None /\ pc'[t].o # Imp /\ Releases(t)
    BY <1>6, <2>1, LetGoPlace DEF Ends, After, Shape, Releases
  <2>3. \A u \in Threads : ~Releases(u)'
    BY <2>2 DEF Releasing, Releases, Only
  <2>4. Handed'
    BY <2>1, <2>2 DEF Handed, Only
  <2>. QED
    BY <1>0, <2>1, <2>3, <2>4 DEF Releasing, Allocated
<1>7. ASSUME NEW t \in Threads, Only(t), pc'[t].o = Imp, pc[t].o = Imp, pc[t].f # None,
             pc'[t].f = pc[t].f, pc[t].at # "put",
             UNCHANGED state, refs'[Imp] <= refs[Imp],
             pc[t].f \in handles'[Imp] \/ pc'[t].at = "put",
             \A f \in handles[Imp] : f \in handles'[Imp] \/ f = pc[t].f,
             pins'[Imp] + opens + B(In(t, Opens, Imp)) = pins[Imp] + opens' + B(In(t, Opens, Imp)'),
             opens' = opens => (core'[Imp] <=> core[Imp]), opens' = opens \/ core'[Imp],
             opens' >= opens, opens' \in Nat,
             pins'[Imp] \in Int
      PROVE  Goal
  <2>1. refs[Imp] > 0 /\ state[Imp] = "live" /\ \A u \in Threads : ~Releases(u)
    BY <1>0, <1>2, <1>7 DEF Releases
  <2>2. \A u \in Threads : ~Releases(u)'
    BY <1>7, <2>1 DEF Releases, Only
  <2>3. Handed'
    BY <1>7 DEF Handed, Only
  <2>4. pins'[Imp] = opens' + InStep(Opens, Imp)'
    <3>1. /\ InStep(Opens, Imp) \in Nat /\ InStep(Opens, Imp)' \in Nat
          /\ InStep(Opens, Imp)' + B(In(t, Opens, Imp)) = InStep(Opens, Imp) + B(In(t, Opens, Imp)')
      BY <1>7, InStepMoves
    <3>2. pins[Imp] = opens + InStep(Opens, Imp)
      BY <2>1 DEF Allocated
    <3>. QED
      BY <1>0, <1>7, <3>1, <3>2 DEF B
  <2>5. core'[Imp] <=> opens' > 0
    BY <1>0, <1>7, <2>1 DEF Allocated
  <2>. QED
    BY <2>2, <2>3, <2>4, <2>5 DEF Releasing, Allocated
<1>8. ASSUME NEW t \in Threads, MapFailed(t), pc[t].o = Imp PROVE Goal
  <2>1. UNCHANGED <<state, refs, handles, core, opens>> /\ pins' = [pins EXCEPT ![Imp] = @ - 1]
    BY <1>8 DEF MapFailed
  <2>2. pc[t].at = "mapFailed" /\ On(t, "openFail") /\ pc[t].f # None
    BY <1>8, MapPlace DEF Shape, Mapping
  <2>3. B(In(t, Opens, Imp)) = 1 /\ B(In(t, Opens, Imp)') = 0 /\ pc[t].f \in handles[Imp]
    BY <1>8, <2>2 DEF On, After, In, Opens, B, Handed
  <2>. QED
    BY <1>0, <1>7, <1>8, <2>1, <2>2, <2>3 DEF On, After, Allocated
<1>9. ASSUME NEW t \in Threads, OpenPin(t) PROVE Goal
  <2>1. UNCHANGED <<state, refs, handles, core, opens>> /\ pins' = [pins EXCEPT ![Imp] = @ + 1]
    BY <1>9 DEF OpenPin
  <2>2. pc[t].at = "openPin" /\ (On(t, "mapMark") \/ On(t, "openAlloc")) /\ pc[t].f # None
        /\ pc[t].o = Imp
    BY <1>9, OpenPlace DEF Shape, Opening
  <2>3. B(In(t, Opens, Imp)) = 0 /\ B(In(t, Opens, Imp)') = 1 /\ pc[t].f \in handles[Imp]
    BY <2>2 DEF On, After, In, Opens, B, Handed
  <2>. QED
    BY <1>0, <1>7, <2>1, <2>2, <2>3 DEF On, After, Allocated
<1>10. ASSUME NEW t \in Threads, OpenFail(t) PROVE Goal
  <2>1. UNCHANGED <<state, core, opens, pins>> /\ refs' = [refs EXCEPT ![Imp] = @ - 1]
        /\ handles' = [handles EXCEPT ![Imp] = @ \ {pc[t].f}]
    BY <1>10 DEF OpenFail, memory
  <2>2. pc[t].at = "openFail" /\ On(t, "put") /\ pc[t].f # None /\ pc[t].o = Imp
    BY <1>10, OpenPlace DEF Shape, Opening
  <2>3. B(In(t, Opens, Imp)) = 0 /\ B(In(t, Opens, Imp)') = 0
    BY <2>2 DEF On, After, In, Opens, B
  <2>. QED
    BY <1>0, <1>7, <2>1, <2>2, <2>3 DEF On, After, Allocated
<1>11. ASSUME NEW t \in Threads, OpenAlloc(t) PROVE Goal
  <2>1. UNCHANGED <<state, refs, handles, pins>>
    BY <1>11 DEF OpenAlloc, memory
  <2>2. pc[t].at = "openAlloc" /\ pc[t].f # None /\ pc[t].o = Imp /\ pc[t].f \in handles[Imp]
    BY <1>11, OpenPlace DEF Shape, Opening, Handed
  <2>3. \/ core'[Imp] /\ opens' = opens + 1 /\ On(t, "put")
        \/ core' = core /\ opens' = opens /\ On(t, "openUnpin")
    <3>1. \/ core' = [core EXCEPT ![Imp] = TRUE] /\ opens' = opens + 1 /\ Go(t, "put")
          \/ core' = core /\ opens' = opens /\ Go(t, "openUnpin")
      BY <1>11 DEF OpenAlloc
    <3>. QED
      BY <1>0, <3>1, GoFacts DEF On, After, Steps
  <2>4. CASE core'[Imp] /\ opens' = opens + 1 /\ On(t, "put")
    <3>1. B(In(t, Opens, Imp)) = 1 /\ B(In(t, Opens, Imp)') = 0
      BY <2>2, <2>4 DEF On, After, In, Opens, B
    <3>. QED
      BY <1>0, <1>7, <2>1, <2>2, <2>4, <3>1 DEF On, After
  <2>5. CASE core' = core /\ opens' = opens /\ On(t, "openUnpin")
    <3>1. B(In(t, Opens, Imp)) = 1 /\ B(In(t, Opens, Imp)') = 1
      BY <2>2, <2>5 DEF On, After, In, Opens, B
    <3>. QED
      BY <1>0, <1>7, <2>1, <2>2, <2>5, <3>1 DEF On, After, Allocated
  <2>. QED
    BY <2>3, <2>4, <2>5
<1>12. ASSUME NEW t \in Threads, UnpinImp(t), pc[t].at = "openUnpin" PROVE Goal
  <2>1. UNCHANGED <<state, refs, handles, core, opens>> /\ pins' = [pins EXCEPT ![Imp] = @ - 1]
    BY <1>12 DEF UnpinImp, At
  <2>2. (On(t, "unmapUnpin") \/ On(t, "openFail")) /\ pc[t].f # None
        /\ pc[t].o = Imp
    BY <1>12, OpenPlace DEF Shape, Opening
  <2>3. B(In(t, Opens, Imp)) = 1 /\ B(In(t, Opens, Imp)') = 0 /\ pc[t].f \in handles[Imp]
    BY <1>12, <2>2 DEF On, After, In, Opens, B, Handed
  <2>. QED
    BY <1>0, <1>7, <1>12, <2>1, <2>2, <2>3 DEF On, After, Allocated
<1>13. ASSUME NEW t \in Threads, UnpinImp(t), pc[t].at = "relUnpin" PROVE Goal
  <2>1. UNCHANGED <<state, refs, handles, opens>> /\ pins' = [pins EXCEPT ![Imp] = @ - 1]
        /\ core' = [core EXCEPT ![Imp] = FALSE]
    BY <1>13 DEF UnpinImp, At
  <2>2. Only(t) /\ Releases(t) /\ pc'[t].f = None /\ pc'[t].at # "relUnpin"
    BY <1>13, OpenPlace DEF Shape, On, After, Releases
  <2>3. \A u \in Threads : Releases(u)' => u = t
    BY <2>2 DEF Releasing, Releases, Only
  <2>4. refs[Imp] = 0 /\ state[Imp] = "live" /\ opens > 0 /\ pins[Imp] = opens
    BY <1>13, <2>2 DEF Releasing, Allocated
  <2>5. ~core'[Imp] /\ (opens' <= 1 => pins'[Imp] = 0)
    BY <1>0, <2>1, <2>4
  <2>6. Handed'
    BY <2>1, <2>2 DEF Handed, Only
  <2>7. Releasing'
    BY <2>1, <2>3, <2>4 DEF Releasing
  <2>8. Allocated'
    BY <2>1, <2>2, <2>3, <2>4, <2>5 DEF Allocated
  <2>. QED
    BY <2>6, <2>7, <2>8
<1>14. CASE UNCHANGED vars
  BY <1>14 DEF vars, Handed, Releasing, Releases, Allocated, InStep
<1>. QED
  <2>1. ASSUME NEW t \in Threads, Call(t) PROVE Goal
    BY <1>3, <1>4, <2>1, CalmCalls, CalmStep
  <2>2. ASSUME NEW t \in Threads, Put(t) PROVE Goal
    <3>1. pc[t].o \in {Own, Imp}
      BY <2>2, PutPlace DEF Objs
    <3>2. pc[t].o = Own => Goal
      BY <2>2, CalmMoves, CalmStep
    <3>. QED
      BY <1>5, <2>2, <3>1, <3>2
  <2>3. ASSUME NEW t \in Threads, MapFailed(t) PROVE Goal
    <3>1. pc[t].o \in {Own, Imp}
      BY <2>3, MapPlace, OwnerOf DEF Objs
    <3>2. pc[t].o = Own => Goal
      BY <2>3, CalmMoves, CalmStep
    <3>. QED
      BY <1>8, <2>3, <3>1, <3>2
  <2>4. ASSUME NEW t \in Threads,
               \/ MapMark(t) \/ MapPin(t) \/ MapTable(t) \/ UnmapUnpin(t) \/ UnmapMark(t)
               \/ OpenCheck(t) \/ VmapLock(t) \/ MmapMark(t) \/ MmapMap(t)
        PROVE  Goal
    BY <2>4, CalmMoves, CalmStep
  <2>5. ASSUME NEW t \in Threads, UnpinImp(t) PROVE Goal
    BY <1>12, <1>13, <2>5 DEF UnpinImp
  <2>6. ASSUME NEW t \in Threads, Continue(t) PROVE Goal
    BY <1>6, <1>9, <1>10, <1>11, <2>2, <2>3, <2>4, <2>5, <2>6 DEF Continue
  <2>. QED
    BY <1>14, <2>1, <2>6 DEF Next

-------------------------------------------------------------------------------
(* What is mapped has a core_handle.                                        *)
Cored == (state[Own] = "live" => core[Own]) /\ (vmas[Imp] > 0 => core[Imp])

LEMMA CoredStep ==
  ASSUME TypeOK, Shape, Counting, Counted, Releasing, Cored, [Next]_vars
  PROVE  Cored'
<1>. USE GemAssumption DEF memory, counts
<1>0. /\ state \in [Objs -> {"none", "live", "freed"}] /\ core \in [Objs -> BOOLEAN]
      /\ vmas \in [Objs -> Nat] /\ refs \in [Objs -> Int] /\ Own \in Objs /\ Imp \in Objs
  BY DEF TypeOK, Objs, Counting
<1>1. ASSUME state'[Own] = "live" => state[Own] = "live", UNCHANGED core,
             vmas'[Imp] > 0 => vmas[Imp] > 0 \/ core[Imp]
      PROVE  Cored'
  BY <1>1 DEF Cored
<1>2. ASSUME NEW t \in Threads, Call(t) PROVE Cored'
  <2>1. CASE \E f \in Files : CreateObject(t, f)
    BY <1>0, <2>1 DEF CreateObject, Cored
  <2>2. CASE \/ \E f \in Files : \/ OpenOwn(t, f) \/ PrimeImport(t, f) \/ OpenByName(t, f)
                                \/ PrimeExport(t, f)
                                \/ \E o \in Objs : \/ HandleClose(t, f, o) \/ FbCreate(t, f, o)
                                                  \/ BeginCpuAccess(t, f, o) \/ Mmap(t, f, o)
             \/ Attach(t) \/ (\E h \in {"fd", "foreign"} : LetBufGo(t, h))
             \/ ForeignMap(t) \/ ForeignUnmap(t) \/ VmapMark(t) \/ Vunmap(t)
             \/ FbDestroy(t) \/ PreparePlaneFb(t) \/ CleanupPlaneFb(t)
    <3>1. UNCHANGED <<core, vmas>> /\ state'[Own] = state[Own]
      BY <1>0, <2>2 DEF OpenOwn, PrimeImport, OpenByName, PrimeExport, HandleClose, FbCreate,
         BeginCpuAccess, Mmap, Attach, LetBufGo, ForeignMap, ForeignUnmap, VmapMark, Vunmap,
         FbDestroy, PreparePlaneFb, CleanupPlaneFb
    <3>. QED
      BY <1>1, <3>1
  <2>3. CASE \E o \in Objs : VmOpen(t, o) \/ VmClose(t, o)
    <3>1. UNCHANGED <<core, state>> /\ (vmas'[Imp] > 0 => vmas[Imp] > 0)
      BY <1>0, <2>3 DEF VmOpen, VmClose
    <3>. QED
      BY <1>1, <3>1
  <2>. QED
    BY <1>2, <2>1, <2>2, <2>3 DEF Call
<1>3. ASSUME NEW t \in Threads, Put(t) PROVE Cored'
  <2>1. UNCHANGED vmas /\ pc[t].o \in Objs
    BY <1>3, PutPlace DEF Put
  <2>2. CASE refs[pc[t].o] = 1 /\ pc[t].o = Own
    <3>1. state' = [state EXCEPT ![Own] = "freed"] /\ core' = [core EXCEPT ![Own] = FALSE]
      BY <1>3, <2>2 DEF Put, ReleaseOwn
    <3>. QED
      BY <1>0, <2>1, <3>1 DEF Cored
  <2>3. CASE ~(refs[pc[t].o] = 1 /\ pc[t].o = Own)
    <3>1. UNCHANGED <<state, core>>
      BY <1>3, <2>3 DEF Put, ReleaseOwn
    <3>. QED
      BY <1>1, <2>1, <3>1
  <2>. QED
    BY <2>2, <2>3
<1>4. ASSUME NEW t \in Threads,
             \/ MapMark(t) \/ MapPin(t) \/ MapTable(t) \/ MapFailed(t) \/ UnmapUnpin(t)
             \/ UnmapMark(t) \/ Detach(t) \/ OpenCheck(t) \/ OpenPin(t) \/ OpenFail(t)
             \/ VmapLock(t) \/ MmapMark(t)
      PROVE  Cored'
  <2>1. UNCHANGED <<core, vmas>> /\ state'[Own] = state[Own]
    BY <1>0, <1>4 DEF MapMark, MapPin, MapTable, MapFailed, UnmapUnpin, UnmapMark, Detach,
       OpenCheck, OpenPin, OpenFail, VmapLock, MmapMark
  <2>. QED
    BY <1>1, <2>1
<1>5. ASSUME NEW t \in Threads, MmapMap(t) PROVE Cored'
  <2>1. /\ UNCHANGED <<core, state>> /\ core[pc[t].o]
        /\ vmas' = [vmas EXCEPT ![pc[t].o] = @ + 1] \/ UNCHANGED vmas
    BY <1>5 DEF MmapMap
  <2>. QED
    BY <1>0, <1>1, <2>1
<1>6. ASSUME NEW t \in Threads, OpenAlloc(t) PROVE Cored'
  <2>1. UNCHANGED <<state, vmas>> /\ (core' = core \/ core' = [core EXCEPT ![Imp] = TRUE])
    BY <1>6 DEF OpenAlloc
  <2>. QED
    BY <1>0, <2>1 DEF Cored
<1>7. ASSUME NEW t \in Threads, UnpinImp(t) PROVE Cored'
  <2>1. UNCHANGED <<state, vmas>>
    BY <1>7 DEF UnpinImp
  <2>2. CASE At(t, "relUnpin")
    <3>1. core' = [core EXCEPT ![Imp] = FALSE]
      BY <1>7, <2>2 DEF UnpinImp
    <3>2. refs[Imp] = 0
      BY <2>2 DEF At, Shape, Releasing, Releases
    <3>3. vmas[Imp] = 0
      BY <1>0, <3>2, OwnersFacts DEF Unowned
    <3>. QED
      BY <1>0, <2>1, <3>1, <3>3 DEF Cored
  <2>3. CASE ~At(t, "relUnpin")
    <3>1. UNCHANGED core
      BY <1>7, <2>3 DEF UnpinImp
    <3>. QED
      BY <1>1, <2>1, <3>1
  <2>. QED
    BY <2>2, <2>3
<1>8. CASE UNCHANGED vars
  BY <1>1, <1>8 DEF vars
<1>. QED
  BY <1>2, <1>3, <1>4, <1>5, <1>6, <1>7, <1>8 DEF Next, Continue

(* The uses of an object's memory, those that are being made or taken down  *)
(* included, are no more than its marks.                                    *)
OwnMarked(t) == In(t, {"mapPin", "mapTable", "unmapUnpin", "unmapMark", "vmapLock", "mmapMap"}, Own)
ImpMapped(t) == In(t, {"mapPin", "mapTable", "unmapUnpin", "unmapMark"}, Imp)
ImpMarked(t) == In(t, {"mmapMap"}, Imp)
Used == B(kmap > 0) + vmas[Own] + fmaps + B(pages[Imp]) + shown

Marked ==
  /\ marks[Own] >= Used
       + InStep({"mapPin", "mapTable", "unmapUnpin", "unmapMark", "vmapLock", "mmapMap"}, Own)
       + InStep({"mapPin", "mapTable", "unmapUnpin", "unmapMark"}, Imp)
  /\ marks[Imp] + owed >= vmas[Imp] + InStep({"mmapMap"}, Imp)

LEMMA MarkBalance ==
  ASSUME TypeOK, TypeOK', Counting, Counting', Marked, NEW t \in Threads, Only(t),
         marks'[Own] + Used + B(OwnMarked(t)) + B(ImpMapped(t))
           >= marks[Own] + Used' + B(OwnMarked(t)') + B(ImpMapped(t)'),
         marks'[Imp] + owed' + vmas[Imp] + B(ImpMarked(t))
           >= marks[Imp] + owed + vmas'[Imp] + B(ImpMarked(t)')
  PROVE  Marked'
<1>. DEFINE S == {"mapPin", "mapTable", "unmapUnpin", "unmapMark", "vmapLock", "mmapMap"}
            T == {"mapPin", "mapTable", "unmapUnpin", "unmapMark"}
            U == {"mmapMap"}
<1>1. /\ InStep(S, Own) \in Nat /\ InStep(S, Own)' \in Nat
      /\ InStep(S, Own)' + B(In(t, S, Own)) = InStep(S, Own) + B(In(t, S, Own)')
  BY InStepMoves
<1>2. /\ InStep(T, Imp) \in Nat /\ InStep(T, Imp)' \in Nat
      /\ InStep(T, Imp)' + B(In(t, T, Imp)) = InStep(T, Imp) + B(In(t, T, Imp)')
  BY InStepMoves
<1>3. /\ InStep(U, Imp) \in Nat /\ InStep(U, Imp)' \in Nat
      /\ InStep(U, Imp)' + B(In(t, U, Imp)) = InStep(U, Imp) + B(In(t, U, Imp)')
  BY InStepMoves
<1>4. /\ marks[Own] >= Used + InStep(S, Own) + InStep(T, Imp)
      /\ marks[Imp] + owed >= vmas[Imp] + InStep(U, Imp)
  BY DEF Marked
<1>5. /\ marks[Own] \in Int /\ marks'[Own] \in Int /\ marks[Imp] \in Int /\ marks'[Imp] \in Int
      /\ vmas[Imp] \in Nat /\ vmas'[Imp] \in Nat /\ owed \in Int /\ owed' \in Int
  BY DEF TypeOK, Objs, Counting
<1>6. Used \in Nat /\ Used' \in Nat
  BY DEF Used, B, Counting, Objs
<1>7. /\ OwnMarked(t) = In(t, S, Own) /\ OwnMarked(t)' = In(t, S, Own)'
      /\ ImpMapped(t) = In(t, T, Imp) /\ ImpMapped(t)' = In(t, T, Imp)'
      /\ ImpMarked(t) = In(t, U, Imp) /\ ImpMarked(t)' = In(t, U, Imp)'
  BY DEF OwnMarked, ImpMapped, ImpMarked
<1>8. /\ marks'[Own] >= Used' + InStep(S, Own)' + InStep(T, Imp)'
      /\ marks'[Imp] + owed' >= vmas'[Imp] + InStep(U, Imp)'
  <2>. HIDE DEF S, T, U
  <2>1. marks'[Own] >= Used' + InStep(S, Own)' + InStep(T, Imp)'
    BY <1>1, <1>2, <1>4, <1>5, <1>6, <1>7 DEF B
  <2>2. marks'[Imp] + owed' >= vmas'[Imp] + InStep(U, Imp)'
    BY <1>3, <1>4, <1>5, <1>7 DEF B
  <2>. QED
    BY <2>1, <2>2
<1>. QED
  BY <1>8 DEF Marked

LEMMA MarkedStep ==
  ASSUME TypeOK, Shape, Locking, Counting, Counted, Fresh, Held, Releasing, Freed, Cored, Paging,
         Marked, [Next]_vars
  PROVE  Marked'
<1>. USE GemAssumption
<1>0. /\ marks \in [Objs -> Int] /\ owed \in Int /\ pages \in [Objs -> BOOLEAN]
      /\ Own \in Objs /\ Imp \in Objs /\ vmas \in [Objs -> Nat] /\ kmap \in Nat /\ fmaps \in Nat /\ shown \in Nat
      /\ TypeOK' /\ Counting'
  BY TypeStep, CountingStep DEF TypeOK, Objs, Counting
<1>1. ASSUME UNCHANGED <<marks, owed, kmap, vmas, fmaps, pages, shown, pc>> PROVE Marked'
  BY <1>1 DEF Marked, Used, InStep
<1>2. ASSUME UNCHANGED <<marks, owed, kmap, vmas, fmaps, pages, shown>>, NEW t \in Threads, Only(t),
             OwnMarked(t)' => OwnMarked(t), ImpMapped(t)' => ImpMapped(t),
             ImpMarked(t)' => ImpMarked(t)
      PROVE  Marked'
  <2>1. Used' = Used
    BY <1>2 DEF Used
  <2>2. Used \in Nat
    BY <1>0 DEF Used, B
  <2>. QED
    BY <1>0, <1>2, <2>1, <2>2, MarkBalance DEF B
<1>3. ASSUME NEW t \in Threads, UNCHANGED pc PROVE Only(t)
  BY <1>3, TypePlaces DEF Only
<1>4. ASSUME NEW t \in Threads,
             \/ Attach(t)
             \/ \E f \in Files : \/ CreateObject(t, f) \/ OpenOwn(t, f) \/ PrimeExport(t, f)
                               \/ \E o \in Objs : FbCreate(t, f, o)
      PROVE  Marked'
  <2>. USE DEF memory, counts
  <2>1. UNCHANGED <<marks, owed, kmap, vmas, fmaps, pages, shown, pc>>
    BY <1>4 DEF CreateObject, OpenOwn, PrimeExport, Attach, FbCreate
  <2>. QED
    BY <1>1, <2>1
<1>5. ASSUME NEW t \in Threads, NEW f \in Files, NEW o \in Objs,
             \/ PrimeImport(t, f) \/ OpenByName(t, f) \/ HandleClose(t, f, o)
             \/ BeginCpuAccess(t, f, o) \/ Mmap(t, f, o)
      PROVE  Marked'
  <2>1. UNCHANGED <<marks, owed, kmap, vmas, fmaps, pages, shown>>
    BY <1>5 DEF PrimeImport, OpenByName, HandleClose, BeginCpuAccess, Mmap,
       memory, counts
  <2>2. Only(t) /\ pc'[t].at \in {"open", "put", "mmapMark"}
    BY <1>5, BeginPlace DEF Begins, After
  <2>. QED
    BY <1>2, <2>1, <2>2 DEF OwnMarked, ImpMapped, ImpMarked, In
<1>6. ASSUME NEW t \in Threads,
             \/ Detach(t) \/ OpenCheck(t) \/ OpenFail(t) \/ OpenPin(t)
             \/ MapFailed(t) \/ MapPin(t) \/ UnmapUnpin(t)
             \/ \E h \in {"fd", "foreign"} : LetBufGo(t, h)
      PROVE  Marked'
  <2>1. UNCHANGED <<marks, owed, kmap, vmas, fmaps, shown>> /\ pages'[Imp] = pages[Imp]
    <3>1. UNCHANGED <<marks, owed, kmap, vmas, fmaps, shown>>
      BY <1>6 DEF Detach, OpenCheck, OpenFail, OpenPin, MapFailed, MapPin, UnmapUnpin,
         LetBufGo, memory, counts
    <3>2. pages'[Imp] = pages[Imp]
      BY <1>0, <1>6, UnpinOwnFacts
         DEF Detach, OpenCheck, OpenFail, OpenPin, MapFailed, MapPin, GetPages,
         UnmapUnpin, LetBufGo, memory
    <3>. QED
      BY <3>1, <3>2
  <2>2. Only(t) /\ (OwnMarked(t)' => OwnMarked(t)) /\ (ImpMapped(t)' => ImpMapped(t))
        /\ (ImpMarked(t)' => ImpMarked(t))
    BY <1>6, LetGoPlace, MapPlace, OpenPlace
       DEF On, Ends, After, OwnMarked, ImpMapped, ImpMarked, In
  <2>3. Used' = Used /\ Used \in Nat
    BY <1>0, <2>1 DEF Used, B
  <2>. QED
    BY <1>0, <2>1, <2>2, <2>3, MarkBalance DEF B
<1>7. ASSUME NEW t \in Threads, NEW o \in Objs, VmOpen(t, o) PROVE Marked'
  <2>1. /\ UNCHANGED <<kmap, fmaps, shown, pages, owed, pc>> /\ vmas[o] > 0
        /\ vmas' = [vmas EXCEPT ![o] = @ + 1] /\ Marking(o, 1)
    BY <1>7 DEF VmOpen
  <2>2. Only(t) /\ B(OwnMarked(t)') = B(OwnMarked(t)) /\ B(ImpMapped(t)') = B(ImpMapped(t))
        /\ B(ImpMarked(t)') = B(ImpMarked(t))
    BY <1>3, <2>1 DEF OwnMarked, ImpMapped, ImpMarked, In
  <2>3. core[o]
    <3>1. o = Own => state[Own] = "live"
      BY <1>0, <2>1, DeadFacts DEF Unowned
    <3>. QED
      BY <2>1, <3>1 DEF Cored, Objs
  <2>4. marks' = [marks EXCEPT ![o] = @ + 1]
    BY <2>1, <2>3 DEF Marking
  <2>. QED
    BY <1>0, <2>1, <2>2, <2>4, MarkBalance DEF B, Used, Objs
<1>8. ASSUME NEW t \in Threads, Vunmap(t) \/ PreparePlaneFb(t) \/ CleanupPlaneFb(t) PROVE Marked'
  <2>1. UNCHANGED <<fmaps, pages, vmas, owed, pc>>
    BY <1>8 DEF Vunmap, PreparePlaneFb, CleanupPlaneFb
  <2>2. /\ marks'[Own] + B(kmap > 0) + shown >= marks[Own] + B(kmap' > 0) + shown'
        /\ marks'[Imp] = marks[Imp]
    <3>1. CASE Vunmap(t)
      <4>1. DropKernelUse(TRUE) /\ shown' = shown
        BY <3>1 DEF Vunmap
      <4>2. marks'[Own] + B(kmap > 0) >= marks[Own] + B(kmap' > 0) /\ marks'[Imp] = marks[Imp]
            /\ marks' \in [Objs -> Int]
        BY <1>0, <4>1, DropFacts
      <4>. QED
        BY <1>0, <4>1, <4>2 DEF B
    <3>2. CASE PreparePlaneFb(t) \/ CleanupPlaneFb(t)
      BY <1>0, <3>2 DEF PreparePlaneFb, CleanupPlaneFb, B
    <3>. QED
      BY <1>8, <3>1, <3>2
  <2>3. Only(t) /\ B(OwnMarked(t)') = B(OwnMarked(t)) /\ B(ImpMapped(t)') = B(ImpMapped(t))
        /\ B(ImpMarked(t)') = B(ImpMarked(t))
    BY <1>3, <2>1 DEF OwnMarked, ImpMapped, ImpMarked, In
  <2>4. marks'[Own] \in Int /\ kmap' \in Nat /\ shown' \in Nat
    BY <1>0 DEF TypeOK, Counting
  <2>. QED
    BY <1>0, <2>1, <2>2, <2>3, <2>4, MarkBalance DEF B, Used
<1>9. ASSUME NEW t \in Threads, NEW o \in Objs, VmClose(t, o) PROVE Marked'
  <2>1. /\ UNCHANGED <<kmap, fmaps, shown, pages, owed>>
        /\ vmas' = [vmas EXCEPT ![o] = @ - 1]
        /\ marks' = [marks EXCEPT ![o] = @ - 1] \/ UNCHANGED marks
    BY <1>9 DEF VmClose, Marking
  <2>2. Only(t) /\ ~OwnMarked(t)' /\ ~ImpMapped(t)' /\ ~ImpMarked(t)'
        /\ ~OwnMarked(t) /\ ~ImpMapped(t) /\ ~ImpMarked(t)
    BY <1>9, BeginPlace DEF Begins, After, OwnMarked, ImpMapped, ImpMarked, In
  <2>. QED
    BY <1>0, <2>1, <2>2, MarkBalance DEF B, Used, Objs
<1>10. ASSUME NEW t \in Threads, ForeignUnmap(t) \/ VmapMark(t) PROVE Marked'
  <2>1. /\ UNCHANGED <<kmap, shown, pages, vmas, owed>>
        /\ \/ fmaps' = fmaps - 1 /\ UNCHANGED marks
           \/ UNCHANGED fmaps /\ marks' = [marks EXCEPT ![Own] = @ + 1]
    BY <1>10 DEF ForeignUnmap, VmapMark, memory, counts
  <2>2. Only(t) /\ OwnMarked(t)' /\ ~ImpMapped(t)' /\ ~ImpMarked(t)'
        /\ ~OwnMarked(t) /\ ~ImpMapped(t) /\ ~ImpMarked(t)
    BY <1>10, BeginPlace DEF Begins, After, OwnMarked, ImpMapped, ImpMarked, In
  <2>. QED
    BY <1>0, <2>1, <2>2, MarkBalance DEF B, Used, Objs
<1>11. ASSUME NEW t \in Threads, Put(t) PROVE Marked'
  <2>1. pc[t].at = "put" /\ Only(t) /\ pc'[t].at \in {"idle", "relUnpin", "detach"}
        /\ pc[t].o \in Objs
    BY <1>11, PutPlace DEF Ends, After, Objs
  <2>2. UNCHANGED <<fmaps, shown, pages, vmas, owed>>
        /\ DropKernelUse(refs[pc[t].o] = 1 /\ pc[t].o = Own)
    BY <1>11 DEF Put
  <2>3. /\ marks'[Own] + B(kmap > 0) >= marks[Own] + B(kmap' > 0) /\ marks'[Imp] = marks[Imp]
        /\ marks' \in [Objs -> Int] /\ kmap' \in Nat
    BY <1>0, <2>2, DropFacts
  <2>4. ~OwnMarked(t)' /\ ~ImpMapped(t)' /\ ~ImpMarked(t)'
        /\ ~OwnMarked(t) /\ ~ImpMapped(t) /\ ~ImpMarked(t)
    BY <2>1 DEF OwnMarked, ImpMapped, ImpMarked, In
  <2>. QED
    BY <1>0, <2>1, <2>2, <2>3, <2>4, MarkBalance DEF B, Used, Objs
<1>12. ASSUME NEW t \in Threads, MapMark(t) PROVE Marked'
  <2>1. pc[t].at = "mapMark" /\ Only(t) /\ pc'[t].at = "mapPin" /\ pc'[t].o = pc[t].o
        /\ pc[t].o \in Objs
    BY <1>12, MapPlace, OwnerOf DEF On, After
  <2>2. /\ UNCHANGED <<kmap, fmaps, shown, pages, vmas, owed>>
        /\ marks' = [marks EXCEPT ![Own] = @ + 1]
    BY <1>12 DEF MapMark, counts
  <2>3. /\ ~ImpMarked(t)' /\ ~OwnMarked(t) /\ ~ImpMapped(t) /\ ~ImpMarked(t)
        /\ B(OwnMarked(t)') + B(ImpMapped(t)') = 1
    BY <2>1 DEF OwnMarked, ImpMapped, ImpMarked, In, Objs, B
  <2>. QED
    BY <1>0, <2>1, <2>2, <2>3, MarkBalance DEF B, Used, Objs
<1>13. ASSUME NEW t \in Threads, MapTable(t) PROVE Marked'
  <2>1. pc[t].at = "mapTable" /\ pc[t].o \in Objs /\ Only(t)
        /\ pc'[t].at \in {"idle", "openAlloc", "mapFailed"}
    BY <1>13, MapPlace, OwnerOf DEF On, Ends, After
  <2>2. /\ B(OwnMarked(t)) + B(ImpMapped(t)) = 1 /\ ~OwnMarked(t)' /\ ~ImpMapped(t)'
        /\ ~ImpMarked(t) /\ ~ImpMarked(t)'
    BY <2>1 DEF OwnMarked, ImpMapped, ImpMarked, In, B, Objs
  <2>3. \/ fmaps' = fmaps + 1 /\ UNCHANGED pages
        \/ UNCHANGED fmaps /\ pages' = [pages EXCEPT ![Imp] = TRUE]
        \/ UNCHANGED fmaps /\ UnpinOwn
    BY <1>13, <2>1 DEF MapTable, Objs
  <2>4. UNCHANGED <<marks, owed, vmas, kmap, shown>>
    BY <1>13 DEF MapTable
  <2>5. Used' <= Used + 1 /\ Used \in Nat /\ Used' \in Nat
    BY <1>0, <2>3, <2>4, UnpinOwnFacts DEF Used, B
  <2>. QED
    BY <1>0, <2>1, <2>2, <2>4, <2>5, MarkBalance DEF B
<1>14. ASSUME NEW t \in Threads, UnmapMark(t) PROVE Marked'
  <2>1. pc[t].at = "unmapMark" /\ pc[t].o \in Objs /\ Only(t)
        /\ pc'[t].at \in {"idle", "openFail", "detach"}
    BY <1>14, MapPlace, OwnerOf DEF On, Ends, After
  <2>2. /\ B(OwnMarked(t)) + B(ImpMapped(t)) = 1 /\ ~OwnMarked(t)' /\ ~ImpMapped(t)'
        /\ ~ImpMarked(t) /\ ~ImpMarked(t)'
    BY <2>1 DEF OwnMarked, ImpMapped, ImpMarked, In, B, Objs
  <2>3. /\ UNCHANGED <<kmap, fmaps, shown, pages, vmas, owed>>
        /\ marks' = [marks EXCEPT ![Own] = @ - 1]
    BY <1>14 DEF UnmapMark, counts
  <2>. QED
    BY <1>0, <2>1, <2>2, <2>3, MarkBalance DEF B, Used, Objs
<1>15. ASSUME NEW t \in Threads, UnpinImp(t) PROVE Marked'
  <2>1. lock[Imp] = None /\ UNCHANGED <<marks, owed, kmap, fmaps, shown, vmas>>
    BY <1>15 DEF UnpinImp, counts
  <2>2. pc[t].o = Imp /\ Only(t) /\ pc'[t].o = Imp /\ pc[t].at \in {"openUnpin", "relUnpin"}
        /\ pc'[t].at \in (IF pins[Imp] = 1 THEN {"unmapUnpin"} ELSE {"detach", "openFail"})
    BY <1>15, OpenPlace DEF Shape, Opening, On, After
  <2>3. IF pins[Imp] = 1 THEN pages[Imp] /\ ~pages'[Imp] ELSE UNCHANGED pages
    BY <1>0, <1>15, <2>1 DEF UnpinImp, Paging
  <2>4. /\ ~OwnMarked(t) /\ ~ImpMapped(t) /\ ~ImpMarked(t) /\ ~OwnMarked(t)' /\ ~ImpMarked(t)'
        /\ ImpMapped(t)' <=> pins[Imp] = 1
    BY <2>2 DEF OwnMarked, ImpMapped, ImpMarked, In
  <2>. QED
    BY <1>0, <2>1, <2>2, <2>3, <2>4, MarkBalance DEF B, Used
<1>16. ASSUME NEW t \in Threads, VmapLock(t) PROVE Marked'
  <2>1. UNCHANGED <<marks, owed, fmaps, shown, vmas, pages>> /\ kmap' = kmap + 1
    BY <1>16 DEF VmapLock, memory
  <2>2. Only(t) /\ OwnMarked(t) /\ ~OwnMarked(t)' /\ ~ImpMapped(t) /\ ~ImpMarked(t)
        /\ ~ImpMapped(t)' /\ ~ImpMarked(t)'
    BY <1>16, MmapPlace DEF Shape, Ends, After, OwnMarked, ImpMapped, ImpMarked, In
  <2>. QED
    BY <1>0, <2>1, <2>2, MarkBalance DEF B, Used
<1>17. ASSUME NEW t \in Threads, MmapMark(t) PROVE Marked'
  <2>1. Only(t) /\ pc[t].at = "mmapMark" /\ pc'[t].at = "mmapMap" /\ pc'[t].o = pc[t].o
        /\ pc[t].o \in Objs
    BY <1>17, MmapPlace, OwnerOf DEF On, After
  <2>2. /\ UNCHANGED <<kmap, fmaps, shown, vmas, pages>>
        /\ \/ core[pc[t].o] /\ marks' = [marks EXCEPT ![pc[t].o] = @ + 1] /\ owed' = owed
           \/ ~core[pc[t].o] /\ owed' = owed + 1 /\ marks' = marks
    BY <1>17 DEF MmapMark, counts
  <2>3. /\ ~OwnMarked(t) /\ ~ImpMapped(t) /\ ~ImpMarked(t) /\ ~ImpMapped(t)'
        /\ OwnMarked(t)' <=> pc[t].o = Own
        /\ ImpMarked(t)' <=> pc[t].o = Imp
    BY <2>1 DEF OwnMarked, ImpMapped, ImpMarked, In
  <2>4. pc[t].o = Own => core[Own]
    <3>1. HoldsRef(t, pc[t].o)
      BY <2>1 DEF HoldsRef
    <3>. QED
      BY <1>0, <3>1, DeadFacts DEF Cored
  <2>5. CASE core[pc[t].o] /\ marks' = [marks EXCEPT ![pc[t].o] = @ + 1] /\ owed' = owed
    BY <1>0, <2>1, <2>2, <2>3, <2>5, MarkBalance DEF B, Used, Objs
  <2>6. CASE ~core[pc[t].o] /\ owed' = owed + 1 /\ marks' = marks
    <3>1. pc[t].o = Imp
      BY <2>1, <2>4, <2>6 DEF Objs
    <3>. QED
      BY <1>0, <2>1, <2>2, <2>3, <2>6, <3>1, MarkBalance DEF B, Used
  <2>. QED
    BY <2>2, <2>5, <2>6
<1>18. ASSUME NEW t \in Threads, MmapMap(t) PROVE Marked'
  <2>1. Only(t) /\ pc[t].at = "mmapMap" /\ pc'[t].at = "idle" /\ pc[t].o \in Objs
    BY <1>18, MmapPlace, OwnerOf DEF Ends, After
  <2>2. /\ UNCHANGED <<marks, owed, kmap, fmaps, shown, pages>>
        /\ vmas' = [vmas EXCEPT ![pc[t].o] = @ + 1] \/ UNCHANGED vmas
    BY <1>18 DEF MmapMap, memory
  <2>3. /\ ~ImpMapped(t) /\ ~OwnMarked(t)' /\ ~ImpMapped(t)' /\ ~ImpMarked(t)'
        /\ OwnMarked(t) <=> pc[t].o = Own
        /\ ImpMarked(t) <=> pc[t].o = Imp
    BY <2>1 DEF OwnMarked, ImpMapped, ImpMarked, In
  <2>. QED
    BY <1>0, <2>1, <2>2, <2>3, MarkBalance DEF B, Used, Objs
<1>19. ASSUME NEW t \in Threads, FbDestroy(t) \/ ForeignMap(t) PROVE Marked'
  <2>1. UNCHANGED <<marks, owed, kmap, vmas, fmaps, pages, shown>>
    BY <1>19 DEF FbDestroy, ForeignMap, memory, counts
  <2>2. Only(t) /\ pc'[t].at \in {"put", "mapMark"}
    BY <1>19, BeginPlace DEF Begins, After
  <2>. QED
    BY <1>2, <2>1, <2>2 DEF OwnMarked, ImpMapped, ImpMarked, In
<1>21. ASSUME NEW t \in Threads, OpenAlloc(t) PROVE Marked'
  <2>1. /\ UNCHANGED <<kmap, vmas, fmaps, shown, pages>>
        /\ \/ UNCHANGED <<marks, owed>>
           \/ marks' = [marks EXCEPT ![Imp] = 0] /\ owed' = owed + marks[Imp]
    BY <1>21 DEF OpenAlloc, counts
  <2>2. Only(t) /\ ~OwnMarked(t)' /\ ~ImpMapped(t)' /\ ~ImpMarked(t)'
        /\ ~OwnMarked(t) /\ ~ImpMapped(t) /\ ~ImpMarked(t)
    BY <1>21, OpenPlace DEF On, After, OwnMarked, ImpMapped, ImpMarked, In
  <2>. QED
    BY <1>0, <2>1, <2>2, MarkBalance DEF B, Used
<1>20. CASE UNCHANGED vars
  BY <1>1, <1>20 DEF vars
<1>. QED
  <2>1. ASSUME NEW t \in Threads, Call(t) PROVE Marked'
    BY <1>0, <1>4, <1>5, <1>6, <1>7, <1>8, <1>9, <1>10, <1>19, <2>1 DEF Call
  <2>2. ASSUME NEW t \in Threads, Continue(t) PROVE Marked'
    BY <1>6, <1>11, <1>12, <1>13, <1>14, <1>15, <1>16, <1>17, <1>18, <1>21, <2>2 DEF Continue
  <2>. QED
    BY <1>20, <2>1, <2>2 DEF Next

-------------------------------------------------------------------------------
(* The inductive invariant.                                                 *)
IInv ==
  /\ TypeOK /\ Shape /\ Counting /\ Locking /\ Paging /\ PinnedOwn /\ Marked /\ Cored
  /\ Counted /\ Fresh /\ Held /\ Handed /\ Releasing /\ Freed /\ Allocated

LEMMA NobodyIn ==
  ASSUME Init, NEW S, NEW o, "idle" \notin S
  PROVE  InStep(S, o) = 0
<1>1. {t \in Threads : pc[t].at \in S /\ pc[t].o = o} = {}
  BY DEF Init, Idle
<1>. QED
  BY <1>1, FS_EmptySet DEF InStep

LEMMA InitInv == Init => IInv
<1>. SUFFICES ASSUME Init PROVE IInv
  OBVIOUS
<1>. USE GemAssumption
<1>1. TypeOK
  <2>1. pc \in [Threads -> [at : Steps, o : Objs \cup {None}, f : Files \cup {None}]]
    BY DEF Init, Idle, Steps
  <2>2. faults \in 0 .. MaxFaults /\ buf \subseteq {"fd", "foreign"}
    BY DEF Init
  <2>3. /\ state \in [Objs -> {"none", "live", "freed"}] /\ refs \in [Objs -> Int]
        /\ handles \in [Objs -> SUBSET Files] /\ leaked \in [Objs -> Nat]
    BY DEF Init
  <2>4. /\ core \in [Objs -> BOOLEAN] /\ pages \in [Objs -> BOOLEAN] /\ exported \in BOOLEAN
        /\ lock \in [Objs -> Threads \cup {None}]
    BY Zenon DEF Init
  <2>5. pins \in [Objs -> Int] /\ marks \in [Objs -> Int] /\ vmas \in [Objs -> Int] /\ owed \in Int
    BY DEF Init
  <2>6. opens \in Nat /\ kmap \in Int /\ fbs \in Int /\ shown \in Int /\ fmaps \in Int
    BY DEF Init
  <2>7. kbad \in BOOLEAN
    BY Zenon DEF Init
  <2>. QED
    BY <2>1, <2>2, <2>3, <2>4, <2>5, <2>6, <2>7, Zenon DEF TypeOK
<1>2. Shape /\ Counting /\ Locking /\ Paging
  BY DEF Init, Shape, Counting, Locking, Paging, Idle, Objs, Opening, Mapping, Unmapping
<1>3. PinnedOwn
  <2>1. \A o : InStep({"mapTable", "unmapUnpin"}, o) = 0
    BY NobodyIn
  <2>. QED
    BY <2>1 DEF Init, PinnedOwn, Objs, B
<1>4. Marked
  <2>1. /\ InStep({"mapPin", "mapTable", "unmapUnpin", "unmapMark", "vmapLock", "mmapMap"}, Own) = 0
        /\ InStep({"mapPin", "mapTable", "unmapUnpin", "unmapMark"}, Imp) = 0
        /\ InStep({"mmapMap"}, Imp) = 0
    BY NobodyIn
  <2>. QED
    BY <2>1 DEF Init, Marked, Used, Objs, B
<1>5. Counted
  <2>1. ASSUME NEW o \in Objs PROVE refs[o] = Owed(o) + Holders(o)
    <3>1. {t \in Threads : HoldsRef(t, o)} = {}
      BY <2>1 DEF Init, Idle, HoldsRef, Objs
    <3>2. Holders(o) = 0
      BY <3>1, FS_EmptySet DEF Holders
    <3>3. Unowned(o)
      BY <2>1 DEF Init, Unowned
    <3>. QED
      BY <1>1, <2>1, <3>2, <3>3, NothingOwed DEF Init
  <2>. QED
    BY <2>1 DEF Counted
<1>6. Fresh /\ Held /\ Freed /\ Cored
  BY DEF Init, Fresh, Unowned, Held, Mapped, Freed, Cored, Idle, Objs
<1>7. Handed /\ Releasing
  BY DEF Init, Handed, Releasing, Releases, Idle
<1>8. Allocated
  BY DEF Init, Allocated, Releases, Idle, Objs
<1>. QED
  BY <1>1, <1>2, <1>3, <1>4, <1>5, <1>6, <1>7, <1>8 DEF IInv

LEMMA Inductive == IInv /\ [Next]_vars => IInv'
BY TypeStep, ShapeStep, CountingStep, LockingStep, PagingStep, PinnedStep, CoredStep, MarkedStep,
   CountedStep, FreshStep, HeldStep, FreedStep, LifeStep DEF IInv

THEOREM Invariance == Spec => []IInv
BY InitInv, Inductive, PTL DEF Spec

(* Every variable keeps its type, for any number of threads and files: the  *)
(* counts of zx_gem.c stay whole numbers, the locks have one owner.         *)
THEOREM TypeCorrect == Spec => []TypeOK
BY Invariance, PTL DEF IInv

(* Memory that a kernel, user or DMA mapping or a prepared plane uses is    *)
(* marked unpagable (zx_gem.c:112, 179, 904; zx_plane.c:356), but for the   *)
(* marks of user mappings of the import that were made before its open had  *)
(* ended or for an allocation a second open has replaced.                   *)
THEOREM UsedMemoryIsMarked == Spec => []UsedIsUnpagable
<1>1. IInv => UsedIsUnpagable
  <2>. SUFFICES ASSUME IInv PROVE UsedIsUnpagable
    OBVIOUS
  <2>1. \A S, o : InStep(S, o) \in Nat
    BY InStepNat
  <2>2. /\ marks[Own] \in Int /\ marks[Imp] \in Int /\ owed \in Int /\ vmas[Imp] \in Nat
        /\ Used \in Nat
    BY DEF IInv, TypeOK, Objs, Counting, Used, B
  <2>. QED
    BY <2>1, <2>2 DEF IInv, Marked, Used, UsedIsUnpagable
<1>. QED
  BY <1>1, Invariance, PTL

(* Pins are the DMA mappings and the allocations made from the pages, and   *)
(* without the lock there are pages exactly while there are pins            *)
(* (zx_gem.c:45-76).                                                        *)
THEOREM PinsAreMappings == Spec => []PinsExact
<1>1. IInv => PinsExact
  <2>. SUFFICES ASSUME IInv PROVE PinsExact
    OBVIOUS
  <2>1. \A o \in Objs : lock[o] = None => pages[o] = (pins[o] > 0)
    BY DEF IInv, Paging, TypeOK, Objs
  <2>. QED
    BY <2>1 DEF IInv, PinnedOwn, Allocated, Opens, PinsExact
<1>. QED
  BY <1>1, Invariance, PTL

(* Every reference has an owner, and what is freed has none, is not mapped  *)
(* and not pinned (zx_gem.c:78-102).                                        *)
THEOREM ReferencesAreOwned == Spec => []RefsExact
<1>1. IInv => RefsExact
  <2>. SUFFICES ASSUME IInv PROVE RefsExact
    OBVIOUS
  <2>. USE GemAssumption
  <2>0. /\ TypeOK /\ Shape /\ Counting /\ Counted /\ Fresh /\ Held /\ Releasing /\ Freed
        /\ Paging /\ PinnedOwn /\ Own \in Objs /\ Imp \in Objs
    BY DEF IInv, Objs
  <2>1. ASSUME NEW o \in Objs
        PROVE  /\ refs[o] = Cardinality(handles[o]) + vmas[o] + leaked[o]
                             + (IF o = Own THEN fbs + B(exported) ELSE 0)
                             + Cardinality({t \in Threads : HoldsRef(t, o)})
               /\ state[o] = "freed" => refs[o] = 0 /\ ~core[o]
    BY <2>0, <2>1 DEF Counted, Owed, Extra, Holders, Freed
  <2>2. state[Own] = "freed" => (kmap = 0 \/ kbad) /\ fmaps = 0 /\ shown = 0
    BY <2>0, DeadFacts
  <2>3. state[Imp] # "live" /\ pins[Imp] = 0 => ~pages[Imp]
    <3>1. lock[Imp] = None \/ \E t \in Threads : lock[Imp] = t
      BY <2>0 DEF TypeOK
    <3>. QED
      BY <2>0, <3>1 DEF IInv, Locking, Paging
  <2>4. state[Imp] = "freed" /\ opens <= 1 => pins[Imp] = 0 /\ ~pages[Imp]
    BY <2>0, <2>3 DEF Freed
  <2>5. ASSUME state[Own] = "freed", opens <= 1 PROVE pins[Own] = 0 /\ ~pages[Own]
    <3>1. /\ fmaps = 0 /\ state[Imp] # "live"
          /\ \A t \in Threads : ~(pc[t].o = Own /\ pc[t].at \in ForOther) /\ pc[t].o # Imp
      BY <2>0, <2>5, DeadFacts
    <3>2. pins[Imp] = 0
      BY <2>0, <2>5, <3>1 DEF Fresh, Freed, TypeOK
    <3>3. ~pages[Imp]
      BY <2>3, <3>1, <3>2
    <3>4. \A o \in Objs : InStep({"mapTable", "unmapUnpin"}, o) = 0
      <4>1. ASSUME NEW o \in Objs
            PROVE  {t \in Threads : pc[t].at \in {"mapTable", "unmapUnpin"} /\ pc[t].o = o} = {}
        BY <3>1, <4>1 DEF ForOther, Objs
      <4>. QED
        BY <4>1, FS_EmptySet DEF InStep
    <3>5. pins[Own] = 0
      BY <2>0, <3>1, <3>3, <3>4 DEF PinnedOwn, B
    <3>. QED
      BY <2>0, <3>5 DEF Paging
  <2>. QED
    BY <2>1, <2>2, <2>4, <2>5 DEF RefsExact, Objs
<1>. QED
  BY <1>1, Invariance, PTL
===============================================================================
