------------------------ MODULE DmaSyncObjectProofs ------------------------
(***************************************************************************)
(* Proofs about DmaSyncObject, for any number of objects and contexts and  *)
(* any finite number of fences.                                            *)
(*                                                                         *)
(* num_pending counts the components that are still outstanding: not yet   *)
(* reached by enable_signaling, being added, or with the callback linked.  *)
(* Everything rests on that count being exact: only one party can take it  *)
(* to 0, and when it does the creator has no component left to add.        *)
(***************************************************************************)
EXTENDS DmaSyncObject, FiniteSetTheorems, TLAPS

(* The components num_pending stands for.                                   *)
Outstanding(o) == {f \in Fences : \/ f \in rest[o] \/ o \in cbList[f]
                                  \/ pc[o] = "add" /\ f = adding[o]}

(* Locks and signalers.                                                     *)
Signalers ==
  \A c \in Contexts :
    /\ signaling[c] # NoFence => ContextOf[signaling[c]] = c /\ signaling[c] \in signaled
    /\ spc[c] = "idle" <=> running[c] = NoObject
    /\ spc[c] # "idle" => /\ signaling[c] # NoFence
                          /\ running[c] \notin cbList[signaling[c]]

(* Which components an object has, and which it is still building on.       *)
Building ==
  \A o \in Objects :
    /\ pc[o] = "unborn" => fences[o] = {} /\ rest[o] = {}
    /\ rest[o] # {} => pc[o] \in {"enable", "add"}
    /\ rest[o] \subseteq fences[o]
    /\ pc[o] = "add" => adding[o] \in fences[o] \ rest[o]

(* Callbacks are linked to components behind the creator, which are not     *)
(* signaled yet, or are just being signaled.                                *)
Linked ==
  \A o \in Objects, f \in Fences :
    /\ o \in cbList[f] => /\ f \in fences[o] \ rest[o]
                          /\ pc[o] = "add" => adding[o] # f
                          /\ f \in signaled => signaling[ContextOf[f]] = f
    /\ (signaling[ContextOf[f]] = f /\ running[ContextOf[f]] = o) =>
                             /\ f \in fences[o] \ rest[o]
                             /\ pc[o] = "add" => adding[o] # f
Structure == Signalers /\ Building /\ Linked

(* num_pending is the number of outstanding components; the others are      *)
(* signaled.                                                                *)
PendingExact ==
  \A o \in Objects : /\ numPending[o] = Cardinality(Outstanding(o))
                     /\ fences[o] \ Outstanding(o) \subseteq signaled

(* Nothing is outstanding once the creator has failed, the object is done   *)
(* or a callback is about to signal it; and only one party gets there.      *)
Finished ==
  /\ \A o \in Objects : pc[o] \in {"failed", "null"} \/ o \in done => numPending[o] = 0
  /\ \A o \in Objects : o \in done => pc[o] \notin {"unborn", "add"} 
  /\ \A c \in Contexts : spc[c] = "signal" =>
        numPending[running[c]] = 0 /\ pc[running[c]] \notin {"unborn", "failed"}

(* The scheduler's callback is linked by a successful creation and runs     *)
(* with the signal.                                                         *)
ToldOnce ==
  /\ \A o \in linked : pc[o] = "live"
  /\ \A o \in Objects : /\ calls[o] > 0 => o \in done /\ pc[o] = "live"
                         /\ calls[o] <= 1

(* Who holds the creation reference.                                        *)
Creators == \A o \in Objects : /\ pc[o] \in {"enable", "add", "failed"} => o \in held
                               /\ o \in held => pc[o] \notin {"unborn", "null"}

IInv == TypeOK /\ Structure /\ PendingExact /\ Finished /\ ToldOnce /\ Creators /\ RefsExact
-------------------------------------------------------------------------------
(* An outstanding component is a fence: the sets are finite, and a count of *)
(* 0 means that nothing is outstanding.                                     *)
LEMMA OutstandingFinite ==
  ASSUME TypeOK, PendingExact, NEW o \in Objects
  PROVE  /\ IsFiniteSet(Outstanding(o))
         /\ numPending[o] = 0 <=> Outstanding(o) = {}
<1>1. Outstanding(o) \in SUBSET Fences
  BY DEF Outstanding
<1>2. IsFiniteSet(Outstanding(o))
  BY <1>1, FencesAssumption, FS_Subset
<1>. QED
  BY <1>2, FS_EmptySet DEF PendingExact

(* A set without one of its elements is smaller by one.                     *)
LEMMA CardinalityLess ==
  ASSUME NEW S, IsFiniteSet(S), NEW x \in S
  PROVE  Cardinality(S \ {x}) = Cardinality(S) - 1
<1>. QED
  BY FS_RemoveElement

(* An object has finitely many callbacks, at most one per component.        *)
LEMMA CallbacksFinite == \A o \in Objects : IsFiniteSet(Callbacks(o))
<1>. SUFFICES ASSUME NEW o \in Objects PROVE IsFiniteSet(Callbacks(o))
  OBVIOUS
<1>1. Callbacks(o) \in SUBSET Fences
  BY DEF Callbacks
<1>. QED
  BY <1>1, FencesAssumption, FS_Subset

(* Taking an outstanding component away takes one from the count.           *)
LEMMA CountDown ==
  ASSUME TypeOK, PendingExact, NEW o \in Objects, NEW f \in Outstanding(o)
  PROVE  /\ numPending[o] # 0
         /\ numPending[o] - 1 \in Nat
         /\ numPending[o] - 1 = Cardinality(Outstanding(o) \ {f})
         /\ numPending[o] = 1 => Outstanding(o) = {f}
<1>1. IsFiniteSet(Outstanding(o)) /\ numPending[o] # 0
  BY OutstandingFinite
<1>2. /\ IsFiniteSet(Outstanding(o) \ {f})
      /\ Cardinality(Outstanding(o) \ {f}) = Cardinality(Outstanding(o)) - 1
  BY <1>1, FS_RemoveElement
<1>3. numPending[o] \in Nat /\ numPending[o] = Cardinality(Outstanding(o))
  BY DEF TypeOK, PendingExact
<1>4. numPending[o] = 1 => Outstanding(o) \ {f} = {}
  BY <1>2, <1>3, FS_EmptySet
<1>. QED
  BY <1>1, <1>2, <1>3, <1>4

(* The reference that a step is about to put is counted.                    *)
LEMMA RefPositive ==
  ASSUME TypeOK, RefsExact, NEW o \in Objects,
         o \in held \/ pc[o] = "add" \/ Callbacks(o) # {}
  PROVE  ref[o] - 1 \in Nat
<1>1. Cardinality(Callbacks(o)) \in Nat
  BY CallbacksFinite, FS_CardinalityType
<1>2. Callbacks(o) # {} => Cardinality(Callbacks(o)) # 0
  BY CallbacksFinite, FS_EmptySet
<1>. QED
  BY <1>1, <1>2 DEF RefsExact, TypeOK

-------------------------------------------------------------------------------
(* Every variable stays in its range.                                       *)
LEMMA TypeStep == TypeOK /\ Structure /\ PendingExact /\ RefsExact /\ Creators /\ [Next]_vars => TypeOK'
<1>. SUFFICES ASSUME TypeOK, Structure, PendingExact, RefsExact, Creators, [Next]_vars PROVE TypeOK'
  OBVIOUS
<1>. USE NoFenceAssumption, NoObjectAssumption, ContextAssumption
    DEF TypeOK, fence_vars, signal_vars, build_vars, base_vars, Structure, Signalers, Building,
    Linked
<1>1. ASSUME NEW o \in Objects, NEW resv \in SUBSET Fences, NEW c \in Contexts, Create(o, resv, c)
      PROVE  TypeOK'
  <2>1. IsFiniteSet(Others(resv, c))
    BY FencesAssumption, FS_Subset DEF Others
  <2>2. Cardinality(Others(resv, c)) \in Nat /\ Others(resv, c) \in SUBSET Fences
    BY <2>1, FS_CardinalityType DEF Others
  <2>3. CASE Others(resv, c) = {}
    BY <1>1, <2>3 DEF Create
  <2>4. CASE Others(resv, c) # {}
    <3>1. CreateOver(o, Others(resv, c), Cardinality(Others(resv, c)))
      BY <1>1, <2>4 DEF Create
    <3>2. UNCHANGED <<signaled, cbList, signaling, running, spc, adding, done, linked, calls>>
      BY <1>1 DEF Create
    <3>. QED
      BY <2>2, <3>1, <3>2 DEF CreateOver
  <2>. QED
    BY <2>3, <2>4
<1>2. ASSUME NEW o \in Objects, NEW f \in Fences, NextComponent(o, f) PROVE TypeOK'
  BY <1>2 DEF NextComponent, Get
<1>3. ASSUME NEW o \in Objects, AddCallback(o) PROVE TypeOK'
  BY <1>3 DEF AddCallback, ContextFree
<1>4. ASSUME NEW o \in Objects, AddFails(o) PROVE TypeOK'
  <2>1. adding[o] \in Outstanding(o)
    BY <1>4 DEF AddFails, Outstanding
  <2>2. numPending[o] - 1 \in Nat
    BY <2>1, CountDown
  <2>3. ref[o] - 1 \in Nat
    BY <1>4, RefPositive DEF AddFails
  <2>. QED
    BY <1>4, <2>2, <2>3 DEF AddFails, ContextFree, Put
<1>5. ASSUME NEW o \in Objects, CreateDone(o) PROVE TypeOK'
  BY <1>5 DEF CreateDone
<1>6. ASSUME NEW o \in Objects, CreateFails(o) PROVE TypeOK'
  <2>1. ref[o] - 1 \in Nat
    BY <1>6, RefPositive DEF CreateFails, RefsExact, Creators
  <2>. QED
    BY <1>6, <2>1 DEF CreateFails, SignalBase, Put
<1>7. ASSUME NEW f \in Fences, SignalFence(f) PROVE TypeOK'
  BY <1>7 DEF SignalFence, ContextFree
<1>8. ASSUME NEW c \in Contexts, NEW o \in Objects, RunCallback(c, o) PROVE TypeOK'
  <2>1. signaling[c] \in Outstanding(o)
    BY <1>8 DEF RunCallback, Outstanding
  <2>2. numPending[o] - 1 \in Nat
    BY <2>1, CountDown
  <2>. QED
    BY <1>8, <2>2 DEF RunCallback
<1>9. ASSUME NEW c \in Contexts, CallbackSignals(c) PROVE TypeOK'
  BY <1>9 DEF CallbackSignals, SignalBase, BaseFree
<1>10. ASSUME NEW c \in Contexts, CallbackPuts(c) PROVE TypeOK'
  <2>1. running[c] \in Objects /\ signaling[c] \in Callbacks(running[c])
    BY <1>10 DEF CallbackPuts, Callbacks
  <2>2. ref[running[c]] - 1 \in Nat
    BY <2>1, RefPositive
  <2>. QED
    BY <1>10, <2>1, <2>2 DEF CallbackPuts, Put
<1>11. ASSUME NEW c \in Contexts, SignalEnd(c) PROVE TypeOK'
  BY <1>11 DEF SignalEnd
<1>12. ASSUME NEW o \in Objects, IsSignaled(o) PROVE TypeOK'
  BY <1>12 DEF IsSignaled, SignalBase
<1>13. ASSUME NEW o \in Objects, ReleaseObject(o) PROVE TypeOK'
  <2>1. ref[o] - 1 \in Nat
    BY <1>13, RefPositive DEF ReleaseObject
  <2>. QED
    BY <1>13, <2>1 DEF ReleaseObject, Put
<1>14. CASE UNCHANGED vars
  BY <1>14 DEF vars
<1>. QED
  BY <1>1, <1>2, <1>3, <1>4, <1>5, <1>6, <1>7, <1>8, <1>9, <1>10, <1>11, <1>12, <1>13, <1>14
  DEF Next, Creation, Scheduler, Signaling

(* Locks and signalers agree after every step.                              *)
LEMMA SignalersStep == TypeOK /\ Signalers /\ Linked /\ [Next]_vars => Signalers'
<1>. SUFFICES ASSUME TypeOK, Signalers, Linked, [Next]_vars PROVE Signalers'
  OBVIOUS
<1>. USE NoFenceAssumption, NoObjectAssumption, ContextAssumption
    DEF TypeOK, fence_vars, signal_vars, build_vars, base_vars, Signalers, Linked
<1>1. ASSUME NEW o \in Objects, NEW resv \in SUBSET Fences, NEW c \in Contexts, Create(o, resv, c)
      PROVE  Signalers'
  BY <1>1 DEF Create, CreateOver, Others
<1>2. ASSUME NEW o \in Objects, NEW f \in Fences, NextComponent(o, f) PROVE Signalers'
  BY <1>2 DEF NextComponent, Get
<1>3. ASSUME NEW o \in Objects, AddCallback(o) PROVE Signalers'
  BY <1>3 DEF AddCallback, ContextFree
<1>4. ASSUME NEW o \in Objects, AddFails(o) PROVE Signalers'
  BY <1>4 DEF AddFails, ContextFree, Put
<1>5. ASSUME NEW o \in Objects, CreateDone(o) PROVE Signalers'
  BY <1>5 DEF CreateDone
<1>6. ASSUME NEW o \in Objects, CreateFails(o) PROVE Signalers'
  BY <1>6 DEF CreateFails, SignalBase, Put
<1>7. ASSUME NEW f \in Fences, SignalFence(f) PROVE Signalers'
  BY <1>7 DEF SignalFence, ContextFree
<1>8. ASSUME NEW c \in Contexts, NEW o \in Objects, RunCallback(c, o) PROVE Signalers'
  BY <1>8 DEF RunCallback
<1>9. ASSUME NEW c \in Contexts, CallbackSignals(c) PROVE Signalers'
  BY <1>9 DEF CallbackSignals, SignalBase, BaseFree
<1>10. ASSUME NEW c \in Contexts, CallbackPuts(c) PROVE Signalers'
  BY <1>10 DEF CallbackPuts, Put
<1>11. ASSUME NEW c \in Contexts, SignalEnd(c) PROVE Signalers'
  BY <1>11 DEF SignalEnd
<1>12. ASSUME NEW o \in Objects, IsSignaled(o) PROVE Signalers'
  BY <1>12 DEF IsSignaled, SignalBase
<1>13. ASSUME NEW o \in Objects, ReleaseObject(o) PROVE Signalers'
  BY <1>13 DEF ReleaseObject, Put
<1>14. CASE UNCHANGED vars
  BY <1>14 DEF vars
<1>. QED
  BY <1>1, <1>2, <1>3, <1>4, <1>5, <1>6, <1>7, <1>8, <1>9, <1>10, <1>11, <1>12, <1>13, <1>14
  DEF Next, Creation, Scheduler, Signaling

(* What a creator has in hand stays consistent.                             *)
LEMMA BuildingStep == TypeOK /\ Building /\ PendingExact /\ [Next]_vars => Building'
<1>. SUFFICES ASSUME TypeOK, Building, PendingExact, [Next]_vars PROVE Building'
  OBVIOUS
<1>. USE NoFenceAssumption, NoObjectAssumption, ContextAssumption
    DEF TypeOK, fence_vars, signal_vars, build_vars, base_vars, Building
<1>1. ASSUME NEW o \in Objects, NEW resv \in SUBSET Fences, NEW c \in Contexts, Create(o, resv, c)
      PROVE  Building'
  BY <1>1 DEF Create, CreateOver, Others
<1>2. ASSUME NEW o \in Objects, NEW f \in Fences, NextComponent(o, f) PROVE Building'
  BY <1>2 DEF NextComponent, Get
<1>3. ASSUME NEW o \in Objects, AddCallback(o) PROVE Building'
  BY <1>3 DEF AddCallback, ContextFree
<1>4. ASSUME NEW o \in Objects, AddFails(o) PROVE Building'
  <2>1. adding[o] \in Outstanding(o) /\ rest[o] \subseteq Outstanding(o)
    BY <1>4 DEF AddFails, Outstanding
  <2>2. numPending[o] = 1 => Outstanding(o) = {adding[o]}
    BY <2>1, CountDown
  <2>3. adding[o] \notin rest[o]
    BY <1>4 DEF AddFails
  <2>4. numPending[o] = 1 => rest[o] = {}
    BY <2>1, <2>2, <2>3
  <2>. QED
    BY <1>4, <2>4 DEF AddFails, ContextFree, Put
<1>5. ASSUME NEW o \in Objects, CreateDone(o) PROVE Building'
  BY <1>5 DEF CreateDone
<1>6. ASSUME NEW o \in Objects, CreateFails(o) PROVE Building'
  BY <1>6 DEF CreateFails, SignalBase, Put
<1>7. ASSUME NEW f \in Fences, SignalFence(f) PROVE Building'
  BY <1>7 DEF SignalFence, ContextFree
<1>8. ASSUME NEW c \in Contexts, NEW o \in Objects, RunCallback(c, o) PROVE Building'
  BY <1>8 DEF RunCallback
<1>9. ASSUME NEW c \in Contexts, CallbackSignals(c) PROVE Building'
  BY <1>9 DEF CallbackSignals, SignalBase, BaseFree
<1>10. ASSUME NEW c \in Contexts, CallbackPuts(c) PROVE Building'
  BY <1>10 DEF CallbackPuts, Put
<1>11. ASSUME NEW c \in Contexts, SignalEnd(c) PROVE Building'
  BY <1>11 DEF SignalEnd
<1>12. ASSUME NEW o \in Objects, IsSignaled(o) PROVE Building'
  BY <1>12 DEF IsSignaled, SignalBase
<1>13. ASSUME NEW o \in Objects, ReleaseObject(o) PROVE Building'
  BY <1>13 DEF ReleaseObject, Put
<1>14. CASE UNCHANGED vars
  BY <1>14 DEF vars
<1>. QED
  BY <1>1, <1>2, <1>3, <1>4, <1>5, <1>6, <1>7, <1>8, <1>9, <1>10, <1>11, <1>12, <1>13, <1>14
  DEF Next, Creation, Scheduler, Signaling

(* Callbacks stay on components behind the creator.                         *)
LEMMA LinkedStep == TypeOK /\ Structure /\ [Next]_vars => Linked'
<1>. SUFFICES ASSUME TypeOK, Structure, [Next]_vars PROVE Linked'
  OBVIOUS
<1>. USE NoFenceAssumption, NoObjectAssumption, ContextAssumption
    DEF TypeOK, fence_vars, signal_vars, build_vars, base_vars, Structure, Signalers, Building,
    Linked
<1>1. ASSUME NEW o \in Objects, NEW resv \in SUBSET Fences, NEW c \in Contexts, Create(o, resv, c)
      PROVE  Linked'
  BY <1>1 DEF Create, CreateOver, Others
<1>2. ASSUME NEW o \in Objects, NEW f \in Fences, NextComponent(o, f) PROVE Linked'
  BY <1>2 DEF NextComponent, Get
<1>3. ASSUME NEW o \in Objects, AddCallback(o) PROVE Linked'
  BY <1>3 DEF AddCallback, ContextFree
<1>4. ASSUME NEW o \in Objects, AddFails(o) PROVE Linked'
  BY <1>4 DEF AddFails, ContextFree, Put
<1>5. ASSUME NEW o \in Objects, CreateDone(o) PROVE Linked'
  BY <1>5 DEF CreateDone
<1>6. ASSUME NEW o \in Objects, CreateFails(o) PROVE Linked'
  BY <1>6 DEF CreateFails, SignalBase, Put
<1>7. ASSUME NEW f \in Fences, SignalFence(f) PROVE Linked'
  BY <1>7 DEF SignalFence, ContextFree
<1>8. ASSUME NEW c \in Contexts, NEW o \in Objects, RunCallback(c, o) PROVE Linked'
  BY <1>8 DEF RunCallback
<1>9. ASSUME NEW c \in Contexts, CallbackSignals(c) PROVE Linked'
  BY <1>9 DEF CallbackSignals, SignalBase, BaseFree
<1>10. ASSUME NEW c \in Contexts, CallbackPuts(c) PROVE Linked'
  BY <1>10 DEF CallbackPuts, Put
<1>11. ASSUME NEW c \in Contexts, SignalEnd(c) PROVE Linked'
  BY <1>11 DEF SignalEnd
<1>12. ASSUME NEW o \in Objects, IsSignaled(o) PROVE Linked'
  BY <1>12 DEF IsSignaled, SignalBase
<1>13. ASSUME NEW o \in Objects, ReleaseObject(o) PROVE Linked'
  BY <1>13 DEF ReleaseObject, Put
<1>14. CASE UNCHANGED vars
  BY <1>14 DEF vars
<1>. QED
  BY <1>1, <1>2, <1>3, <1>4, <1>5, <1>6, <1>7, <1>8, <1>9, <1>10, <1>11, <1>12, <1>13, <1>14
  DEF Next, Creation, Scheduler, Signaling

(* The count stays exact.                                                   *)
LEMMA PendingStep == TypeOK /\ Structure /\ PendingExact /\ [Next]_vars => PendingExact'
<1>. SUFFICES ASSUME TypeOK, Structure, PendingExact, [Next]_vars PROVE PendingExact'
  OBVIOUS
<1>. USE NoFenceAssumption, NoObjectAssumption, ContextAssumption
    DEF TypeOK, fence_vars, signal_vars, build_vars, base_vars, Structure, Signalers, Building,
    Linked
<1>1. ASSUME NEW o \in Objects, NEW resv \in SUBSET Fences, NEW c \in Contexts, Create(o, resv, c)
      PROVE  PendingExact'
  <2>1. CASE Others(resv, c) = {}
    <3>1. \A p \in Objects : Outstanding(p)' = Outstanding(p)
      BY <1>1, <2>1 DEF Create, CreateOver, Others, Outstanding
    <3>. QED
      BY <1>1, <2>1, <3>1 DEF Create, CreateOver, Others, PendingExact
  <2>2. CASE Others(resv, c) # {}
    <3>1. \A p \in Objects :
            /\ p = o => Outstanding(p)' = Others(resv, c)
            /\ p # o => Outstanding(p)' = Outstanding(p)
      BY <1>1, <2>2 DEF Create, CreateOver, Others, Outstanding
    <3>3. /\ numPending'[o] = Cardinality(Others(resv, c)) /\ fences'[o] = Others(resv, c)
          /\ \A p \in Objects \ {o} : numPending'[p] = numPending[p] /\ fences'[p] = fences[p]
          /\ signaled' = signaled
      BY <1>1, <2>2 DEF Create, CreateOver
    <3>. SUFFICES ASSUME NEW p \in Objects
                 PROVE  /\ numPending'[p] = Cardinality(Outstanding(p)')
                        /\ fences'[p] \ Outstanding(p)' \subseteq signaled'
      BY DEF PendingExact
    <3>. QED
      BY <3>1, <3>3 DEF PendingExact
  <2>. QED
    BY <2>1, <2>2
<1>2. ASSUME NEW o \in Objects, NEW f \in Fences, NextComponent(o, f) PROVE PendingExact'
  <2>1. \A p \in Objects : Outstanding(p)' = Outstanding(p)
    BY <1>2 DEF NextComponent, Get, Outstanding
  <2>. QED
    BY <1>2, <2>1 DEF NextComponent, Get, PendingExact
<1>3. ASSUME NEW o \in Objects, AddCallback(o) PROVE PendingExact'
  <2>1. \A p \in Objects : Outstanding(p)' = Outstanding(p)
    BY <1>3 DEF AddCallback, ContextFree, Outstanding
  <2>. QED
    BY <1>3, <2>1 DEF AddCallback, ContextFree, PendingExact
<1>4. ASSUME NEW o \in Objects, AddFails(o) PROVE PendingExact'
  <2>1. \A p \in Objects :
          /\ p = o => Outstanding(p)' = Outstanding(o) \ {adding[o]}
          /\ p # o => Outstanding(p)' = Outstanding(p)
    BY <1>4 DEF AddFails, ContextFree, Put, Outstanding
  <2>3. adding[o] \in Outstanding(o)
    BY <1>4 DEF AddFails, Outstanding
  <2>4. numPending[o] - 1 = Cardinality(Outstanding(o) \ {adding[o]})
    BY <2>3, CountDown
  <2>5. /\ numPending'[o] = numPending[o] - 1 /\ fences' = fences
        /\ \A p \in Objects \ {o} : numPending'[p] = numPending[p]
        /\ signaled \subseteq signaled' /\ adding[o] \in signaled'
    BY <1>4 DEF AddFails
  <2>. SUFFICES ASSUME NEW p \in Objects
               PROVE  /\ numPending'[p] = Cardinality(Outstanding(p)')
                      /\ fences'[p] \ Outstanding(p)' \subseteq signaled'
    BY DEF PendingExact
  <2>6. CASE p = o
    <3>1. Outstanding(p)' = Outstanding(o) \ {adding[o]}
      BY <2>1, <2>6
    <3>. QED
      BY <3>1, <2>6, <2>4, <2>5 DEF PendingExact
  <2>7. CASE p # o
    <3>1. Outstanding(p)' = Outstanding(p)
      BY <2>1, <2>7
    <3>. QED
      BY <3>1, <2>7, <2>5 DEF PendingExact
  <2>. QED
    BY <2>6, <2>7
<1>5. ASSUME NEW o \in Objects, CreateDone(o) PROVE PendingExact'
  <2>1. \A p \in Objects : Outstanding(p)' = Outstanding(p)
    BY <1>5 DEF CreateDone, Outstanding
  <2>. QED
    BY <1>5, <2>1 DEF CreateDone, PendingExact
<1>6. ASSUME NEW o \in Objects, CreateFails(o) PROVE PendingExact'
  <2>1. \A p \in Objects : Outstanding(p)' = Outstanding(p)
    BY <1>6 DEF CreateFails, SignalBase, Put, Outstanding
  <2>. QED
    BY <1>6, <2>1 DEF CreateFails, SignalBase, Put, PendingExact
<1>7. ASSUME NEW f \in Fences, SignalFence(f) PROVE PendingExact'
  <2>1. \A p \in Objects : Outstanding(p)' = Outstanding(p)
    BY <1>7 DEF SignalFence, ContextFree, Outstanding
  <2>. QED
    BY <1>7, <2>1 DEF SignalFence, ContextFree, PendingExact
<1>8. ASSUME NEW c \in Contexts, NEW o \in Objects, RunCallback(c, o) PROVE PendingExact'
  <2>1. \A p \in Objects :
          /\ p = o => Outstanding(p)' = Outstanding(o) \ {signaling[c]}
          /\ p # o => Outstanding(p)' = Outstanding(p)
    BY <1>8 DEF RunCallback, Outstanding
  <2>3. signaling[c] \in Outstanding(o) /\ signaling[c] \in signaled
    BY <1>8 DEF RunCallback, Outstanding
  <2>4. numPending[o] - 1 = Cardinality(Outstanding(o) \ {signaling[c]})
    BY <2>3, CountDown
  <2>5. /\ numPending'[o] = numPending[o] - 1 /\ fences' = fences
        /\ \A p \in Objects \ {o} : numPending'[p] = numPending[p]
        /\ signaled' = signaled
    BY <1>8 DEF RunCallback
  <2>. SUFFICES ASSUME NEW p \in Objects
               PROVE  /\ numPending'[p] = Cardinality(Outstanding(p)')
                      /\ fences'[p] \ Outstanding(p)' \subseteq signaled'
    BY DEF PendingExact
  <2>6. CASE p = o
    <3>1. Outstanding(p)' = Outstanding(o) \ {signaling[c]}
      BY <2>1, <2>6
    <3>. QED
      BY <3>1, <2>6, <2>3, <2>4, <2>5 DEF PendingExact
  <2>7. CASE p # o
    <3>1. Outstanding(p)' = Outstanding(p)
      BY <2>1, <2>7
    <3>. QED
      BY <3>1, <2>7, <2>5 DEF PendingExact
  <2>. QED
    BY <2>6, <2>7
<1>9. ASSUME NEW c \in Contexts, CallbackSignals(c) PROVE PendingExact'
  <2>1. \A p \in Objects : Outstanding(p)' = Outstanding(p)
    BY <1>9 DEF CallbackSignals, SignalBase, BaseFree, Outstanding
  <2>. QED
    BY <1>9, <2>1 DEF CallbackSignals, SignalBase, BaseFree, PendingExact
<1>10. ASSUME NEW c \in Contexts, CallbackPuts(c) PROVE PendingExact'
  <2>1. \A p \in Objects : Outstanding(p)' = Outstanding(p)
    BY <1>10 DEF CallbackPuts, Put, Outstanding
  <2>. QED
    BY <1>10, <2>1 DEF CallbackPuts, Put, PendingExact
<1>11. ASSUME NEW c \in Contexts, SignalEnd(c) PROVE PendingExact'
  <2>1. \A p \in Objects : Outstanding(p)' = Outstanding(p)
    BY <1>11 DEF SignalEnd, Outstanding
  <2>. QED
    BY <1>11, <2>1 DEF SignalEnd, PendingExact
<1>12. ASSUME NEW o \in Objects, IsSignaled(o) PROVE PendingExact'
  <2>1. \A p \in Objects : Outstanding(p)' = Outstanding(p)
    BY <1>12 DEF IsSignaled, SignalBase, Outstanding
  <2>. QED
    BY <1>12, <2>1 DEF IsSignaled, SignalBase, PendingExact
<1>13. ASSUME NEW o \in Objects, ReleaseObject(o) PROVE PendingExact'
  <2>1. \A p \in Objects : Outstanding(p)' = Outstanding(p)
    BY <1>13 DEF ReleaseObject, Put, Outstanding
  <2>. QED
    BY <1>13, <2>1 DEF ReleaseObject, Put, PendingExact
<1>14. CASE UNCHANGED vars
  <2>1. \A p \in Objects : Outstanding(p)' = Outstanding(p)
    BY <1>14 DEF vars, Outstanding
  <2>. QED
    BY <1>14, <2>1 DEF vars, PendingExact
<1>. QED
  BY <1>1, <1>2, <1>3, <1>4, <1>5, <1>6, <1>7, <1>8, <1>9, <1>10, <1>11, <1>12, <1>13, <1>14
  DEF Next, Creation, Scheduler, Signaling

(* Only one party takes the count to 0, and nothing is left then.           *)
LEMMA FinishedStep == TypeOK /\ Structure /\ PendingExact /\ Finished /\ [Next]_vars => Finished'
<1>. SUFFICES ASSUME TypeOK, Structure, PendingExact, Finished, [Next]_vars PROVE Finished'
  OBVIOUS
<1>. USE NoFenceAssumption, NoObjectAssumption, ContextAssumption DEF TypeOK, fence_vars,
    signal_vars, build_vars, base_vars, Structure, Signalers, Building, Linked, Finished
<1>1. ASSUME NEW o \in Objects, NEW resv \in SUBSET Fences, NEW c \in Contexts, Create(o, resv, c)
      PROVE  Finished'
  <2>1. Outstanding(o) = {}
    BY <1>1 DEF Create, Outstanding
  <2>2. numPending[o] = 0
    BY <2>1, OutstandingFinite
  <2>. QED
    BY <1>1, <2>2 DEF Create, CreateOver, Others
<1>2. ASSUME NEW o \in Objects, NEW f \in Fences, NextComponent(o, f) PROVE Finished'
  <2>1. f \in Outstanding(o)
    BY <1>2 DEF NextComponent, Outstanding
  <2>2. numPending[o] # 0
    BY <2>1, CountDown
  <2>. QED
    BY <1>2, <2>2 DEF NextComponent, Get
<1>3. ASSUME NEW o \in Objects, AddCallback(o) PROVE Finished'
  BY <1>3 DEF AddCallback, ContextFree
<1>4. ASSUME NEW o \in Objects, AddFails(o) PROVE Finished'
  <2>1. adding[o] \in Outstanding(o)
    BY <1>4 DEF AddFails, Outstanding
  <2>2. numPending[o] # 0
    BY <2>1, CountDown
  <2>. QED
    BY <1>4, <2>2 DEF AddFails, ContextFree, Put
<1>5. ASSUME NEW o \in Objects, CreateDone(o) PROVE Finished'
  BY <1>5 DEF CreateDone
<1>6. ASSUME NEW o \in Objects, CreateFails(o) PROVE Finished'
  BY <1>6 DEF CreateFails, SignalBase, Put
<1>7. ASSUME NEW f \in Fences, SignalFence(f) PROVE Finished'
  BY <1>7 DEF SignalFence, ContextFree
<1>8. ASSUME NEW c \in Contexts, NEW o \in Objects, RunCallback(c, o) PROVE Finished'
  <2>1. signaling[c] \in Outstanding(o)
    BY <1>8 DEF RunCallback, Outstanding
  <2>2. numPending[o] # 0
    BY <2>1, CountDown
  <2>. QED
    BY <1>8, <2>2 DEF RunCallback
<1>9. ASSUME NEW c \in Contexts, CallbackSignals(c) PROVE Finished'
  BY <1>9 DEF CallbackSignals, SignalBase, BaseFree
<1>10. ASSUME NEW c \in Contexts, CallbackPuts(c) PROVE Finished'
  BY <1>10 DEF CallbackPuts, Put
<1>11. ASSUME NEW c \in Contexts, SignalEnd(c) PROVE Finished'
  BY <1>11 DEF SignalEnd
<1>12. ASSUME NEW o \in Objects, IsSignaled(o) PROVE Finished'
  BY <1>12 DEF IsSignaled, SignalBase
<1>13. ASSUME NEW o \in Objects, ReleaseObject(o) PROVE Finished'
  BY <1>13 DEF ReleaseObject, Put
<1>14. CASE UNCHANGED vars
  BY <1>14 DEF vars
<1>. QED
  BY <1>1, <1>2, <1>3, <1>4, <1>5, <1>6, <1>7, <1>8, <1>9, <1>10, <1>11, <1>12, <1>13, <1>14
  DEF Next, Creation, Scheduler, Signaling

(* The callback runs with the signal and not again.                         *)
LEMMA ToldOnceStep == TypeOK /\ Finished /\ ToldOnce /\ [Next]_vars => ToldOnce'
<1>. SUFFICES ASSUME TypeOK, Finished, ToldOnce, [Next]_vars PROVE ToldOnce'
  OBVIOUS
<1>. USE NoFenceAssumption, NoObjectAssumption, ContextAssumption
    DEF TypeOK, fence_vars, signal_vars, build_vars, base_vars, Finished, ToldOnce
<1>1. ASSUME NEW o \in Objects, NEW resv \in SUBSET Fences, NEW c \in Contexts, Create(o, resv, c)
      PROVE  ToldOnce'
  BY <1>1 DEF Create, CreateOver, Others
<1>2. ASSUME NEW o \in Objects, NEW f \in Fences, NextComponent(o, f) PROVE ToldOnce'
  BY <1>2 DEF NextComponent, Get
<1>3. ASSUME NEW o \in Objects, AddCallback(o) PROVE ToldOnce'
  BY <1>3 DEF AddCallback, ContextFree
<1>4. ASSUME NEW o \in Objects, AddFails(o) PROVE ToldOnce'
  BY <1>4 DEF AddFails, ContextFree, Put
<1>5. ASSUME NEW o \in Objects, CreateDone(o) PROVE ToldOnce'
  BY <1>5 DEF CreateDone
<1>6. ASSUME NEW o \in Objects, CreateFails(o) PROVE ToldOnce'
  BY <1>6 DEF CreateFails, SignalBase, Put
<1>7. ASSUME NEW f \in Fences, SignalFence(f) PROVE ToldOnce'
  BY <1>7 DEF SignalFence, ContextFree
<1>8. ASSUME NEW c \in Contexts, NEW o \in Objects, RunCallback(c, o) PROVE ToldOnce'
  BY <1>8 DEF RunCallback
<1>9. ASSUME NEW c \in Contexts, CallbackSignals(c) PROVE ToldOnce'
  BY <1>9 DEF CallbackSignals, SignalBase, BaseFree
<1>10. ASSUME NEW c \in Contexts, CallbackPuts(c) PROVE ToldOnce'
  BY <1>10 DEF CallbackPuts, Put
<1>11. ASSUME NEW c \in Contexts, SignalEnd(c) PROVE ToldOnce'
  BY <1>11 DEF SignalEnd
<1>12. ASSUME NEW o \in Objects, IsSignaled(o) PROVE ToldOnce'
  BY <1>12 DEF IsSignaled, SignalBase
<1>13. ASSUME NEW o \in Objects, ReleaseObject(o) PROVE ToldOnce'
  BY <1>13 DEF ReleaseObject, Put
<1>14. CASE UNCHANGED vars
  BY <1>14 DEF vars
<1>. QED
  BY <1>1, <1>2, <1>3, <1>4, <1>5, <1>6, <1>7, <1>8, <1>9, <1>10, <1>11, <1>12, <1>13, <1>14
  DEF Next, Creation, Scheduler, Signaling

(* The creation reference is held until it is put.                          *)
LEMMA CreatorsStep == TypeOK /\ Creators /\ [Next]_vars => Creators'
<1>. SUFFICES ASSUME TypeOK, Creators, [Next]_vars PROVE Creators'
  OBVIOUS
<1>. USE NoFenceAssumption, NoObjectAssumption, ContextAssumption
    DEF TypeOK, fence_vars, signal_vars, build_vars, base_vars, Creators
<1>1. ASSUME NEW o \in Objects, NEW resv \in SUBSET Fences, NEW c \in Contexts, Create(o, resv, c)
      PROVE  Creators'
  BY <1>1 DEF Create, CreateOver, Others
<1>2. ASSUME NEW o \in Objects, NEW f \in Fences, NextComponent(o, f) PROVE Creators'
  BY <1>2 DEF NextComponent, Get
<1>3. ASSUME NEW o \in Objects, AddCallback(o) PROVE Creators'
  BY <1>3 DEF AddCallback, ContextFree
<1>4. ASSUME NEW o \in Objects, AddFails(o) PROVE Creators'
  BY <1>4 DEF AddFails, ContextFree, Put
<1>5. ASSUME NEW o \in Objects, CreateDone(o) PROVE Creators'
  BY <1>5 DEF CreateDone
<1>6. ASSUME NEW o \in Objects, CreateFails(o) PROVE Creators'
  BY <1>6 DEF CreateFails, SignalBase, Put
<1>7. ASSUME NEW f \in Fences, SignalFence(f) PROVE Creators'
  BY <1>7 DEF SignalFence, ContextFree
<1>8. ASSUME NEW c \in Contexts, NEW o \in Objects, RunCallback(c, o) PROVE Creators'
  BY <1>8 DEF RunCallback
<1>9. ASSUME NEW c \in Contexts, CallbackSignals(c) PROVE Creators'
  BY <1>9 DEF CallbackSignals, SignalBase, BaseFree
<1>10. ASSUME NEW c \in Contexts, CallbackPuts(c) PROVE Creators'
  BY <1>10 DEF CallbackPuts, Put
<1>11. ASSUME NEW c \in Contexts, SignalEnd(c) PROVE Creators'
  BY <1>11 DEF SignalEnd
<1>12. ASSUME NEW o \in Objects, IsSignaled(o) PROVE Creators'
  BY <1>12 DEF IsSignaled, SignalBase
<1>13. ASSUME NEW o \in Objects, ReleaseObject(o) PROVE Creators'
  BY <1>13 DEF ReleaseObject, Put
<1>14. CASE UNCHANGED vars
  BY <1>14 DEF vars
<1>. QED
  BY <1>1, <1>2, <1>3, <1>4, <1>5, <1>6, <1>7, <1>8, <1>9, <1>10, <1>11, <1>12, <1>13, <1>14
  DEF Next, Creation, Scheduler, Signaling

(* The kref stays exact.                                                    *)
LEMMA RefsStep == TypeOK /\ Structure /\ Creators /\ RefsExact /\ [Next]_vars => RefsExact'
<1>. SUFFICES ASSUME TypeOK, Structure, Creators, RefsExact, [Next]_vars PROVE RefsExact'
  OBVIOUS
<1>. USE NoFenceAssumption, NoObjectAssumption, ContextAssumption DEF TypeOK, fence_vars,
    signal_vars, build_vars, base_vars, Structure, Signalers, Building, Linked, Creators
<1>0. \A p \in Objects : Cardinality(Callbacks(p)) \in Nat
  BY CallbacksFinite, FS_CardinalityType
<1>1. ASSUME NEW o \in Objects, NEW resv \in SUBSET Fences, NEW c \in Contexts, Create(o, resv, c)
      PROVE  RefsExact'
  <2>1. \A p \in Objects : Callbacks(p)' = Callbacks(p)
    BY <1>1 DEF Create, CreateOver, Others, Callbacks
  <2>2. Callbacks(o) = {}
    BY <1>1 DEF Create, Callbacks
  <2>3. Cardinality(Callbacks(o)) = 0
    BY <2>2, FS_EmptySet
  <2>4. CASE Others(resv, c) = {}
    BY <1>1, <2>1, <2>4, <1>0 DEF Create, RefsExact
  <2>5. CASE Others(resv, c) # {}
    <3>1. CreateOver(o, Others(resv, c), Cardinality(Others(resv, c)))
      BY <1>1, <2>5 DEF Create
    <3>2. pc[o] # "add" /\ pc[o] = "unborn"
      BY <1>1 DEF Create
    <3>. QED
      BY <2>1, <2>3, <3>1, <3>2, <1>0 DEF CreateOver, RefsExact
  <2>. QED
    BY <2>4, <2>5
<1>2. ASSUME NEW o \in Objects, NEW f \in Fences, NextComponent(o, f) PROVE RefsExact'
  <2>1. \A p \in Objects : Callbacks(p)' = Callbacks(p)
    BY <1>2 DEF NextComponent, Get, Callbacks
  <2>. QED
    BY <1>2, <2>1, <1>0 DEF NextComponent, Get, RefsExact
<1>3. ASSUME NEW o \in Objects, AddCallback(o) PROVE RefsExact'
  <2>1. \A p \in Objects :
          /\ p = o => Callbacks(p)' = Callbacks(o) \cup {adding[o]}
          /\ p # o => Callbacks(p)' = Callbacks(p)
    BY <1>3 DEF AddCallback, ContextFree, Callbacks
  <2>2. adding[o] \notin Callbacks(o)
    BY <1>3 DEF AddCallback, ContextFree, Callbacks
  <2>3. Cardinality(Callbacks(o) \cup {adding[o]}) = Cardinality(Callbacks(o)) + 1
    BY <2>2, CallbacksFinite, FS_AddElement
  <2>. SUFFICES ASSUME NEW p \in Objects
               PROVE  ref'[p] = (IF p \in held' THEN 1 ELSE 0)
                                + (IF pc'[p] = "add" THEN 1 ELSE 0)
                                + Cardinality(Callbacks(p)')
    BY DEF RefsExact
  <2>4. CASE p = o
    <3>1. Callbacks(p)' = Callbacks(o) \cup {adding[o]}
      BY <2>1, <2>4
    <3>. QED
      BY <3>1, <1>3, <2>3, <2>4, <1>0 DEF AddCallback, RefsExact
  <2>5. CASE p # o
    <3>1. Callbacks(p)' = Callbacks(p)
      BY <2>1, <2>5
    <3>. QED
      BY <3>1, <1>3, <2>5, <1>0 DEF AddCallback, RefsExact
  <2>. QED
    BY <2>4, <2>5
<1>4. ASSUME NEW o \in Objects, AddFails(o) PROVE RefsExact'
  <2>1. \A p \in Objects : Callbacks(p)' = Callbacks(p)
    BY <1>4 DEF AddFails, ContextFree, Put, Callbacks
  <2>. QED
    BY <1>4, <2>1, <1>0 DEF AddFails, ContextFree, Put, RefsExact
<1>5. ASSUME NEW o \in Objects, CreateDone(o) PROVE RefsExact'
  <2>1. \A p \in Objects : Callbacks(p)' = Callbacks(p)
    BY <1>5 DEF CreateDone, Callbacks
  <2>. QED
    BY <1>5, <2>1, <1>0 DEF CreateDone, RefsExact
<1>6. ASSUME NEW o \in Objects, CreateFails(o) PROVE RefsExact'
  <2>1. \A p \in Objects : Callbacks(p)' = Callbacks(p)
    BY <1>6 DEF CreateFails, SignalBase, Put, Callbacks
  <2>. QED
    BY <1>6, <2>1, <1>0 DEF CreateFails, SignalBase, Put, RefsExact
<1>7. ASSUME NEW f \in Fences, SignalFence(f) PROVE RefsExact'
  <2>1. \A p \in Objects : Callbacks(p)' = Callbacks(p)
    BY <1>7 DEF SignalFence, ContextFree, Callbacks
  <2>. QED
    BY <1>7, <2>1, <1>0 DEF SignalFence, ContextFree, RefsExact
<1>8. ASSUME NEW c \in Contexts, NEW o \in Objects, RunCallback(c, o) PROVE RefsExact'
  <2>1. \A p \in Objects : Callbacks(p)' = Callbacks(p)
    BY <1>8 DEF RunCallback, Callbacks
  <2>. QED
    BY <1>8, <2>1, <1>0 DEF RunCallback, RefsExact
<1>9. ASSUME NEW c \in Contexts, CallbackSignals(c) PROVE RefsExact'
  <2>1. \A p \in Objects : Callbacks(p)' = Callbacks(p)
    BY <1>9 DEF CallbackSignals, SignalBase, BaseFree, Callbacks
  <2>. QED
    BY <1>9, <2>1, <1>0 DEF CallbackSignals, SignalBase, BaseFree, RefsExact
<1>10. ASSUME NEW c \in Contexts, CallbackPuts(c) PROVE RefsExact'
  <2>0. PICK o \in Objects : o = running[c]
    BY <1>10 DEF CallbackPuts
  <2>1. \A p \in Objects :
          /\ p = o => Callbacks(p)' = Callbacks(o) \ {signaling[c]}
          /\ p # o => Callbacks(p)' = Callbacks(p)
    BY <1>10, <2>0 DEF CallbackPuts, Put, Callbacks
  <2>2. signaling[c] \in Callbacks(o) /\ IsFiniteSet(Callbacks(o))
    BY <1>10, <2>0, CallbacksFinite DEF CallbackPuts, Callbacks
  <2>3. Cardinality(Callbacks(o) \ {signaling[c]}) = Cardinality(Callbacks(o)) - 1
    BY <2>2, CardinalityLess
  <2>. SUFFICES ASSUME NEW p \in Objects
               PROVE  ref'[p] = (IF p \in held' THEN 1 ELSE 0)
                                + (IF pc'[p] = "add" THEN 1 ELSE 0)
                                + Cardinality(Callbacks(p)')
    BY DEF RefsExact
  <2>4. CASE p = o
    <3>1. Callbacks(p)' = Callbacks(o) \ {signaling[c]}
      BY <2>1, <2>4
    <3>. QED
      BY <3>1, <1>10, <2>0, <2>3, <2>4, <1>0 DEF CallbackPuts, Put, RefsExact
  <2>5. CASE p # o
    <3>1. Callbacks(p)' = Callbacks(p)
      BY <2>1, <2>5
    <3>. QED
      BY <3>1, <1>10, <2>0, <2>5, <1>0 DEF CallbackPuts, Put, RefsExact
  <2>. QED
    BY <2>4, <2>5
<1>11. ASSUME NEW c \in Contexts, SignalEnd(c) PROVE RefsExact'
  <2>1. \A p \in Objects : Callbacks(p)' = Callbacks(p)
    BY <1>11 DEF SignalEnd, Callbacks
  <2>. QED
    BY <1>11, <2>1, <1>0 DEF SignalEnd, RefsExact
<1>12. ASSUME NEW o \in Objects, IsSignaled(o) PROVE RefsExact'
  <2>1. \A p \in Objects : Callbacks(p)' = Callbacks(p)
    BY <1>12 DEF IsSignaled, SignalBase, Callbacks
  <2>. QED
    BY <1>12, <2>1, <1>0 DEF IsSignaled, SignalBase, RefsExact
<1>13. ASSUME NEW o \in Objects, ReleaseObject(o) PROVE RefsExact'
  <2>1. \A p \in Objects : Callbacks(p)' = Callbacks(p)
    BY <1>13 DEF ReleaseObject, Put, Callbacks
  <2>. QED
    BY <1>13, <2>1, <1>0 DEF ReleaseObject, Put, RefsExact
<1>14. CASE UNCHANGED vars
  BY <1>14 DEF vars, RefsExact, Callbacks
<1>. QED
  BY <1>1, <1>2, <1>3, <1>4, <1>5, <1>6, <1>7, <1>8, <1>9, <1>10, <1>11, <1>12, <1>13, <1>14
  DEF Next, Creation, Scheduler, Signaling

-------------------------------------------------------------------------------
(* The inductive invariant holds in the initial states.                     *)
LEMMA InitIInv == Init => IInv
<1>. SUFFICES ASSUME Init PROVE IInv
  OBVIOUS
<1>. USE NoFenceAssumption, NoObjectAssumption, ContextAssumption DEF Init
<1>1. TypeOK /\ Structure /\ Finished /\ ToldOnce /\ Creators
  BY DEF TypeOK, Structure, Signalers, Building, Linked, Finished, ToldOnce, Creators
<1>2. \A o \in Objects : Outstanding(o) = {} /\ Callbacks(o) = {}
  BY DEF Outstanding, Callbacks
<1>3. PendingExact
  BY <1>2, FS_EmptySet DEF PendingExact
<1>4. \A o \in Objects : ref[o] = 0 /\ pc[o] # "add" /\ o \notin held
  OBVIOUS
<1>5. \A o \in Objects : Cardinality(Callbacks(o)) = 0
  BY <1>2, FS_EmptySet
<1>6. RefsExact
  BY <1>4, <1>5 DEF RefsExact
<1>. QED
  BY <1>1, <1>3, <1>6 DEF IInv

(* Every step preserves it.                                                 *)
LEMMA StepIInv == IInv /\ [Next]_vars => IInv'
<1>. SUFFICES ASSUME IInv, [Next]_vars PROVE IInv'
  OBVIOUS
<1>1. TypeOK'
  BY TypeStep DEF IInv
<1>2. Signalers' /\ Building' /\ Linked'
  BY SignalersStep, BuildingStep, LinkedStep DEF IInv, Structure
<1>3. PendingExact' /\ Finished'
  BY PendingStep, FinishedStep DEF IInv
<1>4. ToldOnce' /\ Creators' /\ RefsExact'
  BY ToldOnceStep, CreatorsStep, RefsStep DEF IInv
<1>. QED
  BY <1>1, <1>2, <1>3, <1>4 DEF IInv, Structure

(* It is an invariant.                                                      *)
LEMMA InvariantHolds == Spec => []IInv
<1>. QED
  BY InitIInv, StepIInv, PTL DEF Spec

(* The invariant says what the properties promise.                          *)
LEMMA IInvSafe == IInv => ToldOnceWhenDone /\ NoLockCycle
<1>. SUFFICES ASSUME IInv PROVE ToldOnceWhenDone /\ NoLockCycle
  OBVIOUS
<1>. USE DEF IInv
<1>1. \A o \in Objects : numPending[o] = 0 => Outstanding(o) = {}
  BY OutstandingFinite
<1>2. \A o \in Objects : Outstanding(o) = {} => fences[o] \subseteq signaled
  BY DEF PendingExact
<1>3. ToldOnceWhenDone
  BY <1>1, <1>2 DEF ToldOnceWhenDone, Told, Finished, ToldOnce, TypeOK
<1>4. ASSUME NEW c \in Contexts, spc[c] = "signal"
      PROVE  \/ BaseFree(running[c])
             \/ pc[running[c]] = "enable" /\ rest[running[c]] = {}
  <2>1. running[c] \in Objects /\ pc[running[c]] # "failed" /\ Outstanding(running[c]) = {}
    BY <1>1, <1>4, NoObjectAssumption DEF TypeOK, Structure, Signalers, Finished
  <2>2. pc[running[c]] # "add" /\ rest[running[c]] = {}
    BY <2>1 DEF Outstanding, TypeOK, Structure, Building
  <2>. QED
    BY <2>1, <2>2 DEF BaseFree
<1>. QED
  BY <1>3, <1>4 DEF NoLockCycle

(* Ranges; in particular num_pending never passes 0.                        *)
THEOREM TypeCorrect == Spec => []TypeOK
<1>1. IInv => TypeOK
  BY DEF IInv
<1>. QED
  BY <1>1, InvariantHolds, PTL

(* The scheduler is told once, and only when every component is signaled.   *)
THEOREM ToldCorrectly == Spec => []ToldOnceWhenDone
<1>. QED
  BY IInvSafe, InvariantHolds, PTL

(* The kref of every object counts exactly the parties that will put it.    *)
THEOREM ReferencesExact == Spec => []RefsExact
<1>1. IInv => RefsExact
  BY DEF IInv
<1>. QED
  BY <1>1, InvariantHolds, PTL

(* Creation and signaling take their locks in opposite orders, and yet      *)
(* never wait for each other in a circle.                                   *)
THEOREM DeadlockFree == Spec => []NoLockCycle
<1>. QED
  BY IInvSafe, InvariantHolds, PTL

-------------------------------------------------------------------------------
(* Why the scheduler is told in the end, without fairness: there is always  *)
(* a thread on its way to tell it.                                          *)

(* An object that was returned has the core's callback linked until it is   *)
(* done, and the callback has run when it is.                               *)
LinkedUntilDone ==
  \A o \in Objects :
    /\ o \in done => pc[o] \in {"live", "null"}
    /\ pc[o] = "live" => IF o \in done THEN calls[o] > 0 ELSE o \in linked

(* Whoever took the count of an object to 0 has yet to signal it, or is its *)
(* creator, whose enable_signaling fails.                                   *)
LastOneSignals ==
  \A o \in Objects :
    pc[o] \in {"enable", "live"} /\ numPending[o] = 0 /\ o \notin done =>
      \E c \in Contexts : running[c] = o /\ spc[c] = "signal"

(* The signaler of a component has the callback still to run, or the object *)
(* to signal.                                                               *)
WillTell(c, o) ==
  /\ signaling[c] # NoFence
  /\ \/ o \in cbList[signaling[c]]
     \/ running[c] = o /\ spc[c] = "signal"

SomebodyTells ==
  \A o \in Objects :
    pc[o] # "unborn" /\ fences[o] \subseteq signaled /\ ~Told(o) =>
      \/ pc[o] \in {"enable", "add", "failed"}
      \/ \E c \in Contexts : WillTell(c, o)

(* The callback of the core is linked before the object can be done.        *)
LEMMA LinkedUntilDoneStep ==
  TypeOK /\ Finished /\ LinkedUntilDone /\ [Next]_vars => LinkedUntilDone'
<1>. SUFFICES ASSUME TypeOK, Finished, LinkedUntilDone, [Next]_vars PROVE LinkedUntilDone'
  OBVIOUS
<1>. USE NoFenceAssumption, NoObjectAssumption, ContextAssumption
    DEF TypeOK, fence_vars, signal_vars, build_vars, base_vars, Finished, LinkedUntilDone
<1>1. ASSUME NEW o \in Objects, NEW resv \in SUBSET Fences, NEW c \in Contexts, Create(o, resv, c)
      PROVE  LinkedUntilDone'
  BY <1>1 DEF Create, CreateOver, Others
<1>2. ASSUME NEW o \in Objects, NEW f \in Fences, NextComponent(o, f) PROVE LinkedUntilDone'
  BY <1>2 DEF NextComponent, Get
<1>3. ASSUME NEW o \in Objects, AddCallback(o) PROVE LinkedUntilDone'
  BY <1>3 DEF AddCallback
<1>4. ASSUME NEW o \in Objects, AddFails(o) PROVE LinkedUntilDone'
  BY <1>4 DEF AddFails, Put
<1>5. ASSUME NEW o \in Objects, CreateDone(o) PROVE LinkedUntilDone'
  BY <1>5 DEF CreateDone
<1>6. ASSUME NEW o \in Objects, CreateFails(o) PROVE LinkedUntilDone'
  BY <1>6 DEF CreateFails, SignalBase, Put
<1>7. ASSUME NEW f \in Fences, SignalFence(f) PROVE LinkedUntilDone'
  BY <1>7 DEF SignalFence
<1>8. ASSUME NEW c \in Contexts, NEW o \in Objects, RunCallback(c, o) PROVE LinkedUntilDone'
  BY <1>8 DEF RunCallback
<1>9. ASSUME NEW c \in Contexts, CallbackSignals(c) PROVE LinkedUntilDone'
  BY <1>9 DEF CallbackSignals, SignalBase, BaseFree
<1>10. ASSUME NEW c \in Contexts, CallbackPuts(c) PROVE LinkedUntilDone'
  BY <1>10 DEF CallbackPuts, Put
<1>11. ASSUME NEW c \in Contexts, SignalEnd(c) PROVE LinkedUntilDone'
  BY <1>11 DEF SignalEnd
<1>12. ASSUME NEW o \in Objects, IsSignaled(o) PROVE LinkedUntilDone'
  BY <1>12 DEF IsSignaled, SignalBase
<1>13. ASSUME NEW o \in Objects, ReleaseObject(o) PROVE LinkedUntilDone'
  BY <1>13 DEF ReleaseObject, Put
<1>14. CASE UNCHANGED vars
  BY <1>14 DEF vars
<1>. QED
  BY <1>1, <1>2, <1>3, <1>4, <1>5, <1>6, <1>7, <1>8, <1>9, <1>10, <1>11, <1>12, <1>13, <1>14
  DEF Next, Creation, Scheduler, Signaling

(* The count reaches 0 in the hands of one party.                           *)
LEMMA LastOneStep ==
  TypeOK /\ Structure /\ PendingExact /\ LastOneSignals /\ [Next]_vars => LastOneSignals'
<1>. SUFFICES ASSUME TypeOK, Structure, PendingExact, LastOneSignals, [Next]_vars
              PROVE  LastOneSignals'
  OBVIOUS
<1>. USE NoFenceAssumption, NoObjectAssumption, ContextAssumption
    DEF TypeOK, fence_vars, signal_vars, build_vars, base_vars, Structure, Signalers,
    LastOneSignals
<1>1. ASSUME NEW o \in Objects, NEW resv \in SUBSET Fences, NEW c \in Contexts, Create(o, resv, c)
      PROVE  LastOneSignals'
  <2>1. CASE Others(resv, c) = {}
    BY <1>1, <2>1 DEF Create
  <2>2. CASE Others(resv, c) # {}
    <3>1. IsFiniteSet(Others(resv, c))
      BY FencesAssumption, FS_Subset DEF Others
    <3>2. Cardinality(Others(resv, c)) # 0
      BY <2>2, <3>1, FS_EmptySet
    <3>. QED
      BY <1>1, <2>2, <3>2 DEF Create, CreateOver
  <2>. QED
    BY <2>1, <2>2
<1>2. ASSUME NEW o \in Objects, NEW f \in Fences, NextComponent(o, f) PROVE LastOneSignals'
  BY <1>2 DEF NextComponent, Get
<1>3. ASSUME NEW o \in Objects, AddCallback(o) PROVE LastOneSignals'
  <2>1. adding[o] \in Outstanding(o)
    BY <1>3 DEF AddCallback, Building, Outstanding
  <2>2. numPending[o] # 0
    BY <2>1, CountDown
  <2>. QED
    BY <1>3, <2>2 DEF AddCallback
<1>4. ASSUME NEW o \in Objects, AddFails(o) PROVE LastOneSignals'
  BY <1>4 DEF AddFails, Put
<1>5. ASSUME NEW o \in Objects, CreateDone(o) PROVE LastOneSignals'
  BY <1>5 DEF CreateDone
<1>6. ASSUME NEW o \in Objects, CreateFails(o) PROVE LastOneSignals'
  BY <1>6 DEF CreateFails, SignalBase, Put
<1>7. ASSUME NEW f \in Fences, SignalFence(f) PROVE LastOneSignals'
  BY <1>7 DEF SignalFence
<1>8. ASSUME NEW c \in Contexts, NEW o \in Objects, RunCallback(c, o) PROVE LastOneSignals'
  BY <1>8 DEF RunCallback
<1>9. ASSUME NEW c \in Contexts, CallbackSignals(c) PROVE LastOneSignals'
  BY <1>9 DEF CallbackSignals, SignalBase, BaseFree
<1>10. ASSUME NEW c \in Contexts, CallbackPuts(c) PROVE LastOneSignals'
  BY <1>10 DEF CallbackPuts, Put
<1>11. ASSUME NEW c \in Contexts, SignalEnd(c) PROVE LastOneSignals'
  BY <1>11 DEF SignalEnd
<1>12. ASSUME NEW o \in Objects, IsSignaled(o) PROVE LastOneSignals'
  BY <1>12 DEF IsSignaled, SignalBase
<1>13. ASSUME NEW o \in Objects, ReleaseObject(o) PROVE LastOneSignals'
  BY <1>13 DEF ReleaseObject, Put
<1>14. CASE UNCHANGED vars
  BY <1>14 DEF vars
<1>. QED
  BY <1>1, <1>2, <1>3, <1>4, <1>5, <1>6, <1>7, <1>8, <1>9, <1>10, <1>11, <1>12, <1>13, <1>14
  DEF Next, Creation, Scheduler, Signaling

LEMMA TellersAre == IInv /\ LinkedUntilDone /\ LastOneSignals => SomebodyTells
<1>. SUFFICES ASSUME IInv, LinkedUntilDone, LastOneSignals, NEW o \in Objects,
                     pc[o] # "unborn", fences[o] \subseteq signaled, ~Told(o),
                     pc[o] \notin {"enable", "add", "failed"}
              PROVE  \E c \in Contexts : WillTell(c, o)
  BY DEF SomebodyTells
<1>. USE DEF IInv, Structure
<1>1. pc[o] = "live" /\ o \notin done
  BY DEF TypeOK, Told, LinkedUntilDone
<1>2. CASE numPending[o] = 0
  <2>1. PICK c \in Contexts : running[c] = o /\ spc[c] = "signal"
    BY <1>1, <1>2 DEF LastOneSignals
  <2>2. WillTell(c, o)
    BY <2>1 DEF WillTell, Signalers
  <2>. QED
    BY <2>2
<1>3. CASE numPending[o] # 0
  <2>1. PICK f \in Fences : o \in cbList[f]
    <3>1. Outstanding(o) # {}
      BY <1>3, OutstandingFinite
    <3>2. rest[o] = {}
      BY <1>1 DEF Building
    <3>. QED
      BY <1>1, <3>1, <3>2 DEF Outstanding
  <2>2. signaling[ContextOf[f]] = f /\ ContextOf[f] \in Contexts
    BY <2>1, ContextAssumption DEF Linked
  <2>3. WillTell(ContextOf[f], o)
    BY <2>1, <2>2, NoFenceAssumption DEF WillTell
  <2>. QED
    BY <2>2, <2>3
<1>. QED
  BY <1>2, <1>3

(* No wakeup is lost (zx_dma_sync_object_create_cb and _fence_cb_func): once*)
(* every component of an object is signaled, its scheduler knows, or the    *)
(* creator is still at work, or a signaler has the object on the list it is *)
(* running or is about to signal it.                                        *)
THEOREM NoWakeupIsLost == Spec => []SomebodyTells
<1>. DEFINE I == IInv /\ LinkedUntilDone /\ LastOneSignals
<1>1. Init => I
  <2>1. Init => LinkedUntilDone /\ LastOneSignals
    BY DEF Init, LinkedUntilDone, LastOneSignals
  <2>. QED
    BY <2>1, InitIInv
<1>2. I /\ [Next]_vars => I'
  BY StepIInv, LinkedUntilDoneStep, LastOneStep DEF IInv
<1>3. I => SomebodyTells
  BY TellersAre
<1>. QED
  BY <1>1, <1>2, <1>3, PTL DEF Spec

=============================================================================
