--------------------------- MODULE DmaFenceProofs ---------------------------
(***************************************************************************)
(* Proofs about DmaFence, for any number of fences, waiters and engines.   *)
(*                                                                         *)
(* The safety properties are not inductive one by one.  IInv adds what     *)
(* ties the control state to the data: which lists can be non-empty where  *)
(* the thread is, who holds driver->lock, that a linked fence was armed,   *)
(* that two callers inside enable_signaling hold two different contexts,   *)
(* and that a fence is live exactly while it is referenced.                *)
(***************************************************************************)
EXTENDS DmaFence, FiniteSetTheorems, TLAPS

(* Control and data of the thread and of the waiters agree.                 *)
Structure ==
  /\ (cur # NoFence) <=> tpc \in {"signal", "put"}
  /\ cur # NoFence => cur \in back
  /\ tpc = "put" => cur \in signaled
  /\ tpc \notin {"scan", "signal", "put"} => todo = {}
  /\ tpc \notin {"scan", "signal", "put", "giveback"} => kept = {}
  /\ \A w \in Waiters : lock = w <=> wpc[w] = "link"
  /\ \A w \in Waiters : wf[w] = NoFence <=> wpc[w] = "idle"

(* Who has been armed.                                                      *)
Armed ==
  /\ Listed \subseteq enabled
  /\ \A w \in Waiters : Arming(w) => wf[w] \in enabled \ signaled
  /\ \A v, w \in Waiters :
       Arming(v) /\ Arming(w) /\ EngineOf[wf[v]] = EngineOf[wf[w]] => v = w

(* A fence is live exactly while somebody holds a reference to it.          *)
LiveIsReferenced == \A f \in Fences : life[f] = "live" <=> ref[f] > 0

Control == Structure /\ Armed /\ LinkedOnce
IInv == /\ TypeOK /\ Control /\ SignaledOnlyBack /\ ArmedIsTracked /\ WakeupPending
        /\ RefsAccounted /\ LiveIsReferenced

-------------------------------------------------------------------------------
(* Every step keeps every variable in its range.                            *)
LEMMA TypeStep == TypeOK /\ Structure /\ [Next]_vars => TypeOK'
<1>. SUFFICES ASSUME TypeOK, Structure, [Next]_vars PROVE TypeOK'
  OBVIOUS
<1>. USE FreezesAssumption DEF TypeOK, WaiterPcs, ThreadPcs, core_vars, list_vars,
       waiter_vars, pm_vars
<1>1. ASSUME NEW f \in Fences, CreateFence(f) PROVE TypeOK'
  BY <1>1 DEF CreateFence
<1>2. ASSUME NEW f \in Fences, AttachBo(f) PROVE TypeOK'
  BY <1>2 DEF AttachBo, Get, Put
<1>3. ASSUME NEW f \in Fences, DetachBo(f) PROVE TypeOK'
  BY <1>3 DEF DetachBo, Get, Put
<1>4. ASSUME NEW f \in Fences, UpdateValue(f) PROVE TypeOK'
  BY <1>4 DEF UpdateValue
<1>5. ASSUME NEW f \in Fences, ReleaseFence(f) PROVE TypeOK'
  BY <1>5 DEF ReleaseFence, Get, Put
<1>6. ASSUME NEW f \in Fences, EngineAdvance(f) PROVE TypeOK'
  BY <1>6 DEF EngineAdvance
<1>7. ASSUME PostEvent PROVE TypeOK'
  BY <1>7 DEF PostEvent
<1>8. ASSUME NEW w \in Waiters, NEW f \in Fences, WaitStart(w, f) PROVE TypeOK'
  BY <1>8 DEF WaitStart, Get, Put
<1>9. ASSUME NEW w \in Waiters, Arm(w) PROVE TypeOK'
  BY <1>9 DEF Arm, Structure
<1>10. ASSUME NEW w \in Waiters, ArmRecheck(w) PROVE TypeOK'
  BY <1>10 DEF ArmRecheck, Structure
<1>11. ASSUME NEW w \in Waiters, ArmLink(w) PROVE TypeOK'
  BY <1>11 DEF ArmLink, Structure, Get
<1>12. ASSUME NEW w \in Waiters, WaitEnd(w) PROVE TypeOK'
  BY <1>12 DEF WaitEnd, Structure, Put
<1>13. ASSUME NEW f \in Fences, PollSignaled(f) PROVE TypeOK'
  BY <1>13 DEF PollSignaled
<1>14. ASSUME ThreadWake PROVE TypeOK'
  BY <1>14 DEF ThreadWake
<1>15. ASSUME ThreadSplice PROVE TypeOK'
  BY <1>15 DEF ThreadSplice
<1>16. ASSUME NEW f \in Fences, ThreadScan(f) PROVE TypeOK'
  BY <1>16 DEF ThreadScan
<1>17. ASSUME ThreadSignal PROVE TypeOK'
  BY <1>17 DEF ThreadSignal, Structure
<1>18. ASSUME ThreadPut PROVE TypeOK'
  BY <1>18 DEF ThreadPut, Structure, Put
<1>19. ASSUME ThreadScanEnd PROVE TypeOK'
  BY <1>19 DEF ThreadScanEnd
<1>20. ASSUME ThreadGiveBack PROVE TypeOK'
  BY <1>20 DEF ThreadGiveBack
<1>21. ASSUME ThreadTryFreeze PROVE TypeOK'
  BY <1>21 DEF ThreadTryFreeze
<1>22. ASSUME ThreadThaw PROVE TypeOK'
  BY <1>22 DEF ThreadThaw
<1>23. ASSUME PmFreeze PROVE TypeOK'
  BY <1>23 DEF PmFreeze
<1>24. ASSUME PmThaw PROVE TypeOK'
  BY <1>24 DEF PmThaw
<1>25. CASE UNCHANGED vars
  BY <1>25 DEF vars
<1>. QED
  BY <1>1, <1>2, <1>3, <1>4, <1>5, <1>6, <1>7, <1>8, <1>9, <1>10, <1>11, <1>12, <1>13, <1>14,
     <1>15, <1>16, <1>17, <1>18, <1>19, <1>20, <1>21, <1>22, <1>23, <1>24, <1>25
  DEF Next, Scheduler, Waiting, ArmStep, EventThread, Pm

(* Control and data stay in agreement.                                      *)
LEMMA StructureStep == TypeOK /\ Structure /\ [Next]_vars => Structure'
<1>. SUFFICES ASSUME TypeOK, Structure, [Next]_vars PROVE Structure'
  OBVIOUS
<1>. USE NoFenceAssumption, NobodyAssumption, FreezesAssumption
       DEF TypeOK, WaiterPcs, ThreadPcs, core_vars, list_vars,
       waiter_vars, pm_vars, Structure
<1>1. ASSUME NEW f \in Fences, CreateFence(f) PROVE Structure'
  BY <1>1 DEF CreateFence
<1>2. ASSUME NEW f \in Fences, AttachBo(f) PROVE Structure'
  BY <1>2 DEF AttachBo
<1>3. ASSUME NEW f \in Fences, DetachBo(f) PROVE Structure'
  BY <1>3 DEF DetachBo
<1>4. ASSUME NEW f \in Fences, UpdateValue(f) PROVE Structure'
  BY <1>4 DEF UpdateValue
<1>5. ASSUME NEW f \in Fences, ReleaseFence(f) PROVE Structure'
  BY <1>5 DEF ReleaseFence
<1>6. ASSUME NEW f \in Fences, EngineAdvance(f) PROVE Structure'
  BY <1>6 DEF EngineAdvance
<1>7. ASSUME PostEvent PROVE Structure'
  BY <1>7 DEF PostEvent
<1>8. ASSUME NEW w \in Waiters, NEW f \in Fences, WaitStart(w, f) PROVE Structure'
  BY <1>8 DEF WaitStart
<1>9. ASSUME NEW w \in Waiters, Arm(w) PROVE Structure'
  BY <1>9 DEF Arm
<1>10. ASSUME NEW w \in Waiters, ArmRecheck(w) PROVE Structure'
  BY <1>10 DEF ArmRecheck
<1>11. ASSUME NEW w \in Waiters, ArmLink(w) PROVE Structure'
  BY <1>11 DEF ArmLink
<1>12. ASSUME NEW w \in Waiters, WaitEnd(w) PROVE Structure'
  BY <1>12 DEF WaitEnd
<1>13. ASSUME NEW f \in Fences, PollSignaled(f) PROVE Structure'
  BY <1>13 DEF PollSignaled
<1>14. ASSUME ThreadWake PROVE Structure'
  BY <1>14 DEF ThreadWake
<1>15. ASSUME ThreadSplice PROVE Structure'
  BY <1>15 DEF ThreadSplice
<1>16. ASSUME NEW f \in Fences, ThreadScan(f) PROVE Structure'
  BY <1>16 DEF ThreadScan
<1>17. ASSUME ThreadSignal PROVE Structure'
  BY <1>17 DEF ThreadSignal
<1>18. ASSUME ThreadPut PROVE Structure'
  BY <1>18 DEF ThreadPut
<1>19. ASSUME ThreadScanEnd PROVE Structure'
  BY <1>19 DEF ThreadScanEnd
<1>20. ASSUME ThreadGiveBack PROVE Structure'
  BY <1>20 DEF ThreadGiveBack
<1>21. ASSUME ThreadTryFreeze PROVE Structure'
  BY <1>21 DEF ThreadTryFreeze
<1>22. ASSUME ThreadThaw PROVE Structure'
  BY <1>22 DEF ThreadThaw
<1>23. ASSUME PmFreeze PROVE Structure'
  BY <1>23 DEF PmFreeze
<1>24. ASSUME PmThaw PROVE Structure'
  BY <1>24 DEF PmThaw
<1>25. CASE UNCHANGED vars
  BY <1>25 DEF vars
<1>. QED
  BY <1>1, <1>2, <1>3, <1>4, <1>5, <1>6, <1>7, <1>8, <1>9, <1>10, <1>11, <1>12, <1>13, <1>14,
     <1>15, <1>16, <1>17, <1>18, <1>19, <1>20, <1>21, <1>22, <1>23, <1>24, <1>25
  DEF Next, Scheduler, Waiting, ArmStep, EventThread, Pm

(* Arming stays exclusive, and lists stay disjoint and armed.               *)
LEMMA ArmedStep ==
  TypeOK /\ Structure /\ Armed /\ LinkedOnce /\ [Next]_vars => Armed' /\ LinkedOnce'
<1>. SUFFICES ASSUME TypeOK, Structure, Armed, LinkedOnce, [Next]_vars
              PROVE Armed' /\ LinkedOnce'
  OBVIOUS
<1>. USE NoFenceAssumption, EngineAssumption
       DEF TypeOK, WaiterPcs, ThreadPcs, core_vars, list_vars,
       waiter_vars, pm_vars, Structure, Armed, LinkedOnce, Listed, Arming
<1>1. ASSUME NEW f \in Fences, CreateFence(f) PROVE Armed' /\ LinkedOnce'
  BY <1>1 DEF CreateFence
<1>2. ASSUME NEW f \in Fences, AttachBo(f) PROVE Armed' /\ LinkedOnce'
  BY <1>2 DEF AttachBo
<1>3. ASSUME NEW f \in Fences, DetachBo(f) PROVE Armed' /\ LinkedOnce'
  BY <1>3 DEF DetachBo
<1>4. ASSUME NEW f \in Fences, UpdateValue(f) PROVE Armed' /\ LinkedOnce'
  BY <1>4 DEF UpdateValue
<1>5. ASSUME NEW f \in Fences, ReleaseFence(f) PROVE Armed' /\ LinkedOnce'
  BY <1>5 DEF ReleaseFence
<1>6. ASSUME NEW f \in Fences, EngineAdvance(f) PROVE Armed' /\ LinkedOnce'
  BY <1>6 DEF EngineAdvance
<1>7. ASSUME PostEvent PROVE Armed' /\ LinkedOnce'
  BY <1>7 DEF PostEvent
<1>8. ASSUME NEW w \in Waiters, NEW f \in Fences, WaitStart(w, f) PROVE Armed' /\ LinkedOnce'
  BY <1>8 DEF WaitStart
<1>9. ASSUME NEW w \in Waiters, Arm(w) PROVE Armed' /\ LinkedOnce'
  BY <1>9 DEF Arm, ContextFree
<1>10. ASSUME NEW w \in Waiters, ArmRecheck(w) PROVE Armed' /\ LinkedOnce'
  BY <1>10 DEF ArmRecheck
<1>11. ASSUME NEW w \in Waiters, ArmLink(w) PROVE Armed' /\ LinkedOnce'
  BY <1>11 DEF ArmLink
<1>12. ASSUME NEW w \in Waiters, WaitEnd(w) PROVE Armed' /\ LinkedOnce'
  BY <1>12 DEF WaitEnd
<1>13. ASSUME NEW f \in Fences, PollSignaled(f) PROVE Armed' /\ LinkedOnce'
  BY <1>13 DEF PollSignaled, ContextFree
<1>14. ASSUME ThreadWake PROVE Armed' /\ LinkedOnce'
  BY <1>14 DEF ThreadWake
<1>15. ASSUME ThreadSplice PROVE Armed' /\ LinkedOnce'
  BY <1>15 DEF ThreadSplice
<1>16. ASSUME NEW f \in Fences, ThreadScan(f) PROVE Armed' /\ LinkedOnce'
  BY <1>16 DEF ThreadScan
<1>17. ASSUME ThreadSignal PROVE Armed' /\ LinkedOnce'
  BY <1>17 DEF ThreadSignal, ContextFree
<1>18. ASSUME ThreadPut PROVE Armed' /\ LinkedOnce'
  BY <1>18 DEF ThreadPut
<1>19. ASSUME ThreadScanEnd PROVE Armed' /\ LinkedOnce'
  BY <1>19 DEF ThreadScanEnd
<1>20. ASSUME ThreadGiveBack PROVE Armed' /\ LinkedOnce'
  BY <1>20 DEF ThreadGiveBack
<1>21. ASSUME ThreadTryFreeze PROVE Armed' /\ LinkedOnce'
  BY <1>21 DEF ThreadTryFreeze
<1>22. ASSUME ThreadThaw PROVE Armed' /\ LinkedOnce'
  BY <1>22 DEF ThreadThaw
<1>23. ASSUME PmFreeze PROVE Armed' /\ LinkedOnce'
  BY <1>23 DEF PmFreeze
<1>24. ASSUME PmThaw PROVE Armed' /\ LinkedOnce'
  BY <1>24 DEF PmThaw
<1>25. CASE UNCHANGED vars
  BY <1>25 DEF vars
<1>. QED
  BY <1>1, <1>2, <1>3, <1>4, <1>5, <1>6, <1>7, <1>8, <1>9, <1>10, <1>11, <1>12, <1>13, <1>14,
     <1>15, <1>16, <1>17, <1>18, <1>19, <1>20, <1>21, <1>22, <1>23, <1>24, <1>25
  DEF Next, Scheduler, Waiting, ArmStep, EventThread, Pm

(* Nobody signals a fence before its engine has passed it.                  *)
LEMMA SignaledStep ==
  TypeOK /\ Structure /\ SignaledOnlyBack /\ [Next]_vars => SignaledOnlyBack'
<1>. SUFFICES ASSUME TypeOK, Structure, SignaledOnlyBack, [Next]_vars
              PROVE SignaledOnlyBack'
  OBVIOUS
<1>. USE DEF TypeOK, WaiterPcs, ThreadPcs, core_vars, list_vars,
       waiter_vars, pm_vars, Structure, SignaledOnlyBack
<1>1. ASSUME NEW f \in Fences, CreateFence(f) PROVE SignaledOnlyBack'
  BY <1>1 DEF CreateFence
<1>2. ASSUME NEW f \in Fences, AttachBo(f) PROVE SignaledOnlyBack'
  BY <1>2 DEF AttachBo
<1>3. ASSUME NEW f \in Fences, DetachBo(f) PROVE SignaledOnlyBack'
  BY <1>3 DEF DetachBo
<1>4. ASSUME NEW f \in Fences, UpdateValue(f) PROVE SignaledOnlyBack'
  BY <1>4 DEF UpdateValue
<1>5. ASSUME NEW f \in Fences, ReleaseFence(f) PROVE SignaledOnlyBack'
  BY <1>5 DEF ReleaseFence
<1>6. ASSUME NEW f \in Fences, EngineAdvance(f) PROVE SignaledOnlyBack'
  BY <1>6 DEF EngineAdvance
<1>7. ASSUME PostEvent PROVE SignaledOnlyBack'
  BY <1>7 DEF PostEvent
<1>8. ASSUME NEW w \in Waiters, NEW f \in Fences, WaitStart(w, f) PROVE SignaledOnlyBack'
  BY <1>8 DEF WaitStart
<1>9. ASSUME NEW w \in Waiters, Arm(w) PROVE SignaledOnlyBack'
  BY <1>9 DEF Arm
<1>10. ASSUME NEW w \in Waiters, ArmRecheck(w) PROVE SignaledOnlyBack'
  BY <1>10 DEF ArmRecheck
<1>11. ASSUME NEW w \in Waiters, ArmLink(w) PROVE SignaledOnlyBack'
  BY <1>11 DEF ArmLink
<1>12. ASSUME NEW w \in Waiters, WaitEnd(w) PROVE SignaledOnlyBack'
  BY <1>12 DEF WaitEnd
<1>13. ASSUME NEW f \in Fences, PollSignaled(f) PROVE SignaledOnlyBack'
  BY <1>13 DEF PollSignaled
<1>14. ASSUME ThreadWake PROVE SignaledOnlyBack'
  BY <1>14 DEF ThreadWake
<1>15. ASSUME ThreadSplice PROVE SignaledOnlyBack'
  BY <1>15 DEF ThreadSplice
<1>16. ASSUME NEW f \in Fences, ThreadScan(f) PROVE SignaledOnlyBack'
  BY <1>16 DEF ThreadScan
<1>17. ASSUME ThreadSignal PROVE SignaledOnlyBack'
  BY <1>17 DEF ThreadSignal
<1>18. ASSUME ThreadPut PROVE SignaledOnlyBack'
  BY <1>18 DEF ThreadPut
<1>19. ASSUME ThreadScanEnd PROVE SignaledOnlyBack'
  BY <1>19 DEF ThreadScanEnd
<1>20. ASSUME ThreadGiveBack PROVE SignaledOnlyBack'
  BY <1>20 DEF ThreadGiveBack
<1>21. ASSUME ThreadTryFreeze PROVE SignaledOnlyBack'
  BY <1>21 DEF ThreadTryFreeze
<1>22. ASSUME ThreadThaw PROVE SignaledOnlyBack'
  BY <1>22 DEF ThreadThaw
<1>23. ASSUME PmFreeze PROVE SignaledOnlyBack'
  BY <1>23 DEF PmFreeze
<1>24. ASSUME PmThaw PROVE SignaledOnlyBack'
  BY <1>24 DEF PmThaw
<1>25. CASE UNCHANGED vars
  BY <1>25 DEF vars
<1>. QED
  BY <1>1, <1>2, <1>3, <1>4, <1>5, <1>6, <1>7, <1>8, <1>9, <1>10, <1>11, <1>12, <1>13, <1>14,
     <1>15, <1>16, <1>17, <1>18, <1>19, <1>20, <1>21, <1>22, <1>23, <1>24, <1>25
  DEF Next, Scheduler, Waiting, ArmStep, EventThread, Pm

(* An armed fence never falls between the lists.                            *)
LEMMA TrackedStep ==
  TypeOK /\ Structure /\ ArmedIsTracked /\ [Next]_vars => ArmedIsTracked'
<1>. SUFFICES ASSUME TypeOK, Structure, ArmedIsTracked, [Next]_vars
              PROVE ArmedIsTracked'
  OBVIOUS
<1>. USE NoFenceAssumption DEF TypeOK, WaiterPcs, ThreadPcs, core_vars, list_vars,
       waiter_vars, pm_vars, Structure, ArmedIsTracked, Listed, Arming
<1>1. ASSUME NEW f \in Fences, CreateFence(f) PROVE ArmedIsTracked'
  BY <1>1 DEF CreateFence
<1>2. ASSUME NEW f \in Fences, AttachBo(f) PROVE ArmedIsTracked'
  BY <1>2 DEF AttachBo
<1>3. ASSUME NEW f \in Fences, DetachBo(f) PROVE ArmedIsTracked'
  BY <1>3 DEF DetachBo
<1>4. ASSUME NEW f \in Fences, UpdateValue(f) PROVE ArmedIsTracked'
  BY <1>4 DEF UpdateValue
<1>5. ASSUME NEW f \in Fences, ReleaseFence(f) PROVE ArmedIsTracked'
  BY <1>5 DEF ReleaseFence
<1>6. ASSUME NEW f \in Fences, EngineAdvance(f) PROVE ArmedIsTracked'
  BY <1>6 DEF EngineAdvance
<1>7. ASSUME PostEvent PROVE ArmedIsTracked'
  BY <1>7 DEF PostEvent
<1>8. ASSUME NEW w \in Waiters, NEW f \in Fences, WaitStart(w, f) PROVE ArmedIsTracked'
  BY <1>8 DEF WaitStart
<1>9. ASSUME NEW w \in Waiters, Arm(w) PROVE ArmedIsTracked'
  BY <1>9 DEF Arm
<1>10. ASSUME NEW w \in Waiters, ArmRecheck(w) PROVE ArmedIsTracked'
  BY <1>10 DEF ArmRecheck
<1>11. ASSUME NEW w \in Waiters, ArmLink(w) PROVE ArmedIsTracked'
  BY <1>11 DEF ArmLink
<1>12. ASSUME NEW w \in Waiters, WaitEnd(w) PROVE ArmedIsTracked'
  BY <1>12 DEF WaitEnd
<1>13. ASSUME NEW f \in Fences, PollSignaled(f) PROVE ArmedIsTracked'
  BY <1>13 DEF PollSignaled
<1>14. ASSUME ThreadWake PROVE ArmedIsTracked'
  BY <1>14 DEF ThreadWake
<1>15. ASSUME ThreadSplice PROVE ArmedIsTracked'
  BY <1>15 DEF ThreadSplice
<1>16. ASSUME NEW f \in Fences, ThreadScan(f) PROVE ArmedIsTracked'
  BY <1>16 DEF ThreadScan
<1>17. ASSUME ThreadSignal PROVE ArmedIsTracked'
  BY <1>17 DEF ThreadSignal
<1>18. ASSUME ThreadPut PROVE ArmedIsTracked'
  BY <1>18 DEF ThreadPut
<1>19. ASSUME ThreadScanEnd PROVE ArmedIsTracked'
  BY <1>19 DEF ThreadScanEnd
<1>20. ASSUME ThreadGiveBack PROVE ArmedIsTracked'
  BY <1>20 DEF ThreadGiveBack
<1>21. ASSUME ThreadTryFreeze PROVE ArmedIsTracked'
  BY <1>21 DEF ThreadTryFreeze
<1>22. ASSUME ThreadThaw PROVE ArmedIsTracked'
  BY <1>22 DEF ThreadThaw
<1>23. ASSUME PmFreeze PROVE ArmedIsTracked'
  BY <1>23 DEF PmFreeze
<1>24. ASSUME PmThaw PROVE ArmedIsTracked'
  BY <1>24 DEF PmThaw
<1>25. CASE UNCHANGED vars
  BY <1>25 DEF vars
<1>. QED
  BY <1>1, <1>2, <1>3, <1>4, <1>5, <1>6, <1>7, <1>8, <1>9, <1>10, <1>11, <1>12, <1>13, <1>14,
     <1>15, <1>16, <1>17, <1>18, <1>19, <1>20, <1>21, <1>22, <1>23, <1>24, <1>25
  DEF Next, Scheduler, Waiting, ArmStep, EventThread, Pm

(* A back fence that waits is always going to be looked at.                 *)
LEMMA WakeupStep ==
  TypeOK /\ Structure /\ WakeupPending /\ [Next]_vars => WakeupPending'
<1>. SUFFICES ASSUME TypeOK, Structure, WakeupPending, [Next]_vars
              PROVE WakeupPending'
  OBVIOUS
<1>. USE NoFenceAssumption, NobodyAssumption
       DEF TypeOK, WaiterPcs, ThreadPcs, core_vars, list_vars,
       waiter_vars, pm_vars, Structure, WakeupPending
<1>1. ASSUME NEW f \in Fences, CreateFence(f) PROVE WakeupPending'
  BY <1>1 DEF CreateFence
<1>2. ASSUME NEW f \in Fences, AttachBo(f) PROVE WakeupPending'
  BY <1>2 DEF AttachBo
<1>3. ASSUME NEW f \in Fences, DetachBo(f) PROVE WakeupPending'
  BY <1>3 DEF DetachBo
<1>4. ASSUME NEW f \in Fences, UpdateValue(f) PROVE WakeupPending'
  BY <1>4 DEF UpdateValue
<1>5. ASSUME NEW f \in Fences, ReleaseFence(f) PROVE WakeupPending'
  BY <1>5 DEF ReleaseFence
<1>6. ASSUME NEW f \in Fences, EngineAdvance(f) PROVE WakeupPending'
  BY <1>6 DEF EngineAdvance
<1>7. ASSUME PostEvent PROVE WakeupPending'
  BY <1>7 DEF PostEvent
<1>8. ASSUME NEW w \in Waiters, NEW f \in Fences, WaitStart(w, f) PROVE WakeupPending'
  BY <1>8 DEF WaitStart
<1>9. ASSUME NEW w \in Waiters, Arm(w) PROVE WakeupPending'
  BY <1>9 DEF Arm
<1>10. ASSUME NEW w \in Waiters, ArmRecheck(w) PROVE WakeupPending'
  BY <1>10 DEF ArmRecheck
<1>11. ASSUME NEW w \in Waiters, ArmLink(w) PROVE WakeupPending'
  BY <1>11 DEF ArmLink
<1>12. ASSUME NEW w \in Waiters, WaitEnd(w) PROVE WakeupPending'
  BY <1>12 DEF WaitEnd
<1>13. ASSUME NEW f \in Fences, PollSignaled(f) PROVE WakeupPending'
  BY <1>13 DEF PollSignaled
<1>14. ASSUME ThreadWake PROVE WakeupPending'
  BY <1>14 DEF ThreadWake
<1>15. ASSUME ThreadSplice PROVE WakeupPending'
  BY <1>15 DEF ThreadSplice
<1>16. ASSUME NEW f \in Fences, ThreadScan(f) PROVE WakeupPending'
  BY <1>16 DEF ThreadScan
<1>17. ASSUME ThreadSignal PROVE WakeupPending'
  BY <1>17 DEF ThreadSignal
<1>18. ASSUME ThreadPut PROVE WakeupPending'
  BY <1>18 DEF ThreadPut
<1>19. ASSUME ThreadScanEnd PROVE WakeupPending'
  BY <1>19 DEF ThreadScanEnd
<1>20. ASSUME ThreadGiveBack PROVE WakeupPending'
  BY <1>20 DEF ThreadGiveBack
<1>21. ASSUME ThreadTryFreeze PROVE WakeupPending'
  BY <1>21 DEF ThreadTryFreeze
<1>22. ASSUME ThreadThaw PROVE WakeupPending'
  BY <1>22 DEF ThreadThaw
<1>23. ASSUME PmFreeze PROVE WakeupPending'
  BY <1>23 DEF PmFreeze
<1>24. ASSUME PmThaw PROVE WakeupPending'
  BY <1>24 DEF PmThaw
<1>25. CASE UNCHANGED vars
  BY <1>25 DEF vars
<1>. QED
  BY <1>1, <1>2, <1>3, <1>4, <1>5, <1>6, <1>7, <1>8, <1>9, <1>10, <1>11, <1>12, <1>13, <1>14,
     <1>15, <1>16, <1>17, <1>18, <1>19, <1>20, <1>21, <1>22, <1>23, <1>24, <1>25
  DEF Next, Scheduler, Waiting, ArmStep, EventThread, Pm
(* The waiters that refer to a fence, counted.                              *)
LEMMA OwnersCount ==
  ASSUME NEW f
  PROVE  IsFiniteSet(Owners(f)) /\ Cardinality(Owners(f)) \in Nat
<1>1. Owners(f) \in SUBSET Waiters
  BY DEF Owners
<1>. QED
  BY <1>1, WaitersAssumption, FS_Subset, FS_CardinalityType

(* A waiter that takes a fence adds one to that fence's owners only.        *)
LEMMA OwnersJoin ==
  ASSUME NEW w \in Waiters, NEW f \in Fences,
         wf \in [Waiters -> Fences \cup {NoFence}], wf[w] = NoFence,
         wf' = [wf EXCEPT ![w] = f]
  PROVE  \A g \in Fences :
           Cardinality(Owners(g)') = Cardinality(Owners(g)) + One(g = f)
<1>. TAKE g \in Fences
<1>1. CASE g = f
  <2>1. Owners(g)' = Owners(g) \cup {w} /\ w \notin Owners(g)
    BY <1>1, NoFenceAssumption DEF Owners
  <2>. QED
    BY <2>1, <1>1, OwnersCount, FS_AddElement DEF One
<1>2. CASE g # f
  <2>1. Owners(g)' = Owners(g)
    BY <1>2, NoFenceAssumption DEF Owners
  <2>. QED
    BY <2>1, <1>2, OwnersCount DEF One
<1>. QED
  BY <1>1, <1>2

(* A waiter that lets its fence go takes one from that fence's owners only. *)
LEMMA OwnersLeave ==
  ASSUME NEW w \in Waiters,
         wf \in [Waiters -> Fences \cup {NoFence}], wf[w] \in Fences,
         wf' = [wf EXCEPT ![w] = NoFence]
  PROVE  \A g \in Fences :
           /\ Cardinality(Owners(g)') = Cardinality(Owners(g)) - One(g = wf[w])
           /\ g = wf[w] => Cardinality(Owners(g)) > 0
<1>. TAKE g \in Fences
<1>1. CASE g = wf[w]
  <2>1. Owners(g)' = Owners(g) \ {w} /\ w \in Owners(g)
    BY <1>1, NoFenceAssumption DEF Owners
  <2>2. Cardinality(Owners(g)) \in Nat \ {0}
    BY <2>1, OwnersCount, FS_EmptySet
  <2>3. Cardinality(Owners(g) \ {w}) = Cardinality(Owners(g)) - 1
    BY <2>1, OwnersCount, FS_RemoveElement
  <2>. QED
    BY <2>1, <2>2, <2>3, <1>1 DEF One
<1>2. CASE g # wf[w]
  <2>1. Owners(g)' = Owners(g)
    BY <1>2, NoFenceAssumption DEF Owners
  <2>. QED
    BY <2>1, <1>2, OwnersCount DEF One
<1>. QED
  BY <1>1, <1>2

(* A reference count is never negative.                                     *)
LEMMA PartiesNat == \A f \in Fences : Parties(f) \in Nat
  BY OwnersCount DEF Parties, One

(* A step that leaves the count and every party alone keeps the accounts.   *)
LEMMA QuietRefs ==
  ASSUME RefsAccounted, LiveIsReferenced,
         UNCHANGED <<ref, life, core, resv, wf>>, Listed' = Listed
  PROVE  RefsAccounted' /\ LiveIsReferenced'
<1>1. \A f \in Fences : Parties(f)' = Parties(f)
  BY DEF Parties, Owners
<1>. QED
  BY <1>1 DEF RefsAccounted, LiveIsReferenced

(* dma_fence_get by a new party of a referenced fence keeps the accounts.   *)
LEMMA GetRefs ==
  ASSUME TypeOK, RefsAccounted, LiveIsReferenced, NEW f \in Fences,
         Parties(f) > 0, Get(f),
         \A g \in Fences : Parties(g)' = Parties(g) + One(g = f)
  PROVE  RefsAccounted' /\ LiveIsReferenced'
  BY PartiesNat DEF TypeOK, RefsAccounted, LiveIsReferenced, Get, One

(* dma_fence_put by a party that leaves keeps the accounts.                 *)
LEMMA PutRefs ==
  ASSUME TypeOK, RefsAccounted, LiveIsReferenced, NEW f \in Fences,
         Parties(f) > 0, Put(f),
         \A g \in Fences : Parties(g)' = Parties(g) - One(g = f)
  PROVE  RefsAccounted' /\ LiveIsReferenced'
  BY PartiesNat DEF TypeOK, RefsAccounted, LiveIsReferenced, Put, One

(* Every reference stays owned, and a fence dies with its last reference.   *)
LEMMA RefsStep ==
  TypeOK /\ Control /\ RefsAccounted /\ LiveIsReferenced /\ [Next]_vars
    => RefsAccounted' /\ LiveIsReferenced'
<1>. SUFFICES ASSUME TypeOK, Control, RefsAccounted, LiveIsReferenced, [Next]_vars
              PROVE RefsAccounted' /\ LiveIsReferenced'
  OBVIOUS
<1>n. \A g \in Fences : /\ Parties(g) \in Nat
                        /\ IsFiniteSet(Owners(g)) /\ Cardinality(Owners(g)) \in Nat
                        /\ Cardinality(Owners(g)) = 0 <=> Owners(g) = {}
  BY PartiesNat, OwnersCount, FS_EmptySet
<1>. USE NoFenceAssumption DEF TypeOK, WaiterPcs, ThreadPcs, core_vars, list_vars,
       waiter_vars, pm_vars, Control, Structure, Armed, LinkedOnce, One
<1>1. ASSUME NEW f \in Fences, CreateFence(f) PROVE RefsAccounted' /\ LiveIsReferenced'
  <2>1. \A g \in Fences : Owners(g)' = Owners(g)
    BY <1>1 DEF CreateFence, Owners
  <2>2. Parties(f) = 0
    BY <1>1, <1>n DEF CreateFence, RefsAccounted, LiveIsReferenced, Parties
  <2>3. \A g \in Fences : Parties(g)' = Parties(g) + One(g = f)
    BY <1>1, <2>1, <2>2, <1>n DEF CreateFence, Parties, Listed
  <2>. QED
    BY <1>1, <2>2, <2>3 DEF CreateFence, RefsAccounted, LiveIsReferenced
<1>2. ASSUME NEW f \in Fences, AttachBo(f) PROVE RefsAccounted' /\ LiveIsReferenced'
  <2>1. Listed' = Listed /\ \A g \in Fences : Owners(g)' = Owners(g)
    BY <1>2 DEF AttachBo, Owners, Listed
  <2>2. \A g \in Fences : Parties(g)' = Parties(g) + One(g = f)
    BY <1>2, <2>1, <1>n DEF AttachBo, Parties
  <2>3. f \in Fences /\ Parties(f) > 0 /\ Get(f)
    BY <1>2, <1>n DEF AttachBo, Parties
  <2>. QED
    BY <2>2, <2>3, GetRefs
<1>3. ASSUME NEW f \in Fences, DetachBo(f) PROVE RefsAccounted' /\ LiveIsReferenced'
  <2>1. Listed' = Listed /\ \A g \in Fences : Owners(g)' = Owners(g)
    BY <1>3 DEF DetachBo, Owners, Listed
  <2>2. \A g \in Fences : Parties(g)' = Parties(g) - One(g = f)
    BY <1>3, <2>1, <1>n DEF DetachBo, Parties
  <2>3. f \in Fences /\ Parties(f) > 0 /\ Put(f)
    BY <1>3, <1>n DEF DetachBo, Parties
  <2>. QED
    BY <2>2, <2>3, PutRefs
<1>4. ASSUME NEW f \in Fences, UpdateValue(f) PROVE RefsAccounted' /\ LiveIsReferenced'
  <2>1. UNCHANGED <<ref, life, core, resv, wf>> /\ Listed' = Listed
    BY <1>4 DEF UpdateValue, Listed
  <2>. QED
    BY <2>1, QuietRefs
<1>5. ASSUME NEW f \in Fences, ReleaseFence(f) PROVE RefsAccounted' /\ LiveIsReferenced'
  <2>1. Listed' = Listed /\ \A g \in Fences : Owners(g)' = Owners(g)
    BY <1>5 DEF ReleaseFence, Owners, Listed
  <2>2. \A g \in Fences : Parties(g)' = Parties(g) - One(g = f)
    BY <1>5, <2>1, <1>n DEF ReleaseFence, Parties
  <2>3. f \in Fences /\ Parties(f) > 0 /\ Put(f)
    BY <1>5, <1>n DEF ReleaseFence, Parties
  <2>. QED
    BY <2>2, <2>3, PutRefs
<1>6. ASSUME NEW f \in Fences, EngineAdvance(f) PROVE RefsAccounted' /\ LiveIsReferenced'
  <2>1. UNCHANGED <<ref, life, core, resv, wf>> /\ Listed' = Listed
    BY <1>6 DEF EngineAdvance, Listed
  <2>. QED
    BY <2>1, QuietRefs
<1>7. ASSUME PostEvent PROVE RefsAccounted' /\ LiveIsReferenced'
  <2>1. UNCHANGED <<ref, life, core, resv, wf>> /\ Listed' = Listed
    BY <1>7 DEF PostEvent, Listed
  <2>. QED
    BY <2>1, QuietRefs
<1>8. ASSUME NEW w \in Waiters, NEW f \in Fences, WaitStart(w, f)
      PROVE  RefsAccounted' /\ LiveIsReferenced'
  <2>1. \A g \in Fences : Cardinality(Owners(g)') = Cardinality(Owners(g)) + One(g = f)
    BY <1>8, OwnersJoin DEF WaitStart
  <2>2. \A g \in Fences : Parties(g)' = Parties(g) + One(g = f)
    BY <1>8, <2>1, <1>n DEF WaitStart, Parties, Listed
  <2>3. Parties(f) > 0 /\ Get(f)
    BY <1>8, <1>n DEF WaitStart, Parties
  <2>. QED
    BY <2>2, <2>3, GetRefs
<1>9. ASSUME NEW w \in Waiters, Arm(w) PROVE RefsAccounted' /\ LiveIsReferenced'
  <2>1. UNCHANGED <<ref, life, core, resv, wf>> /\ Listed' = Listed
    BY <1>9 DEF Arm, Listed
  <2>. QED
    BY <2>1, QuietRefs
<1>10. ASSUME NEW w \in Waiters, ArmRecheck(w) PROVE RefsAccounted' /\ LiveIsReferenced'
  <2>1. UNCHANGED <<ref, life, core, resv, wf>> /\ Listed' = Listed
    BY <1>10 DEF ArmRecheck, Listed
  <2>. QED
    BY <2>1, QuietRefs
<1>11. ASSUME NEW w \in Waiters, ArmLink(w) PROVE RefsAccounted' /\ LiveIsReferenced'
  <2>1. \A g \in Fences : Owners(g)' = Owners(g)
    BY <1>11 DEF ArmLink, Owners
  <2>2. /\ wf[w] \in Fences \ Listed /\ w \in Owners(wf[w])
        /\ Listed' = Listed \cup {wf[w]}
    BY <1>11 DEF ArmLink, Arming, Listed, Owners
  <2>3. \A g \in Fences : Parties(g)' = Parties(g) + One(g = wf[w])
    BY <1>11, <2>1, <2>2, <1>n DEF ArmLink, Parties
  <2>4. Parties(wf[w]) > 0 /\ Get(wf[w])
    BY <1>11, <2>2, <1>n DEF ArmLink, Parties
  <2>. QED
    BY <2>2, <2>3, <2>4, GetRefs
<1>12. ASSUME NEW w \in Waiters, WaitEnd(w) PROVE RefsAccounted' /\ LiveIsReferenced'
  <2>1. wf[w] \in Fences
    BY <1>12 DEF WaitEnd
  <2>2. \A g \in Fences :
          /\ Cardinality(Owners(g)') = Cardinality(Owners(g)) - One(g = wf[w])
          /\ g = wf[w] => Cardinality(Owners(g)) > 0
    BY <1>12, <2>1, OwnersLeave DEF WaitEnd
  <2>3. \A g \in Fences : Parties(g)' = Parties(g) - One(g = wf[w])
    BY <1>12, <2>2, <1>n DEF WaitEnd, Parties, Listed
  <2>4. Parties(wf[w]) > 0 /\ Put(wf[w])
    BY <1>12, <2>1, <2>2, <1>n DEF WaitEnd, Parties
  <2>. QED
    BY <2>1, <2>3, <2>4, PutRefs
<1>13. ASSUME NEW f \in Fences, PollSignaled(f) PROVE RefsAccounted' /\ LiveIsReferenced'
  <2>1. UNCHANGED <<ref, life, core, resv, wf>> /\ Listed' = Listed
    BY <1>13 DEF PollSignaled, Listed
  <2>. QED
    BY <2>1, QuietRefs
<1>14. ASSUME ThreadWake PROVE RefsAccounted' /\ LiveIsReferenced'
  <2>1. UNCHANGED <<ref, life, core, resv, wf>> /\ Listed' = Listed
    BY <1>14 DEF ThreadWake, Listed
  <2>. QED
    BY <2>1, QuietRefs
<1>15. ASSUME ThreadSplice PROVE RefsAccounted' /\ LiveIsReferenced'
  <2>1. UNCHANGED <<ref, life, core, resv, wf>> /\ Listed' = Listed
    BY <1>15 DEF ThreadSplice, Listed
  <2>. QED
    BY <2>1, QuietRefs
<1>16. ASSUME NEW f \in Fences, ThreadScan(f) PROVE RefsAccounted' /\ LiveIsReferenced'
  <2>1. UNCHANGED <<ref, life, core, resv, wf>> /\ Listed' = Listed
    BY <1>16 DEF ThreadScan, Listed
  <2>. QED
    BY <2>1, QuietRefs
<1>17. ASSUME ThreadSignal PROVE RefsAccounted' /\ LiveIsReferenced'
  <2>1. UNCHANGED <<ref, life, core, resv, wf>> /\ Listed' = Listed
    BY <1>17 DEF ThreadSignal, Listed
  <2>. QED
    BY <2>1, QuietRefs
<1>18. ASSUME ThreadPut PROVE RefsAccounted' /\ LiveIsReferenced'
  <2>1. \A g \in Fences : Owners(g)' = Owners(g)
    BY <1>18 DEF ThreadPut, Owners
  <2>2. cur \in Listed /\ Listed' = Listed \ {cur} /\ cur \in Fences
    BY <1>18 DEF ThreadPut, Listed
  <2>3. \A g \in Fences : Parties(g)' = Parties(g) - One(g = cur)
    BY <1>18, <2>1, <2>2, <1>n DEF ThreadPut, Parties
  <2>4. Parties(cur) > 0 /\ Put(cur)
    BY <1>18, <2>2, <1>n DEF ThreadPut, Parties
  <2>. QED
    BY <2>2, <2>3, <2>4, PutRefs
<1>19. ASSUME ThreadScanEnd PROVE RefsAccounted' /\ LiveIsReferenced'
  <2>1. UNCHANGED <<ref, life, core, resv, wf>> /\ Listed' = Listed
    BY <1>19 DEF ThreadScanEnd, Listed
  <2>. QED
    BY <2>1, QuietRefs
<1>20. ASSUME ThreadGiveBack PROVE RefsAccounted' /\ LiveIsReferenced'
  <2>1. UNCHANGED <<ref, life, core, resv, wf>> /\ Listed' = Listed
    BY <1>20 DEF ThreadGiveBack, Listed
  <2>. QED
    BY <2>1, QuietRefs
<1>21. ASSUME ThreadTryFreeze PROVE RefsAccounted' /\ LiveIsReferenced'
  <2>1. UNCHANGED <<ref, life, core, resv, wf>> /\ Listed' = Listed
    BY <1>21 DEF ThreadTryFreeze, Listed
  <2>. QED
    BY <2>1, QuietRefs
<1>22. ASSUME ThreadThaw PROVE RefsAccounted' /\ LiveIsReferenced'
  <2>1. UNCHANGED <<ref, life, core, resv, wf>> /\ Listed' = Listed
    BY <1>22 DEF ThreadThaw, Listed
  <2>. QED
    BY <2>1, QuietRefs
<1>23. ASSUME PmFreeze PROVE RefsAccounted' /\ LiveIsReferenced'
  <2>1. UNCHANGED <<ref, life, core, resv, wf>> /\ Listed' = Listed
    BY <1>23 DEF PmFreeze, Listed
  <2>. QED
    BY <2>1, QuietRefs
<1>24. ASSUME PmThaw PROVE RefsAccounted' /\ LiveIsReferenced'
  <2>1. UNCHANGED <<ref, life, core, resv, wf>> /\ Listed' = Listed
    BY <1>24 DEF PmThaw, Listed
  <2>. QED
    BY <2>1, QuietRefs
<1>25. CASE UNCHANGED vars
  BY <1>25, QuietRefs DEF vars, Listed
<1>. QED
  BY <1>1, <1>2, <1>3, <1>4, <1>5, <1>6, <1>7, <1>8, <1>9, <1>10, <1>11, <1>12, <1>13, <1>14,
     <1>15, <1>16, <1>17, <1>18, <1>19, <1>20, <1>21, <1>22, <1>23, <1>24, <1>25
  DEF Next, Scheduler, Waiting, ArmStep, EventThread, Pm

-------------------------------------------------------------------------------
(***************************************************************************)
(* The theorems.                                                           *)
(***************************************************************************)

(* The inductive invariant holds initially.                                 *)
LEMMA InvInit == Init => IInv
<1>. SUFFICES ASSUME Init PROVE IInv
  OBVIOUS
<1>1. \A f \in Fences : Owners(f) = {} /\ Cardinality(Owners(f)) = 0
  BY NoFenceAssumption, FS_EmptySet DEF Init, Owners
<1>2. TypeOK
  <2>1. freezes \in 0..MaxFreezes
    BY FreezesAssumption DEF Init
  <2>2. /\ life \in [Fences -> {"unborn", "live", "freed"}]
        /\ ref \in [Fences -> Int]
        /\ wpc \in [Waiters -> WaiterPcs]
        /\ wf \in [Waiters -> Fences \cup {NoFence}]
    BY DEF Init, WaiterPcs
  <2>3. /\ tpc \in ThreadPcs
        /\ event \in BOOLEAN /\ irq \in BOOLEAN /\ freezing \in BOOLEAN
    BY DEF Init, ThreadPcs
  <2>. QED
    BY <2>1, <2>2, <2>3 DEF Init, TypeOK
<1>3. Control
  BY NobodyAssumption DEF Init, Control, Structure, Armed, LinkedOnce, Listed, Arming
<1>4. RefsAccounted /\ LiveIsReferenced
  BY <1>1 DEF Init, RefsAccounted, LiveIsReferenced, Parties, One, Listed
<1>. QED
  BY <1>2, <1>3, <1>4
  DEF Init, IInv, SignaledOnlyBack, ArmedIsTracked, WakeupPending

(* The inductive invariant is inductive.                                    *)
LEMMA InvStep == IInv /\ [Next]_vars => IInv'
  BY TypeStep, StructureStep, ArmedStep, SignaledStep, TrackedStep, WakeupStep, RefsStep
  DEF IInv, Control

LEMMA Invariant == Spec => []IInv
  BY InvInit, InvStep, PTL DEF Spec

(* The fence driver keeps its variables in range (zx_fence.h 186-223).      *)
THEOREM TypeCorrect == Spec => []TypeOK
<1>1. IInv => TypeOK
  BY DEF IInv
<1>. QED
  BY <1>1, Invariant, PTL

(* No reference to a fence leaks or is put twice: the kref counts exactly   *)
(* the parties that will put it.                                            *)
THEOREM ReferencesSafe == Spec => []RefsAccounted
<1>1. IInv => RefsAccounted
  BY DEF IInv
<1>. QED
  BY <1>1, Invariant, PTL

(* No list, thread, scheduler, reservation object or waiter refers to a     *)
(* fence that was freed (zx_fence.c: the puts at 185, 473 and 537).          *)
THEOREM FreedIsUnused == Spec => []NoUseAfterFree
<1>1. IInv => NoUseAfterFree
  <2>. SUFFICES ASSUME IInv PROVE NoUseAfterFree
    OBVIOUS
  <2>1. \A f \in Fences :
          Cardinality(Owners(f)) \in Nat /\ (Owners(f) # {} => Cardinality(Owners(f)) > 0)
    BY OwnersCount, FS_EmptySet
  <2>. QED
    BY <2>1 DEF IInv, RefsAccounted, LiveIsReferenced, NoUseAfterFree, Parties, One
<1>. QED
  BY <1>1, Invariant, PTL

(* However arming, list splices and signals interleave, a fence is linked   *)
(* at most once, an armed fence is always tracked until it is signaled, and *)
(* it is signaled only after its engine has passed it.                      *)
THEOREM TrackingSafe == Spec => [](LinkedOnce /\ ArmedIsTracked /\ SignaledOnlyBack)
<1>1. IInv => LinkedOnce /\ ArmedIsTracked /\ SignaledOnlyBack
  BY DEF IInv, Control
<1>. QED
  BY <1>1, Invariant, PTL

(* The event thread never goes to sleep on a fence the engine has passed:   *)
(* the second look under driver->lock closes the window between the check   *)
(* and the link.                                                            *)
THEOREM NoLostWakeup == Spec => []WakeupPending
<1>1. IInv => WakeupPending
  BY DEF IInv
<1>. QED
  BY <1>1, Invariant, PTL

(* Every step of the driver is a step its users are promised, or changes    *)
(* nothing they can see; the liveness half of the promise is left to TLC.   *)
THEOREM ImplementsPromise == Spec => PromiseSpec
<1>1. Init => Promise!Init
  BY DEF Init, Promise!Init
<1>2. IInv /\ [Next]_vars => [Promise!Next]_(Promise!vars)
  <2>. SUFFICES ASSUME IInv, [Next]_vars PROVE [Promise!Next]_(Promise!vars)
    OBVIOUS
  <2>. USE DEF IInv, Control, Structure, TypeOK, SignaledOnlyBack, Promise!Next,
         Promise!vars, core_vars, list_vars, waiter_vars, pm_vars
  <2>1. ASSUME NEW w \in Waiters, Arm(w) PROVE [Promise!Next]_(Promise!vars)
    <3>1. wf[w] \in Fences
      BY <2>1 DEF Arm
    <3>2. CASE wf[w] \in enabled
      BY <2>1, <3>1, <3>2 DEF Arm
    <3>3. CASE wf[w] \notin enabled
      BY <2>1, <3>1, <3>3 DEF Arm, Promise!ArmFence
    <3>. QED
      BY <3>2, <3>3
  <2>2. ASSUME NEW w \in Waiters, ArmRecheck(w) PROVE [Promise!Next]_(Promise!vars)
    <3>1. wf[w] \in Fences
      BY <2>2 DEF ArmRecheck
    <3>. QED
      BY <2>2, <3>1 DEF ArmRecheck, Promise!Signal
  <2>3. ASSUME NEW f \in Fences, PollSignaled(f) PROVE [Promise!Next]_(Promise!vars)
    BY <2>3 DEF PollSignaled, Promise!Signal
  <2>4. CASE ThreadSignal
    <3>1. cur \in Fences \cap back
      BY <2>4 DEF ThreadSignal
    <3>. QED
      BY <2>4, <3>1 DEF ThreadSignal, Promise!Signal
  <2>5. ASSUME NEW f \in Fences, EngineAdvance(f) PROVE [Promise!Next]_(Promise!vars)
    BY <2>5 DEF EngineAdvance, Promise!Complete
  <2>6. CASE UNCHANGED <<enabled, back, signaled>>
    BY <2>6
  <2>. QED
    BY <2>1, <2>2, <2>3, <2>4, <2>5, <2>6
    DEF Next, Scheduler, Waiting, ArmStep, EventThread, Pm, vars,
        CreateFence, AttachBo, DetachBo, UpdateValue, ReleaseFence, PostEvent,
        WaitStart, ArmLink, WaitEnd, ThreadWake, ThreadSplice, ThreadScan,
        ThreadPut, ThreadScanEnd, ThreadGiveBack, ThreadTryFreeze,
        ThreadThaw, PmFreeze, PmThaw
<1>. QED
  BY <1>1, <1>2, Invariant, PTL DEF Spec, PromiseSpec, Promise!Spec
=============================================================================
