-------------------------- MODULE AtomicCommitProofs --------------------------
(***************************************************************************)
(* Proofs about AtomicCommit, for any number of commits, addresses and     *)
(* monitors.                                                               *)
(*                                                                         *)
(* Everything is shown up to the step that takes a sink that was freed     *)
(* (raced), where the model stops.                                         *)
(***************************************************************************)
EXTENDS AtomicCommit, FiniteSetTheorems, TLAPS

Steps == {"idle", "save", "copied", "check", "tail", "compare", "assign", "get", "clear",
          "planes", "flip", "done"}
Kinds == {"none", "modeset", "flip", "restore", "suspend", "resume"}
Pointers == Sinks \cup {None}
SlotStates == [at : Steps, kind : Kinds, nonblock : BOOLEAN, sink : Pointers, active : BOOLEAN]

(* The places of a commit: before the swap, and from it to its flush.       *)
Before(c) == slot[c].at \in {"save", "copied", "check"}
Tail(c) == slot[c].at \in {"tail", "compare", "assign", "get", "clear", "planes"}

(* The modeset locks let one commit at a time prepare its state.            *)
OneBefore ==
  /\ \A c, d \in Commits : Before(c) /\ Before(d) => c = d
  /\ \A c \in Commits : Before(c) /\ slot[c].kind # "restore" => locks = c
  /\ \A c \in Commits : slot[c].at = "idle" <=> slot[c].kind = "none"

(* The completions let one commit at a time change the hardware.            *)
OneTail == \A c, d \in Commits : Tail(c) /\ Tail(d) => c = d

(* The commit of the hot plug work has its locks until its end.             *)
OneRestore ==
  \A c \in Commits : slot[c].kind = "restore" =>
    /\ locks = Detector /\ det.at = "restore" /\ ~slot[c].nonblock
    /\ \A d \in Commits : slot[d].kind = "restore" => c = d

(* The state a suspend saved is held from its copy to the resume.           *)
SavedWhile ==
  /\ saved.held => pm \in {"suspending", "cancelling", "asleep"}
  /\ pm \in {"cancelling", "asleep"} => saved.held
  /\ \A c \in Commits : slot[c].at = "save" => slot[c].kind = "suspend" /\ ~saved.held
  /\ \A c \in Commits : slot[c].kind = "suspend" /\ slot[c].at \notin {"save", "copied", "check"}
       => saved.held
  /\ \A c \in Commits : slot[c].kind = "suspend" => pm = "suspending"
  /\ \A c \in Commits : slot[c].kind = "resume" => pm = "resuming"
  /\ \A c, d \in Commits : slot[c].kind \in {"suspend", "resume"} /\ slot[c].kind = slot[d].kind
       => c = d

(* Where a detection is, and what it knows.                                 *)
Detecting ==
  /\ det.at = "create" => sink = None
  /\ det.found = "this" => mon
  /\ made # {} => mon

Protocol == OneBefore /\ OneTail /\ OneRestore /\ SavedWhile /\ Detecting

-------------------------------------------------------------------------------
LEMMA TypeSlots ==
  ASSUME TypeOK
  PROVE  slot \in [Commits -> SlotStates]
BY Zenon DEF TypeOK, SlotStates, Steps, Kinds, Pointers

(* One step of a commit changes nothing else of it, and no other commit.    *)
LEMMA GoFacts ==
  ASSUME TypeOK, NEW c \in Commits, NEW a \in Steps, Go(c, a)
  PROVE  /\ slot' \in [Commits -> SlotStates]
         /\ slot'[c].at = a /\ slot'[c].kind = slot[c].kind
         /\ slot'[c].nonblock = slot[c].nonblock /\ slot'[c].sink = slot[c].sink
         /\ slot'[c].active = slot[c].active
         /\ \A d \in Commits : d # c => slot'[d] = slot[d]
BY TypeSlots DEF Go, SlotStates

(* A new entry of a slot, and one that is free again.                       *)
LEMMA EntryFacts ==
  ASSUME TypeOK, NEW c \in Commits, NEW e \in SlotStates, slot' = [slot EXCEPT ![c] = e]
  PROVE  /\ slot' \in [Commits -> SlotStates] /\ slot'[c] = e
         /\ \A d \in Commits : d # c => slot'[d] = slot[d]
BY TypeSlots

LEMMA IdleType == Idle \in SlotStates
BY DEF Idle, SlotStates, Steps, Kinds, Pointers

(* The entry of a commit that begins.                                       *)
LEMMA TakeFacts ==
  ASSUME TypeOK, NEW c \in Commits, NEW k \in Kinds, NEW nb \in BOOLEAN, NEW a \in BOOLEAN,
         TakeState(c, k, nb, a)
  PROVE  /\ slot' \in [Commits -> SlotStates] /\ slot[c].at = "idle"
         /\ slot'[c].at = (IF k = "suspend" THEN "save" ELSE "copied")
         /\ slot'[c].kind = k /\ slot'[c].nonblock = nb /\ slot'[c].sink = crtc.sink
         /\ slot'[c].active = a
         /\ \A d \in Commits : d # c => slot'[d] = slot[d]
<1>. DEFINE e == [at |-> IF k = "suspend" THEN "save" ELSE "copied", kind |-> k,
                  nonblock |-> nb, sink |-> crtc.sink, active |-> a]
<1>1. crtc.sink \in Pointers
  BY DEF TypeOK, Pointers
<1>2. (IF k = "suspend" THEN "save" ELSE "copied") \in Steps
  BY DEF Steps
<1>3. e \in SlotStates
  BY <1>1, <1>2 DEF SlotStates
<1>4. slot' = [slot EXCEPT ![c] = e] /\ slot[c].at = "idle"
  BY DEF TakeState, At
<1>5. /\ e.at = (IF k = "suspend" THEN "save" ELSE "copied") /\ e.kind = k
      /\ e.nonblock = nb /\ e.sink = crtc.sink /\ e.active = a
  OBVIOUS
<1>. HIDE DEF e
<1>. QED
  BY <1>3, <1>4, <1>5, EntryFacts

(* What the end of a commit does to locks, detection and sleep.             *)
LEMMA EndedFacts ==
  ASSUME TypeOK, NEW c \in Commits, NEW ok \in BOOLEAN, Ended(c, ok)
  PROVE  /\ slot' \in [Commits -> SlotStates] /\ slot'[c] = Idle
         /\ \A d \in Commits : d # c => slot'[d] = slot[d]
         /\ det' \in {det, NoDetection} /\ locks' \in {locks, None}
         /\ pm' \in {pm, "cancelling", "run"}
BY TypeSlots, IdleType, EntryFacts DEF Ended

LEMMA NoDetectionType ==
  NoDetection \in [at : {"idle", "put", "null", "create", "lock", "restore"},
                  found : {"nothing", "this", "another"}, plugged : BOOLEAN]
BY DEF NoDetection

LEMMA TypePrime ==
  ASSUME count' \in [Sinks -> Nat], made' \in SUBSET Sinks, sink' \in Pointers,
         status' \in BOOLEAN, crtc' \in [sink : Pointers, active : BOOLEAN],
         slot' \in [Commits -> SlotStates],
         saved' \in [held : BOOLEAN, sink : Pointers, active : BOOLEAN],
         pm' \in {"run", "suspending", "cancelling", "asleep", "resuming"},
         locks' \in Commits \cup {None, Detector},
         det' \in [at : {"idle", "put", "null", "create", "lock", "restore"},
                   found : {"nothing", "this", "another"}, plugged : BOOLEAN],
         on' \in BOOLEAN, lit' \in BOOLEAN, mon' \in BOOLEAN, mons' \in 0..MaxMonitors,
         late' \in BOOLEAN, raced' \in BOOLEAN
  PROVE  TypeOK'
BY Zenon DEF TypeOK, SlotStates, Steps, Kinds, Pointers

LEMMA GetFacts ==
  ASSUME TypeOK, NEW s \in Pointers, Get(s)
  PROVE  /\ count' \in [Sinks -> Nat] /\ raced' \in BOOLEAN
         /\ ~raced' => \A t \in Sinks : count'[t] = count[t] + IF t = s THEN 1 ELSE 0
<1>1. count \in [Sinks -> Nat]
  BY DEF TypeOK
<1>2. (s # None /\ count[s] = 0) \in BOOLEAN
  OBVIOUS
<1>3. raced' \in BOOLEAN /\ (~raced' => s = None \/ count[s] # 0)
  BY <1>2, Zenon DEF Get
<1>4. count' = IF s = None \/ count[s] = 0 THEN count ELSE [count EXCEPT ![s] = @ + 1]
  BY Zenon DEF Get
<1>5. count' \in [Sinks -> Nat]
  BY <1>1, <1>4 DEF Pointers
<1>6. ASSUME ~raced', NEW t \in Sinks PROVE count'[t] = count[t] + IF t = s THEN 1 ELSE 0
  BY <1>1, <1>3, <1>4, <1>6, CommitAssumption DEF Pointers
<1>. QED
  BY <1>3, <1>5, <1>6

LEMMA PutFacts ==
  ASSUME TypeOK, NEW s \in Pointers, Put(s)
  PROVE  /\ count' \in [Sinks -> Nat]
         /\ s # None /\ count[s] > 0
              => \A t \in Sinks : count'[t] = count[t] - IF t = s THEN 1 ELSE 0
         /\ s = None => count' = count
<1>1. count \in [Sinks -> Nat]
  BY DEF TypeOK
<1>. QED
  BY <1>1 DEF Put, Pointers

-------------------------------------------------------------------------------
(* Every variable stays in its range.                                       *)
LEMMA TypeStep == TypeOK /\ [Next]_vars => TypeOK'
<1>. SUFFICES ASSUME TypeOK, [Next]_vars PROVE TypeOK'
  OBVIOUS
<1>. USE TypeSlots, CommitAssumption DEF memory, hardware
<1>0. /\ count \in [Sinks -> Nat] /\ made \in SUBSET Sinks /\ sink \in Pointers
      /\ status \in BOOLEAN /\ crtc \in [sink : Pointers, active : BOOLEAN]
      /\ saved \in [held : BOOLEAN, sink : Pointers, active : BOOLEAN]
      /\ pm \in {"run", "suspending", "cancelling", "asleep", "resuming"}
      /\ locks \in Commits \cup {None, Detector}
      /\ det \in [at : {"idle", "put", "null", "create", "lock", "restore"},
                  found : {"nothing", "this", "another"}, plugged : BOOLEAN]
      /\ on \in BOOLEAN /\ lit \in BOOLEAN /\ mon \in BOOLEAN /\ mons \in 0..MaxMonitors
      /\ late \in BOOLEAN /\ raced \in BOOLEAN
  BY Zenon DEF TypeOK, Pointers
<1>1. ASSUME NEW c \in Commits, Copy(c) PROVE TypeOK'
  BY <1>0, <1>1, GetFacts, GoFacts, TypePrime DEF Copy, Steps, SlotStates
<1>2. ASSUME NEW c \in Commits, Abort(c) PROVE TypeOK'
  <2>1. CASE slot[c].kind = "suspend" /\ saved.held
    <3>1. Put(saved.sink) /\ saved.sink \in Pointers /\ saved' = NotSaved
      BY <1>0, <1>2, <2>1 DEF Abort
    <3>2. UNCHANGED <<made, sink, status, crtc, hardware, late, raced, slot, locks, det, pm>>
      BY <1>2, <2>1 DEF Abort
    <3>3. NotSaved \in [held : BOOLEAN, sink : Pointers, active : BOOLEAN]
      BY DEF NotSaved, Pointers
    <3>. QED
      BY <1>0, <3>1, <3>2, <3>3, PutFacts, TypePrime
  <2>2. CASE ~(slot[c].kind = "suspend" /\ saved.held)
    <3>1. Put(slot[c].sink) /\ Ended(c, FALSE) /\ slot[c].sink \in Pointers
      BY <1>2, <2>2, TypeSlots DEF Abort, SlotStates
    <3>2. UNCHANGED <<made, sink, status, crtc, hardware, late, raced, saved>>
      BY <1>2, <2>2 DEF Abort
    <3>. QED
      <4>1. /\ count' \in [Sinks -> Nat] /\ slot' \in [Commits -> SlotStates]
            /\ locks' \in Commits \cup {None, Detector}
            /\ pm' \in {"run", "suspending", "cancelling", "asleep", "resuming"}
        BY <1>0, <3>1, PutFacts, EndedFacts
      <4>2. det' \in [at : {"idle", "put", "null", "create", "lock", "restore"},
                     found : {"nothing", "this", "another"}, plugged : BOOLEAN]
        BY <1>0, <3>1, EndedFacts, NoDetectionType
      <4>. QED
        BY <1>0, <3>2, <4>1, <4>2, TypePrime
  <2>. QED
    BY <2>1, <2>2
<1>3. ASSUME NEW c \in Commits, Swap(c) PROVE TypeOK'
  BY <1>0, <1>3, EntryFacts, TypePrime DEF Swap, Steps, SlotStates
<1>4. ASSUME NEW c \in Commits, Enable(c) PROVE TypeOK'
  <2>1. on' \in BOOLEAN /\ lit' \in BOOLEAN /\ late' \in BOOLEAN
    <3>1. crtc.active \in BOOLEAN /\ (crtc.active /\ mon) \in BOOLEAN
      BY <1>0
    <3>. QED
      BY <1>0, <1>4, <3>1, Zenon DEF Enable
  <2>2. slot' \in [Commits -> SlotStates]
    BY <1>4, GoFacts DEF Enable, Steps
  <2>3. UNCHANGED <<memory, sink, status, crtc, saved, pm, locks, det, mon, mons, raced>>
    BY <1>4 DEF Enable
  <2>. QED
    BY <1>0, <2>1, <2>2, <2>3, TypePrime
<1>5. ASSUME NEW c \in Commits, Compare(c) PROVE TypeOK'
  BY <1>0, <1>5, PutFacts, GoFacts, TypePrime DEF Compare, Steps, SlotStates
<1>6. ASSUME NEW c \in Commits, Assign(c) PROVE TypeOK'
  BY <1>0, <1>6, GoFacts, TypePrime DEF Assign, Steps, SlotStates
<1>7. ASSUME NEW c \in Commits, Record(c) PROVE TypeOK'
  BY <1>0, <1>7, GetFacts, GoFacts, TypePrime DEF Record, Steps, SlotStates
<1>8. ASSUME NEW c \in Commits, Clear(c) PROVE TypeOK'
  <2>1. crtc' \in [sink : Pointers, active : BOOLEAN]
    BY <1>0, <1>8 DEF Clear, Pointers
  <2>. QED
    BY <1>0, <1>8, <2>1, GoFacts, TypePrime DEF Clear, Steps
<1>9. ASSUME NEW c \in Commits, Flush(c) PROVE TypeOK'
  <2>1. (IF HasEvent(c) /\ on THEN "flip" ELSE "done") \in Steps
    BY DEF Steps
  <2>2. slot' \in [Commits -> SlotStates]
    BY <1>9, <2>1 DEF Flush, SlotStates
  <2>. QED
    BY <1>0, <1>9, <2>2, TypePrime DEF Flush
<1>10. ASSUME NEW c \in Commits, Done(c) PROVE TypeOK'
  BY <1>0, <1>10, PutFacts, EntryFacts, IdleType, TypePrime
     DEF Done, Ended, NoDetection, Steps, SlotStates
<1>11. ASSUME NEW c \in Commits, Save(c) PROVE TypeOK'
  <2>1. slot' \in [Commits -> SlotStates]
    <3>1. crtc.sink \in Pointers /\ "copied" \in Steps
      BY <1>0 DEF Steps
    <3>2. slot' = [slot EXCEPT ![c] = [slot[c] EXCEPT !.at = "copied", !.sink = crtc.sink]]
      BY <1>11 DEF Save
    <3>3. [slot[c] EXCEPT !.at = "copied", !.sink = crtc.sink] \in SlotStates
      BY <3>1 DEF SlotStates
    <3>. QED
      BY <3>2, <3>3, EntryFacts
  <2>2. saved' \in [held : BOOLEAN, sink : Pointers, active : BOOLEAN]
    BY <1>0, <1>11 DEF Save
  <2>3. Get(saved.sink) /\ saved.sink \in Pointers
    BY <1>0, <1>11 DEF Save
  <2>4. UNCHANGED <<made, sink, status, crtc, pm, locks, det, hardware, late>>
    BY <1>11 DEF Save
  <2>. QED
    BY <1>0, <2>1, <2>2, <2>3, <2>4, GetFacts, TypePrime
<1>12. ASSUME NEW c \in Commits, UserCommit(c) PROVE TypeOK'
  <2>1. \E k \in Kinds, nb \in BOOLEAN, a \in BOOLEAN : TakeState(c, k, nb, a)
    BY <1>12 DEF UserCommit, Kinds
  <2>. QED
    BY <1>0, <1>12, <2>1, TakeFacts, TypePrime DEF UserCommit
<1>13. ASSUME NEW c \in Commits, Suspend(c) PROVE TypeOK'
  <2>1. saved' \in [held : BOOLEAN, sink : Pointers, active : BOOLEAN]
    BY <1>0, <1>13 DEF Suspend
  <2>2. slot' \in [Commits -> SlotStates]
    BY <1>13, TakeFacts DEF Suspend, Kinds
  <2>. QED
    BY <1>0, <1>13, <2>1, <2>2, TypePrime DEF Suspend
<1>14. ASSUME NEW c \in Commits, Resume(c) PROVE TypeOK'
  <2>1. [at |-> "check", kind |-> "resume", nonblock |-> FALSE, sink |-> saved.sink,
         active |-> saved.active] \in SlotStates
    BY <1>0 DEF SlotStates, Steps, Kinds
  <2>2. slot' \in [Commits -> SlotStates]
    BY <1>14, <2>1, EntryFacts DEF Resume
  <2>3. saved' \in [held : BOOLEAN, sink : Pointers, active : BOOLEAN]
    BY <1>14 DEF Resume, NotSaved, Pointers
  <2>. QED
    BY <1>0, <1>14, <2>2, <2>3, TypePrime DEF Resume
<1>15. CASE Vblank
  BY <1>0, <1>15, GoFacts, TypePrime DEF Vblank, Steps
<1>16. CASE Detect
  BY <1>0, <1>16, TypePrime DEF Detect, NoDetection
<1>17. CASE Cancel
  BY <1>0, <1>17, TypePrime DEF Cancel
<1>18. CASE PutSink
  BY <1>0, <1>18, PutFacts, TypePrime DEF PutSink
<1>19. CASE ForgetSink
  BY <1>0, <1>19, TypePrime DEF ForgetSink, NoDetection, Pointers
<1>20. CASE CreateSink
  BY <1>0, <1>20, TypePrime DEF CreateSink, PendingGet, NoDetection, Pointers
<1>21. CASE Restore
  <2>1. slot' \in [Commits -> SlotStates]
    <3>1. ASSUME NEW c \in Commits, TakeState(c, "restore", FALSE, crtc.active)
          PROVE  slot' \in [Commits -> SlotStates]
      <4>1. "restore" \in Kinds /\ crtc.active \in BOOLEAN /\ FALSE \in BOOLEAN
        BY <1>0 DEF Kinds
      <4>. QED
        BY <3>1, <4>1, TakeFacts
    <3>. QED
      BY <1>21, <3>1 DEF Restore
  <2>2. /\ det' \in {[det EXCEPT !.at = "restore"], NoDetection}
        /\ locks' \in {Detector, locks}
    BY <1>21 DEF Restore
  <2>3. UNCHANGED <<memory, sink, status, crtc, saved, pm, hardware, late, raced>>
    BY <1>21 DEF Restore
  <2>4. det' \in [at : {"idle", "put", "null", "create", "lock", "restore"},
                  found : {"nothing", "this", "another"}, plugged : BOOLEAN]
    <3>1. [det EXCEPT !.at = "restore"] \in [at : {"idle", "put", "null", "create", "lock",
            "restore"}, found : {"nothing", "this", "another"}, plugged : BOOLEAN]
      BY <1>0
    <3>. QED
      BY <2>2, <3>1, NoDetectionType
  <2>. QED
    BY <1>0, <2>1, <2>2, <2>3, <2>4, TypePrime
<1>22. CASE Plug
  BY <1>0, <1>22, TypePrime DEF Plug
<1>23. CASE Unplug
  <2>1. det' \in [at : {"idle", "put", "null", "create", "lock", "restore"},
                  found : {"nothing", "this", "another"}, plugged : BOOLEAN]
    <3>1. (IF det.found = "this" THEN "another" ELSE det.found) \in {"nothing", "this", "another"}
      BY <1>0
    <3>2. det' = [det EXCEPT !.found = IF det.found = "this" THEN "another" ELSE det.found]
      BY <1>23 DEF Unplug
    <3>. QED
      BY <1>0, <3>1, <3>2
  <2>. QED
    BY <1>0, <1>23, <2>1, TypePrime DEF Unplug
<1>24. CASE UNCHANGED vars
  BY <1>0, <1>24, TypePrime DEF vars
<1>. QED
  BY <1>1, <1>2, <1>3, <1>4, <1>5, <1>6, <1>7, <1>8, <1>9, <1>10, <1>11, <1>12,
     <1>13, <1>14, <1>15, <1>16, <1>17, <1>18, <1>19, <1>20, <1>21, <1>22, <1>23, <1>24
     DEF Next, CommitStep, WorkStep, vars

-------------------------------------------------------------------------------
(* The steps of a commit, by what they do to its slot.                      *)
Only(c) == /\ slot' \in [Commits -> SlotStates]
           /\ \A d \in Commits : d # c => slot'[d] = slot[d]

Same(c) == /\ slot'[c].kind = slot[c].kind /\ slot'[c].nonblock = slot[c].nonblock
           /\ slot'[c].sink = slot[c].sink

(* It goes on, without locks, detection or sleep noticing.                  *)
Moves(c) ==
  /\ Only(c) /\ Same(c) /\ UNCHANGED <<saved, pm, locks, det>>
  /\ \/ slot[c].at = "copied" /\ slot'[c].at = "check"
     \/ Tail(c) /\ slot'[c].at \in {"compare", "assign", "get", "clear", "planes", "flip", "done"}
     \/ slot[c].at = "flip" /\ slot'[c].at = "done"

(* It begins.                                                               *)
Begins(c, k, nb, at) ==
  /\ Only(c) /\ slot[c].at = "idle"
  /\ slot'[c].at = at /\ slot'[c].kind = k /\ slot'[c].nonblock = nb

(* It ends.                                                                 *)
Ends(c, ok) ==
  /\ Only(c) /\ slot'[c] = Idle
  /\ slot[c].at = (IF ok THEN "done" ELSE "check")
  /\ ~ok => ~(slot[c].kind = "suspend" /\ saved.held)
  /\ Ended(c, ok) /\ UNCHANGED saved

(* What moves no commit.                                                    *)
Rest == /\ UNCHANGED slot
        /\ \/ Cancel \/ Detect \/ PutSink \/ ForgetSink \/ CreateSink \/ Plug \/ Unplug
              \/ UNCHANGED vars
           \/ Restore /\ det.at = "lock" /\ det' = NoDetection /\ UNCHANGED <<saved, pm, locks>>
           \/ /\ UNCHANGED <<locks, det, pm>> /\ saved' = NotSaved
              /\ \E c \in Commits : slot[c].at = "check" /\ slot[c].kind = "suspend"

LEMMA MoveFacts ==
  ASSUME TypeOK, NEW c \in Commits,
         Copy(c) \/ Enable(c) \/ Compare(c) \/ Assign(c) \/ Record(c) \/ Clear(c) \/ Flush(c)
  PROVE  Moves(c)
<1>. USE GoFacts DEF At, Moves, Only, Same, Tail, Steps
<1>1. CASE Copy(c)
  BY <1>1 DEF Copy
<1>2. CASE Enable(c)
  BY <1>2 DEF Enable
<1>3. CASE Compare(c)
  BY <1>3 DEF Compare
<1>4. CASE Assign(c)
  BY <1>4 DEF Assign
<1>5. CASE Record(c)
  BY <1>5 DEF Record
<1>6. CASE Clear(c)
  BY <1>6 DEF Clear
<1>7. CASE Flush(c)
  <2>. DEFINE a == IF HasEvent(c) /\ on THEN "flip" ELSE "done"
              e == [slot[c] EXCEPT !.at = a, !.active = FALSE]
  <2>1. a \in Steps /\ a \in {"flip", "done"}
    OBVIOUS
  <2>2. slot' = [slot EXCEPT ![c] = e]
    BY <1>7 DEF Flush
  <2>. HIDE DEF a
  <2>3. /\ e \in SlotStates /\ e.at = a /\ e.kind = slot[c].kind
        /\ e.nonblock = slot[c].nonblock /\ e.sink = slot[c].sink
    BY <2>1, TypeSlots DEF SlotStates
  <2>4. slot[c].at = "planes" /\ UNCHANGED <<saved, pm, locks, det>>
    BY <1>7 DEF Flush
  <2>. HIDE DEF e
  <2>. QED
    BY <2>1, <2>2, <2>3, <2>4, EntryFacts
<1>. QED
  BY <1>1, <1>2, <1>3, <1>4, <1>5, <1>6, <1>7

(* Every step is of one of these forms.                                     *)
LEMMA StepForms ==
  ASSUME TypeOK, [Next]_vars
  PROVE  \/ Rest
         \/ \E c \in Commits :
              \/ Moves(c)
              \/ Swap(c) /\ Only(c)
              \/ Ends(c, TRUE) \/ Ends(c, FALSE)
              \/ Save(c) /\ Only(c) /\ slot'[c].kind = slot[c].kind /\ slot'[c].at = "copied"
              \/ /\ UserCommit(c)
                 /\ \E k \in {"modeset", "flip"}, nb \in BOOLEAN : Begins(c, k, nb, "copied")
              \/ Suspend(c) /\ Begins(c, "suspend", FALSE, "save")
              \/ Resume(c) /\ Begins(c, "resume", FALSE, "check")
              \/ /\ Restore /\ Begins(c, "restore", FALSE, "copied")
                 /\ locks' = Detector /\ det' = [det EXCEPT !.at = "restore"]
<1>. USE TypeSlots
<1>1. ASSUME NEW c \in Commits, Copy(c) \/ Enable(c) \/ Compare(c) \/ Assign(c) \/ Record(c)
                               \/ Clear(c) \/ Flush(c)
      PROVE  Moves(c)
  BY <1>1, MoveFacts
<1>2. ASSUME Vblank PROVE \E c \in Commits : Moves(c)
  <2>1. PICK c \in Commits : slot[c].at = "flip" /\ Go(c, "done")
    BY <1>2 DEF Vblank, At
  <2>2. Moves(c)
    BY <1>2, <2>1, GoFacts DEF Moves, Only, Same, Vblank, Steps
  <2>. QED
    BY <2>2
<1>3. ASSUME NEW c \in Commits, Abort(c) PROVE Rest \/ Ends(c, FALSE)
  <2>1. CASE slot[c].kind = "suspend" /\ saved.held
    BY <1>3, <2>1 DEF Abort, At, Rest
  <2>2. CASE ~(slot[c].kind = "suspend" /\ saved.held)
    <3>1. Ended(c, FALSE) /\ slot[c].at = "check" /\ UNCHANGED saved
      BY <1>3, <2>2 DEF Abort, At
    <3>. QED
      BY <2>2, <3>1, EndedFacts DEF Ends, Only
  <2>. QED
    BY <2>1, <2>2
<1>4. ASSUME NEW c \in Commits, Done(c) PROVE Ends(c, TRUE)
  BY <1>4, EndedFacts DEF Done, Ends, Only, At
<1>5. ASSUME NEW c \in Commits, Swap(c) PROVE Only(c)
  <2>1. crtc.sink \in Pointers /\ crtc.active \in BOOLEAN
    BY DEF TypeOK, Pointers
  <2>2. [at |-> "tail", kind |-> slot[c].kind, nonblock |-> FALSE, sink |-> crtc.sink,
         active |-> crtc.active] \in SlotStates
    BY <2>1 DEF SlotStates, Steps
  <2>. QED
    BY <1>5, <2>2, EntryFacts DEF Swap, Only
<1>6. ASSUME NEW c \in Commits, Save(c)
      PROVE  Only(c) /\ slot'[c].kind = slot[c].kind /\ slot'[c].at = "copied"
  <2>1. slot' = [slot EXCEPT ![c] = [slot[c] EXCEPT !.at = "copied", !.sink = crtc.sink]]
    BY <1>6 DEF Save
  <2>2. crtc.sink \in Pointers
    BY DEF TypeOK, Pointers
  <2>3. [slot[c] EXCEPT !.at = "copied", !.sink = crtc.sink] \in SlotStates
    BY <2>2 DEF SlotStates, Steps
  <2>. QED
    BY <2>1, <2>3, EntryFacts DEF Only, SlotStates
<1>7. ASSUME NEW c \in Commits, UserCommit(c)
      PROVE  \E k \in {"modeset", "flip"}, nb \in BOOLEAN : Begins(c, k, nb, "copied")
  <2>1. PICK k \in {"modeset", "flip"}, nb \in BOOLEAN, a \in BOOLEAN : TakeState(c, k, nb, a)
    BY <1>7 DEF UserCommit
  <2>2. Begins(c, k, nb, "copied")
    BY <2>1, TakeFacts DEF Begins, Only, Kinds
  <2>. QED
    BY <2>2
<1>8. ASSUME NEW c \in Commits, Suspend(c) PROVE Begins(c, "suspend", FALSE, "save")
  BY <1>8, TakeFacts DEF Suspend, Begins, Only, Kinds
<1>9. ASSUME NEW c \in Commits, Resume(c) PROVE Begins(c, "resume", FALSE, "check")
  <2>1. saved.sink \in Pointers /\ saved.active \in BOOLEAN
    BY DEF TypeOK, Pointers
  <2>2. [at |-> "check", kind |-> "resume", nonblock |-> FALSE, sink |-> saved.sink,
         active |-> saved.active] \in SlotStates
    BY <2>1 DEF SlotStates, Steps, Kinds
  <2>. QED
    BY <1>9, <2>2, EntryFacts DEF Resume, Begins, Only, At
<1>10. ASSUME Restore
       PROVE  Rest \/ \E c \in Commits :
                /\ Begins(c, "restore", FALSE, "copied")
                /\ locks' = Detector /\ det' = [det EXCEPT !.at = "restore"]
  <2>1. CASE det' = NoDetection /\ UNCHANGED <<slot, locks>>
    BY <1>10, <2>1 DEF Rest, Restore
  <2>2. ASSUME NEW c \in Commits, TakeState(c, "restore", FALSE, crtc.active)
        PROVE  Begins(c, "restore", FALSE, "copied")
    <3>1. crtc.sink \in Pointers /\ crtc.active \in BOOLEAN
      BY DEF TypeOK, Pointers
    <3>2. [at |-> "copied", kind |-> "restore", nonblock |-> FALSE, sink |-> crtc.sink,
           active |-> crtc.active] \in SlotStates
      BY <3>1 DEF SlotStates, Steps, Kinds
    <3>. QED
      BY <2>2, <3>2, EntryFacts DEF TakeState, Begins, Only, At
  <2>. QED
    BY <1>10, <2>1, <2>2 DEF Restore
<1>11. ASSUME Cancel \/ Detect \/ PutSink \/ ForgetSink \/ CreateSink \/ Plug \/ Unplug
              \/ UNCHANGED vars
       PROVE  Rest
  <2>1. UNCHANGED slot
    BY <1>11 DEF Cancel, Detect, PutSink, ForgetSink, CreateSink, Plug, Unplug, vars
  <2>. QED
    BY <1>11, <2>1 DEF Rest
<1>. QED
  BY <1>1, <1>2, <1>3, <1>4, <1>5, <1>6, <1>7, <1>8, <1>9, <1>10, <1>11
     DEF Next, CommitStep, WorkStep

-------------------------------------------------------------------------------
(* One commit prepares at a time.                                          *)
LEMMA OneBeforeStep == TypeOK /\ OneBefore /\ OneRestore /\ [Next]_vars => OneBefore'
<1>. SUFFICES ASSUME TypeOK, OneBefore, OneRestore, [Next]_vars PROVE OneBefore'
  OBVIOUS
<1>. USE TypeSlots, CommitAssumption DEF OneBefore, OneRestore, Before, Tail
<1>1. CASE Rest
  BY <1>1 DEF Rest, Cancel, Detect, PutSink, ForgetSink, CreateSink, Plug, Unplug, vars, Restore,
     NoDetection
<1>2. ASSUME NEW c \in Commits, Moves(c) PROVE OneBefore'
  BY <1>2 DEF Moves, Only, Same
<1>3. ASSUME NEW c \in Commits, Swap(c), Only(c) PROVE OneBefore'
  BY <1>3 DEF Swap, Only, At, InTail
<1>4. ASSUME NEW c \in Commits, NEW ok \in BOOLEAN, Ends(c, ok) PROVE OneBefore'
  BY <1>4 DEF Ends, Ended, Only, Idle, NoDetection
<1>5. ASSUME NEW c \in Commits, Save(c), Only(c), slot'[c].kind = slot[c].kind,
             slot'[c].at = "copied"
      PROVE  OneBefore'
  BY <1>5 DEF Save, Only, At
<1>6. ASSUME NEW c \in Commits, UserCommit(c), NEW k \in {"modeset", "flip"},
             NEW nb \in BOOLEAN, Begins(c, k, nb, "copied")
      PROVE  OneBefore'
  BY <1>6 DEF UserCommit, Begins, Only
<1>7. ASSUME NEW c \in Commits, Suspend(c), Begins(c, "suspend", FALSE, "save")
      PROVE  OneBefore'
  BY <1>7 DEF Suspend, Begins, Only
<1>8. ASSUME NEW c \in Commits, Resume(c), Begins(c, "resume", FALSE, "check")
      PROVE  OneBefore'
  BY <1>8 DEF Resume, Begins, Only, NotSaved
<1>9. ASSUME NEW c \in Commits, Restore, Begins(c, "restore", FALSE, "copied"),
             locks' = Detector, det' = [det EXCEPT !.at = "restore"]
      PROVE  OneBefore'
  BY <1>9 DEF Restore, Begins, Only
<1>. QED
  BY <1>1, <1>2, <1>3, <1>4, <1>5, <1>6, <1>7, <1>8, <1>9, StepForms

(* One commit is in its tail at a time.                                     *)
LEMMA OneTailStep == TypeOK /\ OneTail /\ [Next]_vars => OneTail'
<1>. SUFFICES ASSUME TypeOK, OneTail, [Next]_vars PROVE OneTail'
  OBVIOUS
<1>. USE TypeSlots, CommitAssumption DEF OneTail, Tail
<1>1. CASE Rest
  BY <1>1 DEF Rest, Cancel, Detect, PutSink, ForgetSink, CreateSink, Plug, Unplug, vars, Restore,
     NoDetection
<1>2. ASSUME NEW c \in Commits, Moves(c) PROVE OneTail'
  BY <1>2 DEF Moves, Only, Same
<1>3. ASSUME NEW c \in Commits, Swap(c), Only(c) PROVE OneTail'
  BY <1>3 DEF Swap, Only, At, InTail
<1>4. ASSUME NEW c \in Commits, NEW ok \in BOOLEAN, Ends(c, ok) PROVE OneTail'
  BY <1>4 DEF Ends, Ended, Only, Idle, NoDetection
<1>5. ASSUME NEW c \in Commits, Save(c), Only(c), slot'[c].kind = slot[c].kind,
             slot'[c].at = "copied"
      PROVE  OneTail'
  BY <1>5 DEF Save, Only, At
<1>6. ASSUME NEW c \in Commits, UserCommit(c), NEW k \in {"modeset", "flip"},
             NEW nb \in BOOLEAN, Begins(c, k, nb, "copied")
      PROVE  OneTail'
  BY <1>6 DEF UserCommit, Begins, Only
<1>7. ASSUME NEW c \in Commits, Suspend(c), Begins(c, "suspend", FALSE, "save")
      PROVE  OneTail'
  BY <1>7 DEF Suspend, Begins, Only
<1>8. ASSUME NEW c \in Commits, Resume(c), Begins(c, "resume", FALSE, "check")
      PROVE  OneTail'
  BY <1>8 DEF Resume, Begins, Only, NotSaved
<1>9. ASSUME NEW c \in Commits, Restore, Begins(c, "restore", FALSE, "copied"),
             locks' = Detector, det' = [det EXCEPT !.at = "restore"]
      PROVE  OneTail'
  BY <1>9 DEF Restore, Begins, Only
<1>. QED
  BY <1>1, <1>2, <1>3, <1>4, <1>5, <1>6, <1>7, <1>8, <1>9, StepForms

(* The restore of the hot plug work keeps its locks.                       *)
LEMMA OneRestoreStep == TypeOK /\ OneRestore /\ OneBefore /\ [Next]_vars => OneRestore'
<1>. SUFFICES ASSUME TypeOK, OneRestore, OneBefore, [Next]_vars PROVE OneRestore'
  OBVIOUS
<1>. USE TypeSlots, CommitAssumption DEF OneRestore, OneBefore, Before
<1>1. CASE Rest
  <2>1. det'.at = det.at \/ det.at # "restore"
    BY <1>1 DEF Rest, Cancel, Detect, PutSink, ForgetSink, CreateSink, Plug, Unplug, vars,
       NoDetection, TypeOK
  <2>2. UNCHANGED <<slot, locks>>
    BY <1>1 DEF Rest, Cancel, Detect, PutSink, ForgetSink, CreateSink, Plug, Unplug, vars
  <2>. QED
    BY <2>1, <2>2
<1>2. ASSUME NEW c \in Commits, Moves(c) PROVE OneRestore'
  BY <1>2 DEF Moves, Only, Same
<1>3. ASSUME NEW c \in Commits, Swap(c), Only(c) PROVE OneRestore'
  BY <1>3 DEF Swap, Only, At, InTail
<1>4. ASSUME NEW c \in Commits, NEW ok \in BOOLEAN, Ends(c, ok) PROVE OneRestore'
  BY <1>4 DEF Ends, Ended, Only, Idle, NoDetection
<1>5. ASSUME NEW c \in Commits, Save(c), Only(c), slot'[c].kind = slot[c].kind,
             slot'[c].at = "copied"
      PROVE  OneRestore'
  BY <1>5 DEF Save, Only, At
<1>6. ASSUME NEW c \in Commits, UserCommit(c), NEW k \in {"modeset", "flip"},
             NEW nb \in BOOLEAN, Begins(c, k, nb, "copied")
      PROVE  OneRestore'
  BY <1>6 DEF UserCommit, Begins, Only
<1>7. ASSUME NEW c \in Commits, Suspend(c), Begins(c, "suspend", FALSE, "save")
      PROVE  OneRestore'
  BY <1>7 DEF Suspend, Begins, Only
<1>8. ASSUME NEW c \in Commits, Resume(c), Begins(c, "resume", FALSE, "check")
      PROVE  OneRestore'
  BY <1>8 DEF Resume, Begins, Only, NotSaved
<1>9. ASSUME NEW c \in Commits, Restore, Begins(c, "restore", FALSE, "copied"),
             locks' = Detector, det' = [det EXCEPT !.at = "restore"]
      PROVE  OneRestore'
  BY <1>9 DEF Restore, Begins, Only
<1>. QED
  BY <1>1, <1>2, <1>3, <1>4, <1>5, <1>6, <1>7, <1>8, <1>9, StepForms

(* The state that a suspend saves.                                         *)
LEMMA SavedStep == TypeOK /\ SavedWhile /\ OneBefore /\ [Next]_vars => SavedWhile'
<1>. SUFFICES ASSUME TypeOK, SavedWhile, OneBefore, [Next]_vars PROVE SavedWhile'
  OBVIOUS
<1>. USE TypeSlots, CommitAssumption DEF SavedWhile, OneBefore, Tail
<1>1. CASE Rest
  BY <1>1 DEF Rest, Cancel, Detect, PutSink, ForgetSink, CreateSink, Plug, Unplug, vars, Restore,
     NoDetection
<1>2. ASSUME NEW c \in Commits, Moves(c) PROVE SavedWhile'
  BY <1>2 DEF Moves, Only, Same
<1>3. ASSUME NEW c \in Commits, Swap(c), Only(c) PROVE SavedWhile'
  BY <1>3 DEF Swap, Only, At, InTail
<1>4. ASSUME NEW c \in Commits, NEW ok \in BOOLEAN, Ends(c, ok) PROVE SavedWhile'
  BY <1>4 DEF Ends, Ended, Only, Idle, NoDetection
<1>5. ASSUME NEW c \in Commits, Save(c), Only(c), slot'[c].kind = slot[c].kind,
             slot'[c].at = "copied"
      PROVE  SavedWhile'
  BY <1>5 DEF Save, Only, At
<1>6. ASSUME NEW c \in Commits, UserCommit(c), NEW k \in {"modeset", "flip"},
             NEW nb \in BOOLEAN, Begins(c, k, nb, "copied")
      PROVE  SavedWhile'
  BY <1>6 DEF UserCommit, Begins, Only
<1>7. ASSUME NEW c \in Commits, Suspend(c), Begins(c, "suspend", FALSE, "save")
      PROVE  SavedWhile'
  BY <1>7 DEF Suspend, Begins, Only
<1>8. ASSUME NEW c \in Commits, Resume(c), Begins(c, "resume", FALSE, "check")
      PROVE  SavedWhile'
  BY <1>8 DEF Resume, Begins, Only, NotSaved
<1>9. ASSUME NEW c \in Commits, Restore, Begins(c, "restore", FALSE, "copied"),
             locks' = Detector, det' = [det EXCEPT !.at = "restore"]
      PROVE  SavedWhile'
  BY <1>9 DEF Restore, Begins, Only
<1>. QED
  BY <1>1, <1>2, <1>3, <1>4, <1>5, <1>6, <1>7, <1>8, <1>9, StepForms

(* What a detection knows while it runs.                                    *)
LEMMA DetectingStep == TypeOK /\ Detecting /\ [Next]_vars => Detecting'
<1>. SUFFICES ASSUME TypeOK, Detecting, [Next]_vars PROVE Detecting'
  OBVIOUS
<1>. USE DEF Detecting, memory, hardware
<1>1. det \in [at : {"idle", "put", "null", "create", "lock", "restore"},
             found : {"nothing", "this", "another"}, plugged : BOOLEAN]
  BY DEF TypeOK
<1>2. ASSUME UNCHANGED <<sink, made, mon>>, det' \in {det, NoDetection} PROVE Detecting'
  BY <1>2 DEF NoDetection
<1>3. ASSUME NEW c \in Commits, CommitStep(c) PROVE Detecting'
  <2>1. ASSUME NEW ok, Ended(c, ok) PROVE det' \in {det, NoDetection}
    BY <2>1 DEF Ended
  <2>2. UNCHANGED <<sink, made, mon>> /\ det' \in {det, NoDetection}
    BY <1>3, <2>1 DEF CommitStep, Copy, Abort, Swap, Enable, Compare, Assign, Record, Clear,
       Flush, Done, Save
  <2>. QED
    BY <1>2, <2>2
<1>4. ASSUME NEW c \in Commits, UserCommit(c) \/ Suspend(c) \/ Resume(c) PROVE Detecting'
  BY <1>2, <1>4 DEF UserCommit, Suspend, Resume
<1>5. CASE Vblank \/ Cancel \/ UNCHANGED vars
  BY <1>2, <1>5 DEF Vblank, Cancel, vars
<1>6. CASE Detect
  BY <1>6 DEF Detect, NoDetection
<1>7. CASE PutSink
  BY <1>1, <1>7 DEF PutSink
<1>8. CASE ForgetSink
  BY <1>1, <1>8 DEF ForgetSink, NoDetection
<1>9. CASE CreateSink
  BY <1>1, <1>9 DEF CreateSink, NoDetection
<1>10. CASE Restore
  <2>1. det.at = "lock" /\ UNCHANGED <<sink, made, mon>>
    BY <1>10 DEF Restore
  <2>2. det' = NoDetection \/ det' = [det EXCEPT !.at = "restore"]
    BY <1>10 DEF Restore
  <2>3. det'.at # "create" /\ (det'.found = "this" => det.found = "this")
    BY <1>1, <2>2 DEF NoDetection
  <2>. QED
    BY <2>1, <2>3
<1>11. CASE Plug
  BY <1>11 DEF Plug
<1>12. CASE Unplug
  BY <1>1, <1>12 DEF Unplug
<1>. QED
  BY <1>3, <1>4, <1>5, <1>6, <1>7, <1>8, <1>9, <1>10, <1>11, <1>12 DEF Next, WorkStep

LEMMA ProtocolStep == TypeOK /\ Protocol /\ [Next]_vars => Protocol'
BY OneBeforeStep, OneTailStep, OneRestoreStep, SavedStep, DetectingStep DEF Protocol
-------------------------------------------------------------------------------
(* The references a sink has, pointer by pointer.                           *)
N(b) == IF b THEN 1 ELSE 0
ConnHolds(s) == sink = s /\ det.at # "null"
Replacing == \E c \in Commits : slot[c].at \in {"assign", "get", "clear"}
CrtcHolds(s) == crtc.sink = s /\ ~Replacing
SlotHolds(c, s) == slot[c].sink = s /\ slot[c].at \notin {"idle", "save", "copied"}
SavedHolds(s) == saved.sink = s /\ saved.held
Held(s) == {c \in Commits : SlotHolds(c, s)}

LEMMA HoldersAre ==
  ASSUME NEW s
  PROVE  Holders(s) = N(ConnHolds(s)) + N(CrtcHolds(s)) + Cardinality(Held(s)) + N(SavedHolds(s))
BY DEF Holders, N, ConnHolds, CrtcHolds, Replacing, SavedHolds, Held, SlotHolds

(* Held is finite, and counts every slot that holds the sink.               *)
LEMMA HeldNat ==
  ASSUME NEW s
  PROVE  /\ IsFiniteSet(Held(s)) /\ Cardinality(Held(s)) \in Nat
         /\ \A c \in Commits : SlotHolds(c, s) => Cardinality(Held(s)) > 0
<1>1. IsFiniteSet(Held(s)) /\ Cardinality(Held(s)) \in Nat
  <2>1. Held(s) \in SUBSET Commits
    BY DEF Held
  <2>. QED
    BY <2>1, FS_Subset, FS_CardinalityType, CommitAssumption
<1>2. ASSUME NEW c \in Commits, SlotHolds(c, s) PROVE Cardinality(Held(s)) > 0
  <2>1. c \in Held(s)
    BY <1>2 DEF Held
  <2>2. Cardinality(Held(s) \ {c}) = Cardinality(Held(s)) - 1 /\ IsFiniteSet(Held(s) \ {c})
    BY <1>1, <2>1, FS_RemoveElement
  <2>3. Cardinality(Held(s) \ {c}) \in Nat
    BY <2>2, FS_CardinalityType
  <2>. QED
    BY <1>1, <2>2, <2>3
<1>. QED
  BY <1>1, <1>2

(* When one slot changes, so does at most its own reference.                *)
LEMMA HeldMoves ==
  ASSUME NEW c \in Commits, Only(c), NEW s
  PROVE  Cardinality(Held(s)') + N(SlotHolds(c, s)) = Cardinality(Held(s)) + N(SlotHolds(c, s)')
<1>. DEFINE R == Held(s) \ {c}
<1>1. IsFiniteSet(Held(s)) /\ Cardinality(Held(s)) \in Nat
  BY HeldNat
<1>2. /\ IsFiniteSet(R)
      /\ Cardinality(R) = IF c \in Held(s) THEN Cardinality(Held(s)) - 1 ELSE Cardinality(Held(s))
  BY <1>1, FS_RemoveElement
<1>3. Cardinality(R \cup {c}) = Cardinality(R) + 1
  BY <1>2, FS_AddElement
<1>4. (c \in Held(s) <=> SlotHolds(c, s)) /\ (c \in Held(s)' <=> SlotHolds(c, s)')
  BY DEF Held
<1>5. Held(s)' = IF SlotHolds(c, s)' THEN R \cup {c} ELSE R
  <2>1. \A d \in Commits : d # c => (SlotHolds(d, s)' <=> SlotHolds(d, s))
    BY DEF SlotHolds, Only
  <2>. QED
    BY <2>1 DEF Held
<1>. HIDE DEF R
<1>. QED
  BY <1>1, <1>2, <1>3, <1>4, <1>5 DEF N

(* The books of one sink balance when its count changes by as much as the   *)
(* pointers that hold it, in a step of one slot and in a step of none.      *)
LEMMA Balance ==
  ASSUME TypeOK, NEW c \in Commits, Only(c), NEW s \in Sinks, count[s] = Holders(s),
         count'[s] \in Nat,
         count'[s] + N(ConnHolds(s)) + N(CrtcHolds(s)) + N(SlotHolds(c, s)) + N(SavedHolds(s))
           = count[s] + N(ConnHolds(s)') + N(CrtcHolds(s)') + N(SlotHolds(c, s)')
             + N(SavedHolds(s)')
  PROVE  count'[s] = Holders(s)'
<1>1. Holders(s)' = N(ConnHolds(s)') + N(CrtcHolds(s)') + Cardinality(Held(s)') + N(SavedHolds(s)')
  BY HoldersAre DEF Holders, N, ConnHolds, CrtcHolds, Replacing, SavedHolds, Held, SlotHolds
<1>2. Holders(s) = N(ConnHolds(s)) + N(CrtcHolds(s)) + Cardinality(Held(s)) + N(SavedHolds(s))
  BY HoldersAre
<1>3. Cardinality(Held(s)') + N(SlotHolds(c, s)) = Cardinality(Held(s)) + N(SlotHolds(c, s)')
  BY HeldMoves
<1>4. Cardinality(Held(s)) \in Nat /\ count[s] \in Nat
  BY HeldNat DEF TypeOK
<1>5. Cardinality(Held(s)') = Cardinality(Held(s)) + N(SlotHolds(c, s)') - N(SlotHolds(c, s))
  <2>1. Cardinality(Held(s)') \in Int
    <3>1. IsFiniteSet(Held(s)')
      <4>1. Held(s)' \in SUBSET Commits
        BY DEF Held
      <4>. QED
        BY <4>1, FS_Subset, CommitAssumption
    <3>. QED
      BY <3>1, FS_CardinalityType
  <2>. QED
    BY <1>3, <1>4, <2>1 DEF N
<1>. QED
  BY <1>1, <1>2, <1>4, <1>5 DEF N

LEMMA BalanceAtRest ==
  ASSUME TypeOK, UNCHANGED slot, NEW s \in Sinks, count[s] = Holders(s), count'[s] \in Nat,
         count'[s] + N(ConnHolds(s)) + N(CrtcHolds(s)) + N(SavedHolds(s))
           = count[s] + N(ConnHolds(s)') + N(CrtcHolds(s)') + N(SavedHolds(s)')
  PROVE  count'[s] = Holders(s)'
<1>1. Holders(s)' = N(ConnHolds(s)') + N(CrtcHolds(s)') + Cardinality(Held(s)') + N(SavedHolds(s)')
  BY DEF Holders, N, ConnHolds, CrtcHolds, Replacing, SavedHolds, Held, SlotHolds
<1>2. Holders(s) = N(ConnHolds(s)) + N(CrtcHolds(s)) + Cardinality(Held(s)) + N(SavedHolds(s))
  BY HoldersAre
<1>3. Held(s)' = Held(s)
  BY DEF Held, SlotHolds
<1>4. Cardinality(Held(s)) \in Nat /\ count[s] \in Nat
  BY HeldNat DEF TypeOK
<1>. QED
  BY <1>1, <1>2, <1>3, <1>4 DEF N

(* A pointer that holds a sink is counted.                                  *)
LEMMA HoldsCounted ==
  ASSUME NEW s \in Sinks, count[s] = Holders(s)
  PROVE  /\ ConnHolds(s) \/ CrtcHolds(s) \/ SavedHolds(s) => count[s] > 0
         /\ \A c \in Commits : SlotHolds(c, s) => count[s] > 0
<1>1. count[s] = N(ConnHolds(s)) + N(CrtcHolds(s)) + Cardinality(Held(s)) + N(SavedHolds(s))
  BY HoldersAre
<1>2. Cardinality(Held(s)) \in Nat
  BY HeldNat
<1>3. \A c \in Commits : SlotHolds(c, s) => Cardinality(Held(s)) > 0
  BY HeldNat
<1>. QED
  BY <1>1, <1>2, <1>3 DEF N

(* Whether the state of the CRTC is being replaced is for its tail to say.  *)
LEMMA ReplacingMoves ==
  ASSUME NEW c \in Commits, Only(c), OneTail, Tail(c)
  PROVE  /\ Replacing <=> slot[c].at \in {"assign", "get", "clear"}
         /\ Replacing' <=> slot'[c].at \in {"assign", "get", "clear"}
BY DEF Replacing, Only, OneTail, Tail

LEMMA ReplacingStays ==
  ASSUME NEW c \in Commits, Only(c), slot[c].at \notin {"assign", "get", "clear"},
         slot'[c].at \notin {"assign", "get", "clear"}
  PROVE  Replacing' <=> Replacing
BY DEF Replacing, Only

(* The steps that take or put no reference and move none.                   *)
LEMMA RefsQuiet ==
  ASSUME TypeOK, Protocol, NEW s \in Sinks, count[s] = Holders(s), [Next]_vars,
         \/ \E c \in Commits : UserCommit(c) \/ Suspend(c) \/ Enable(c) \/ Flush(c)
         \/ Vblank \/ Cancel \/ Detect \/ Restore \/ Plug \/ Unplug \/ UNCHANGED vars
  PROVE  count'[s] = Holders(s)'
<1>. USE DEF memory, hardware
<1>0. count'[s] \in Nat
  BY TypeStep DEF TypeOK
<1>1. ASSUME NEW c \in Commits, UNCHANGED <<count, sink, crtc>>, SavedHolds(s)' <=> SavedHolds(s),
             ConnHolds(s)' <=> ConnHolds(s), Only(c), SlotHolds(c, s)' <=> SlotHolds(c, s),
             slot[c].at \notin {"assign", "get", "clear"},
             slot'[c].at \notin {"assign", "get", "clear"}
      PROVE  count'[s] = Holders(s)'
  <2>1. CrtcHolds(s)' <=> CrtcHolds(s)
    BY <1>1, ReplacingStays DEF CrtcHolds
  <2>. QED
    BY <1>0, <1>1, <2>1, Balance DEF N
<1>2. ASSUME UNCHANGED <<count, sink, crtc, slot, saved>>, ConnHolds(s)' <=> ConnHolds(s)
      PROVE  count'[s] = Holders(s)'
  BY <1>0, <1>2, BalanceAtRest DEF N, CrtcHolds, SavedHolds, Replacing
<1>3. ASSUME NEW c \in Commits, UserCommit(c) PROVE count'[s] = Holders(s)'
  <2>1. PICK k \in Kinds, nb \in BOOLEAN, a \in BOOLEAN : TakeState(c, k, nb, a)
    BY <1>3 DEF UserCommit, Kinds
  <2>. QED
    BY <1>1, <1>3, <2>1, TakeFacts DEF UserCommit, Only, SlotHolds, SavedHolds, ConnHolds
<1>4. ASSUME NEW c \in Commits, Suspend(c) PROVE count'[s] = Holders(s)'
  <2>1. ~saved.held
    BY <1>4 DEF Protocol, SavedWhile, Suspend
  <2>. QED
    BY <1>1, <1>4, <2>1, TakeFacts DEF Suspend, Kinds, Only, SlotHolds, SavedHolds, ConnHolds
<1>5. ASSUME NEW c \in Commits, Enable(c) \/ Flush(c) PROVE count'[s] = Holders(s)'
  <2>1. Moves(c)
    BY <1>5, MoveFacts
  <2>2. /\ slot[c].at \in {"tail", "planes"}
        /\ slot'[c].at \in {"compare", "planes", "flip", "done"}
    <3>1. slot \in [Commits -> SlotStates]
      BY TypeSlots
    <3>. QED
      BY <1>5, <3>1 DEF Enable, Flush, At, Go, SlotStates
  <2>. QED
    BY <1>1, <1>5, <2>1, <2>2 DEF Enable, Flush, Moves, Same, SlotHolds, ConnHolds, SavedHolds
<1>6. CASE Vblank
  <2>1. PICK c \in Commits : slot[c].at = "flip" /\ Go(c, "done")
    BY <1>6 DEF Vblank, At
  <2>. QED
    BY <1>1, <1>6, <2>1, GoFacts DEF Vblank, Only, Steps, SlotHolds, ConnHolds, SavedHolds
<1>7. CASE Cancel \/ Plug \/ UNCHANGED vars
  BY <1>2, <1>7 DEF Cancel, Plug, vars, ConnHolds
<1>8. CASE Detect
  BY <1>2, <1>8 DEF Detect, ConnHolds, NoDetection
<1>9. CASE Unplug
  <2>1. det'.at = det.at
    BY <1>9 DEF Unplug, TypeOK
  <2>. QED
    BY <1>2, <1>9, <2>1 DEF Unplug, ConnHolds
<1>10. CASE Restore
  <2>1. ConnHolds(s)' <=> ConnHolds(s)
    <3>1. det.at = "lock" /\ (det' = NoDetection \/ det' = [det EXCEPT !.at = "restore"])
      BY <1>10 DEF Restore
    <3>2. det'.at # "null" /\ sink' = sink
      BY <1>10, <3>1 DEF Restore, NoDetection, TypeOK
    <3>. QED
      BY <3>1, <3>2 DEF ConnHolds
  <2>2. UNCHANGED <<count, sink, crtc, saved>>
    BY <1>10 DEF Restore
  <2>3. ASSUME NEW c \in Commits, TakeState(c, "restore", FALSE, crtc.active)
        PROVE  count'[s] = Holders(s)'
    <3>1. crtc.active \in BOOLEAN
      BY DEF TypeOK
    <3>2. Only(c) /\ slot[c].at = "idle" /\ slot'[c].at = "copied"
      BY <2>3, <3>1, TakeFacts DEF Kinds, Only
    <3>. QED
      BY <1>1, <2>1, <2>2, <3>2 DEF SlotHolds, SavedHolds
  <2>. QED
    BY <1>2, <1>10, <2>1, <2>2, <2>3 DEF Restore
<1>. QED
  BY <1>3, <1>4, <1>5, <1>6, <1>7, <1>8, <1>9, <1>10

(* The steps of a commit that take, put or move a reference.                *)
LEMMA RefsCommit ==
  ASSUME TypeOK, Protocol, NEW s \in Sinks, \A t \in Sinks : count[t] = Holders(t), [Next]_vars,
         ~raced', NEW c \in Commits,
         \/ Copy(c) \/ Abort(c) \/ Swap(c) \/ Compare(c) \/ Assign(c) \/ Record(c) \/ Clear(c)
         \/ Done(c) \/ Save(c)
  PROVE  count'[s] = Holders(s)'
<1>. USE CommitAssumption DEF At
<1>0. /\ count'[s] \in Nat /\ count[s] \in Nat /\ s # None
      /\ slot \in [Commits -> SlotStates] /\ saved.sink \in Pointers /\ crtc.sink \in Pointers
      /\ slot[c].sink \in Pointers /\ count[s] = Holders(s)
  BY TypeStep, TypeSlots DEF TypeOK, Pointers, SlotStates
<1>1. CASE Copy(c)
  <2>1. Moves(c) /\ slot[c].at = "copied" /\ slot'[c].at = "check"
    BY <1>0, <1>1, MoveFacts, GoFacts DEF Copy, Steps
  <2>2. Replacing' <=> Replacing
    BY <2>1, ReplacingStays DEF Moves
  <2>3. count'[s] = count[s] + IF s = slot[c].sink THEN 1 ELSE 0
    BY <1>0, <1>1, GetFacts DEF Copy
  <2>4. UNCHANGED <<sink, crtc, saved, det>> /\ slot'[c].sink = slot[c].sink /\ Only(c)
    BY <1>1, <2>1 DEF Copy, Moves, Same
  <2>. QED
    BY <1>0, <2>1, <2>2, <2>3, <2>4, Balance
       DEF N, ConnHolds, CrtcHolds, SlotHolds, SavedHolds
<1>2. CASE Abort(c)
  <2>1. CASE slot[c].kind = "suspend" /\ saved.held
    <3>1. Put(saved.sink) /\ saved' = NotSaved /\ UNCHANGED <<sink, crtc, slot, det>>
      BY <1>2, <2>1 DEF Abort
    <3>2. saved.sink = s => count[s] > 0
      BY <1>0, <2>1, HoldsCounted DEF SavedHolds
    <3>3. saved.sink # None => count[saved.sink] > 0
      BY <1>0, <2>1, HoldsCounted DEF SavedHolds, Pointers
    <3>4. count'[s] = count[s] - IF s = saved.sink THEN 1 ELSE 0
      BY <1>0, <3>1, <3>3, PutFacts
    <3>5. /\ ConnHolds(s)' <=> ConnHolds(s)
          /\ CrtcHolds(s)' <=> CrtcHolds(s)
          /\ SavedHolds(s) <=> saved.sink = s
          /\ ~SavedHolds(s)'
      BY <2>1, <3>1 DEF ConnHolds, CrtcHolds, Replacing, SavedHolds, NotSaved
    <3>. QED
      BY <1>0, <3>1, <3>4, <3>5, BalanceAtRest DEF N
  <2>2. CASE ~(slot[c].kind = "suspend" /\ saved.held)
    <3>1. Put(slot[c].sink) /\ Ended(c, FALSE) /\ UNCHANGED <<sink, crtc, saved>>
          /\ slot[c].at = "check"
      BY <1>2, <2>2 DEF Abort
    <3>2. \A u \in Sinks : slot[c].sink = u => SlotHolds(c, u)
      BY <3>1 DEF SlotHolds
    <3>3. slot[c].sink # None => count[slot[c].sink] > 0
      BY <1>0, <3>2, HoldsCounted DEF Pointers
    <3>4. count'[s] = count[s] - IF s = slot[c].sink THEN 1 ELSE 0
      BY <1>0, <3>1, <3>3, PutFacts
    <3>5. Only(c) /\ slot'[c] = Idle
      BY <3>1, EndedFacts DEF Only
    <3>6. (Replacing' <=> Replacing) /\ ~SlotHolds(c, s)'
      BY <3>1, <3>5, ReplacingStays DEF Idle, SlotHolds
    <3>7. ConnHolds(s)' <=> ConnHolds(s)
      BY <3>1 DEF ConnHolds, Ended, Protocol, OneRestore, NoDetection
    <3>. QED
      BY <1>0, <3>1, <3>2, <3>4, <3>5, <3>6, <3>7, Balance DEF N, CrtcHolds, SavedHolds, SlotHolds
  <2>. QED
    BY <2>1, <2>2
<1>3. CASE Swap(c)
  <2>1. Only(c) /\ slot'[c].sink = crtc.sink /\ slot'[c].at = "tail" /\ slot[c].at = "check"
        /\ crtc'.sink = slot[c].sink
    <3>1. crtc.active \in BOOLEAN
      BY DEF TypeOK
    <3>2. [at |-> "tail", kind |-> slot[c].kind, nonblock |-> FALSE, sink |-> crtc.sink,
           active |-> crtc.active] \in SlotStates
      BY <1>0, <3>1 DEF SlotStates, Steps
    <3>. QED
      BY <1>3, <3>2, EntryFacts DEF Swap, Only
  <2>2. ~Replacing /\ ~Replacing'
    BY <1>3, <2>1 DEF Swap, InTail, Replacing, Only
  <2>3. UNCHANGED <<count, sink, saved, det>>
    BY <1>3 DEF Swap, memory
  <2>. QED
    BY <1>0, <2>1, <2>2, <2>3, Balance DEF N, ConnHolds, CrtcHolds, SlotHolds, SavedHolds
<1>4. CASE Compare(c)
  <2>1. Moves(c) /\ slot[c].at = "compare" /\ slot'[c].at \in {"assign", "clear", "planes"}
    BY <1>0, <1>4, MoveFacts, GoFacts DEF Compare, Steps
  <2>2. ~Replacing /\ (Replacing' <=> slot'[c].at \in {"assign", "clear"})
    BY <2>1, ReplacingMoves DEF Moves, Tail, Protocol
  <2>3. UNCHANGED <<sink, saved, crtc, det>> /\ Only(c) /\ slot'[c].sink = slot[c].sink
    BY <1>4, <2>1 DEF Compare, Moves, Same
  <2>4. IF slot'[c].at = "planes" THEN UNCHANGED count ELSE Put(crtc.sink)
    BY <1>0, <1>4, GoFacts DEF Compare, Steps
  <2>5. crtc.sink # None => count[crtc.sink] > 0
    BY <1>0, <2>2, HoldsCounted DEF Pointers, CrtcHolds
  <2>6. count'[s] = count[s] - IF s = crtc.sink /\ slot'[c].at # "planes" THEN 1 ELSE 0
    BY <1>0, <2>4, <2>5, PutFacts
  <2>. QED
    BY <1>0, <2>1, <2>2, <2>3, <2>6, Balance DEF N, ConnHolds, CrtcHolds, SlotHolds, SavedHolds
<1>5. CASE Assign(c) \/ Clear(c)
  <2>1. Moves(c) /\ slot[c].at \in {"assign", "clear"}
        /\ slot'[c].at = (IF slot[c].at = "assign" THEN "get" ELSE "planes")
    BY <1>0, <1>5, MoveFacts, GoFacts DEF Assign, Clear, Steps
  <2>2. Replacing /\ (Replacing' <=> slot[c].at = "assign")
    BY <2>1, ReplacingMoves DEF Moves, Tail, Protocol
  <2>3. UNCHANGED <<count, sink, saved, det>> /\ Only(c) /\ slot'[c].sink = slot[c].sink
    BY <1>5, <2>1 DEF Assign, Clear, Moves, Same, memory
  <2>4. slot[c].at = "clear" => crtc'.sink = None
    BY <1>5 DEF Assign, Clear, TypeOK
  <2>. QED
    BY <1>0, <2>1, <2>2, <2>3, <2>4, Balance DEF N, ConnHolds, CrtcHolds, SlotHolds, SavedHolds
<1>6. CASE Record(c)
  <2>1. Moves(c) /\ slot[c].at = "get" /\ slot'[c].at = "planes"
    BY <1>0, <1>6, MoveFacts, GoFacts DEF Record, Steps
  <2>2. Replacing /\ ~Replacing'
    BY <2>1, ReplacingMoves DEF Moves, Tail, Protocol
  <2>3. UNCHANGED <<sink, crtc, saved, det>> /\ Only(c) /\ slot'[c].sink = slot[c].sink
    BY <1>6, <2>1 DEF Record, Moves, Same
  <2>4. count'[s] = count[s] + IF s = crtc.sink THEN 1 ELSE 0
    BY <1>0, <1>6, GetFacts DEF Record
  <2>. QED
    BY <1>0, <2>1, <2>2, <2>3, <2>4, Balance DEF N, ConnHolds, CrtcHolds, SlotHolds, SavedHolds
<1>7. CASE Done(c)
  <2>1. Put(slot[c].sink) /\ Ended(c, TRUE) /\ UNCHANGED <<sink, crtc, saved>>
        /\ slot[c].at = "done"
    BY <1>7 DEF Done
  <2>2. \A u \in Sinks : slot[c].sink = u => SlotHolds(c, u)
    BY <2>1 DEF SlotHolds
  <2>3. slot[c].sink # None => count[slot[c].sink] > 0
    BY <1>0, <2>2, HoldsCounted DEF Pointers
  <2>4. count'[s] = count[s] - IF s = slot[c].sink THEN 1 ELSE 0
    BY <1>0, <2>1, <2>3, PutFacts
  <2>5. Only(c) /\ slot'[c] = Idle
    BY <2>1, EndedFacts DEF Only
  <2>6. (Replacing' <=> Replacing) /\ ~SlotHolds(c, s)'
    BY <2>1, <2>5, ReplacingStays DEF Idle, SlotHolds
  <2>7. ConnHolds(s)' <=> ConnHolds(s)
    BY <2>1 DEF ConnHolds, Ended, Protocol, OneRestore, NoDetection
  <2>. QED
    BY <1>0, <2>1, <2>2, <2>4, <2>5, <2>6, <2>7, Balance DEF N, CrtcHolds, SavedHolds, SlotHolds
<1>8. CASE Save(c)
  <2>1. Only(c) /\ slot[c].at = "save" /\ slot'[c].at = "copied"
    <3>1. slot' = [slot EXCEPT ![c] = [slot[c] EXCEPT !.at = "copied", !.sink = crtc.sink]]
      BY <1>8 DEF Save
    <3>2. [slot[c] EXCEPT !.at = "copied", !.sink = crtc.sink] \in SlotStates
      BY <1>0 DEF SlotStates, Steps
    <3>. QED
      BY <1>0, <1>8, <3>1, <3>2, EntryFacts DEF Save, Only, SlotStates
  <2>2. ~saved.held /\ saved'.held /\ saved'.sink = saved.sink
    BY <1>8, <2>1 DEF Save, Protocol, SavedWhile, TypeOK
  <2>3. count'[s] = count[s] + IF s = saved.sink THEN 1 ELSE 0
    BY <1>0, <1>8, GetFacts DEF Save
  <2>4. (Replacing' <=> Replacing) /\ UNCHANGED <<sink, crtc, det>>
    BY <1>8, <2>1, ReplacingStays DEF Save
  <2>. QED
    BY <1>0, <2>1, <2>2, <2>3, <2>4, Balance DEF N, ConnHolds, CrtcHolds, SlotHolds, SavedHolds
<1>. QED
  BY <1>1, <1>2, <1>3, <1>4, <1>5, <1>6, <1>7, <1>8

(* The resume, and the steps of a detection that put or make a sink.        *)
LEMMA RefsDetection ==
  ASSUME TypeOK, Protocol, NEW s \in Sinks, \A t \in Sinks : count[t] = Holders(t), [Next]_vars,
         PutSink \/ ForgetSink \/ CreateSink \/ \E c \in Commits : Resume(c)
  PROVE  count'[s] = Holders(s)'
<1>. USE CommitAssumption DEF memory, hardware
<1>0. /\ count'[s] \in Nat /\ count[s] \in Nat /\ s # None /\ count[s] = Holders(s)
      /\ sink \in Pointers /\ count \in [Sinks -> Nat]
  BY TypeStep DEF TypeOK, Pointers
<1>1. CASE PutSink
  <2>1. det.at = "put" /\ det'.at = "null" /\ Put(sink) /\ UNCHANGED <<sink, crtc, slot, saved>>
    BY <1>1 DEF PutSink, TypeOK
  <2>2. sink # None => count[sink] > 0
    BY <1>0, <2>1, HoldsCounted DEF Pointers, ConnHolds
  <2>3. count'[s] = count[s] - IF s = sink THEN 1 ELSE 0
    BY <1>0, <2>1, <2>2, PutFacts
  <2>. QED
    BY <1>0, <2>1, <2>3, BalanceAtRest DEF N, ConnHolds, CrtcHolds, Replacing, SavedHolds
<1>2. CASE ForgetSink
  <2>1. det.at = "null" /\ sink' = None /\ UNCHANGED <<count, crtc, slot, saved>>
    BY <1>2 DEF ForgetSink
  <2>. QED
    BY <1>0, <2>1, BalanceAtRest DEF N, ConnHolds, CrtcHolds, Replacing, SavedHolds
<1>3. CASE CreateSink
  <2>1. PICK a \in Sinks : count[a] = 0 /\ sink' = a /\ count' = [count EXCEPT ![a] = 1]
    BY <1>3 DEF CreateSink
  <2>2. det.at = "create" /\ sink = None /\ UNCHANGED <<crtc, slot, saved>>
    BY <1>3 DEF CreateSink, Protocol, Detecting
  <2>3. det'.at # "null"
    BY <1>3 DEF CreateSink, NoDetection, TypeOK
  <2>. QED
    BY <1>0, <2>1, <2>2, <2>3, BalanceAtRest DEF N, ConnHolds, CrtcHolds, Replacing, SavedHolds
<1>4. ASSUME NEW c \in Commits, Resume(c) PROVE count'[s] = Holders(s)'
  <2>1. saved.held /\ UNCHANGED <<count, sink, crtc, det>> /\ saved' = NotSaved
    BY <1>4 DEF Resume, Protocol, SavedWhile
  <2>2. Only(c) /\ slot[c].at = "idle" /\ slot'[c].at = "check" /\ slot'[c].sink = saved.sink
    <3>1. saved.sink \in Pointers /\ saved.active \in BOOLEAN
      BY DEF TypeOK, Pointers
    <3>2. [at |-> "check", kind |-> "resume", nonblock |-> FALSE, sink |-> saved.sink,
           active |-> saved.active] \in SlotStates
      BY <3>1 DEF SlotStates, Steps, Kinds
    <3>. QED
      BY <1>4, <3>2, EntryFacts DEF Resume, Only, At
  <2>3. Replacing' <=> Replacing
    BY <2>2, ReplacingStays
  <2>. QED
    BY <1>0, <2>1, <2>2, <2>3, Balance
       DEF N, ConnHolds, CrtcHolds, SlotHolds, SavedHolds, NotSaved
<1>. QED
  BY <1>1, <1>2, <1>3, <1>4

LEMMA RefsStep == TypeOK /\ Protocol /\ SinkRefsExact /\ [Next]_vars => SinkRefsExact'
<1>. SUFFICES ASSUME TypeOK, Protocol, SinkRefsExact, [Next]_vars, ~raced', NEW s \in Sinks
             PROVE  count'[s] = Holders(s)'
  BY DEF SinkRefsExact
<1>1. ~raced
  BY DEF Next, vars
<1>2. \A t \in Sinks : count[t] = Holders(t)
  BY <1>1 DEF SinkRefsExact
<1>. QED
  BY <1>2, RefsQuiet, RefsCommit, RefsDetection DEF Next, CommitStep, WorkStep

-------------------------------------------------------------------------------
(* A commit that sets the mode and has not done it yet.                     *)
Pending == \E c \in Commits : slot[c].at = "tail" /\ slot[c].kind # "flip"
Flipping(c) == slot[c].at \in {"copied", "check"} /\ slot[c].kind = "flip"
Updating(c) == slot[c].at \in {"compare", "assign"}

(* Only a CRTC that is off lets its sink go for none, and a flip finds it on. *)
ActiveWhile ==
  /\ \A c \in Commits : slot[c].at = "clear" => ~crtc.active
  /\ \A c \in Commits : Flipping(c) => crtc.active

(* The screen was set up for the monitor that is plugged whenever the state *)
(* of the CRTC names its sink, is about to, or will when a flip's copy of it *)
(* is swapped in.                                                           *)
SetUp ==
  ~late /\ sink \in made =>
    /\ \A c \in Commits : Updating(c) /\ crtc.active => lit
    /\ ~Pending /\ crtc.active /\ crtc.sink = sink => lit
    /\ ~Pending /\ (\E c \in Commits : Flipping(c) /\ slot[c].sink = sink) => lit

LEMMA ActiveStep == TypeOK /\ Protocol /\ ActiveWhile /\ [Next]_vars => ActiveWhile'
<1>. SUFFICES ASSUME TypeOK, Protocol, ActiveWhile, [Next]_vars PROVE ActiveWhile'
  OBVIOUS
<1>. USE TypeSlots DEF ActiveWhile, Flipping, memory, hardware
<1>1. ASSUME NEW c \in Commits, Swap(c) PROVE ActiveWhile'
  <2>1. \A d \in Commits : slot[d].at # "clear"
    BY <1>1 DEF Swap, InTail, At
  <2>2. \A d \in Commits : Flipping(d) => d = c
    BY <1>1 DEF Swap, At, Protocol, OneBefore, Before
  <2>3. slot'[c].at = "tail" /\ \A d \in Commits : d # c => slot'[d] = slot[d]
    BY <1>1 DEF Swap, SlotStates
  <2>. QED
    BY <2>1, <2>2, <2>3
<1>2. ASSUME NEW c \in Commits, Compare(c) PROVE ActiveWhile'
  <2>1. slot'[c].at \in {"assign", "clear", "planes"} /\ (slot'[c].at = "clear" => ~crtc.active)
    BY <1>2, GoFacts DEF Compare, Steps
  <2>2. UNCHANGED crtc /\ Moves(c)
    BY <1>2, MoveFacts DEF Compare
  <2>. QED
    BY <2>1, <2>2 DEF Moves, Only
<1>3. ASSUME NEW c \in Commits, Assign(c) \/ Clear(c) PROVE ActiveWhile'
  <2>1. crtc'.active = crtc.active
    BY <1>3 DEF Assign, Clear, TypeOK
  <2>2. Moves(c) /\ slot'[c].at \in {"get", "planes"}
    BY <1>3, MoveFacts, GoFacts DEF Assign, Clear, Steps
  <2>. QED
    BY <2>1, <2>2 DEF Moves, Only
<1>4. ASSUME NEW c \in Commits, UserCommit(c) PROVE ActiveWhile'
  <2>1. PICK k \in {"modeset", "flip"}, nb \in BOOLEAN, a \in BOOLEAN :
          TakeState(c, k, nb, a) /\ (k = "flip" => crtc.active)
    BY <1>4 DEF UserCommit
  <2>2. UNCHANGED crtc
    BY <1>4 DEF UserCommit
  <2>. QED
    BY <2>1, <2>2, TakeFacts DEF Kinds
<1>5. ASSUME UNCHANGED crtc, NEW c \in Commits, Only(c), slot'[c].at # "clear",
             Flipping(c)' => Flipping(c)
      PROVE  ActiveWhile'
  BY <1>5 DEF Only
<1>6. ASSUME UNCHANGED <<crtc, slot>> PROVE ActiveWhile'
  BY <1>6
<1>7. ASSUME NEW c \in Commits, Copy(c) \/ Enable(c) \/ Record(c) \/ Flush(c) PROVE ActiveWhile'
  <2>1. Moves(c) /\ UNCHANGED crtc
    BY <1>7, MoveFacts DEF Copy, Enable, Record, Flush
  <2>2. slot'[c].at # "clear" /\ (slot'[c].at \in {"copied", "check"} => slot[c].at = "copied")
    BY <1>7, GoFacts DEF Copy, Enable, Record, Flush, At, Steps, SlotStates
  <2>. QED
    BY <1>5, <2>1, <2>2 DEF Moves, Same
<1>8. ASSUME NEW c \in Commits, Abort(c) \/ Done(c) PROVE ActiveWhile'
  <2>1. UNCHANGED crtc
    BY <1>8 DEF Abort, Done
  <2>2. UNCHANGED slot \/ \E ok \in BOOLEAN : Ended(c, ok)
    BY <1>8 DEF Abort, Done
  <2>. QED
    BY <1>5, <1>6, <2>1, <2>2, EndedFacts DEF Only, Idle
<1>9. ASSUME NEW c \in Commits, Save(c) PROVE ActiveWhile'
  <2>1. slot[c].kind = "suspend"
    BY <1>9 DEF Save, At, Protocol, SavedWhile
  <2>2. slot' = [slot EXCEPT ![c].at = "copied", ![c].sink = crtc.sink] /\ UNCHANGED crtc
    BY <1>9 DEF Save
  <2>. QED
    BY <2>1, <2>2 DEF SlotStates
<1>10. ASSUME NEW c \in Commits, Suspend(c) \/ Resume(c) PROVE ActiveWhile'
  <2>1. UNCHANGED crtc
    BY <1>10 DEF Suspend, Resume
  <2>2. CASE Suspend(c)
    BY <1>5, <2>1, <2>2, TakeFacts DEF Suspend, Only, Kinds
  <2>3. CASE Resume(c)
    <3>1. slot'[c].kind = "resume" /\ slot'[c].at = "check"
          /\ \A d \in Commits : d # c => slot'[d] = slot[d]
      BY <2>3 DEF Resume
    <3>. QED
      BY <2>1, <3>1
  <2>. QED
    BY <1>10, <2>2, <2>3
<1>11. CASE Vblank
  <2>1. PICK c \in Commits : slot[c].at = "flip" /\ Go(c, "done")
    BY <1>11 DEF Vblank, At
  <2>. QED
    BY <1>5, <1>11, <2>1, GoFacts DEF Vblank, Only, Steps
<1>12. CASE Restore
  <2>1. ASSUME NEW c \in Commits, TakeState(c, "restore", FALSE, crtc.active) PROVE ActiveWhile'
    <3>1. crtc.active \in BOOLEAN /\ UNCHANGED crtc
      BY <1>12 DEF TypeOK, Restore
    <3>. QED
      BY <1>5, <2>1, <3>1, TakeFacts DEF Only, Kinds
  <2>. QED
    BY <1>6, <1>12, <2>1 DEF Restore
<1>13. CASE Cancel \/ Detect \/ PutSink \/ ForgetSink \/ CreateSink \/ Plug \/ Unplug
            \/ UNCHANGED vars
  BY <1>6, <1>13 DEF Cancel, Detect, PutSink, ForgetSink, CreateSink, Plug, Unplug, vars
<1>. QED
  BY <1>1, <1>2, <1>3, <1>4, <1>7, <1>8, <1>9, <1>10, <1>11, <1>12, <1>13
     DEF Next, CommitStep, WorkStep

(* A commit that goes on, ends or begins something other than a flip leaves *)
(* this as it is, when it changes none of the pointers.                     *)
LEMMA SetUpStays ==
  ASSUME TypeOK, SetUp, NEW c \in Commits, Only(c),
         UNCHANGED <<made, crtc, lit, late>>, sink' = sink,
         slot'[c].kind = slot[c].kind \/ slot[c].at # "tail",
         slot'[c].at = "tail" <=> slot[c].at = "tail",
         Updating(c)' => Updating(c) \/ lit \/ ~crtc.active,
         Flipping(c)' => Flipping(c) /\ slot'[c].sink = slot[c].sink
  PROVE  SetUp'
<1>1. Pending' <=> Pending
  BY DEF Pending, Only
<1>. QED
  BY <1>1 DEF SetUp, Only, Updating, Flipping

LEMMA SetUpAtRest ==
  ASSUME TypeOK, SetUp, UNCHANGED <<made, crtc, slot, lit, late>>, sink' \in {sink, None}
  PROVE  SetUp'
<1>1. None \notin made'
  BY CommitAssumption DEF TypeOK
<1>. QED
  BY <1>1 DEF SetUp, Updating, Flipping, Pending

(* The steps of a commit.                                                   *)
LEMMA SetUpCommit ==
  ASSUME TypeOK, Protocol, ActiveWhile, SetUp, NEW c \in Commits, CommitStep(c)
  PROVE  SetUp'
<1>. USE TypeSlots DEF At, memory, hardware
<1>1. ASSUME Copy(c) \/ Compare(c) \/ Record(c) \/ Flush(c) PROVE SetUp'
  <2>1. Moves(c) /\ UNCHANGED <<made, crtc, lit, late, sink>>
    BY <1>1, MoveFacts DEF Copy, Compare, Record, Flush
  <2>2. /\ slot[c].at # "tail" /\ slot'[c].at # "tail"
        /\ Updating(c)' => Updating(c)
        /\ slot'[c].at \in {"copied", "check"} => slot[c].at = "copied"
    BY <1>1, GoFacts DEF Copy, Compare, Record, Flush, Steps, Updating, SlotStates
  <2>. QED
    BY <2>1, <2>2, SetUpStays DEF Moves, Same, Flipping
<1>2. CASE Abort(c) \/ Done(c)
  <2>1. UNCHANGED <<made, crtc, lit, late, sink>> /\ slot[c].at # "tail"
    BY <1>2 DEF Abort, Done
  <2>2. UNCHANGED slot \/ (Only(c) /\ slot'[c] = Idle)
    BY <1>2, EndedFacts DEF Abort, Done, Only
  <2>3. CASE UNCHANGED slot
    BY <2>1, <2>3, SetUpAtRest
  <2>4. CASE Only(c) /\ slot'[c] = Idle
    BY <2>1, <2>4, SetUpStays DEF Idle, Updating, Flipping
  <2>. QED
    BY <2>2, <2>3, <2>4
<1>3. CASE Save(c)
  <2>1. Only(c) /\ slot'[c].kind = "suspend" /\ slot'[c].at = "copied" /\ slot[c].at = "save"
    <3>1. slot' = [slot EXCEPT ![c] = [slot[c] EXCEPT !.at = "copied", !.sink = crtc.sink]]
      BY <1>3 DEF Save
    <3>2. crtc.sink \in Pointers /\ slot[c].kind = "suspend" /\ slot[c].at = "save"
      BY <1>3 DEF TypeOK, Pointers, Save, Protocol, SavedWhile
    <3>3. [slot[c] EXCEPT !.at = "copied", !.sink = crtc.sink] \in SlotStates
      BY <3>2 DEF SlotStates, Steps
    <3>. QED
      BY <3>1, <3>2, <3>3, EntryFacts DEF Only, SlotStates
  <2>2. UNCHANGED <<made, crtc, lit, late, sink>>
    BY <1>3 DEF Save
  <2>. QED
    BY <2>1, <2>2, SetUpStays DEF Updating, Flipping
<1>4. CASE Swap(c)
  <2>1. /\ slot[c].at = "check" /\ UNCHANGED <<made, lit, late, sink>>
        /\ crtc' = [sink |-> slot[c].sink, active |-> slot[c].active]
        /\ \A d \in Commits : slot[d].at \notin {"tail", "compare", "assign"}
    BY <1>4 DEF Swap, InTail
  <2>2. slot'[c].at = "tail" /\ slot'[c].kind = slot[c].kind
        /\ \A d \in Commits : d # c => slot'[d] = slot[d]
    BY <1>4 DEF Swap, SlotStates
  <2>3. \A d \in Commits : ~Updating(d)' /\ ~Flipping(d)'
    BY <2>1, <2>2 DEF Updating, Flipping, Protocol, OneBefore, Before
  <2>4. ~Pending /\ (Pending' <=> slot[c].kind # "flip")
    BY <2>1, <2>2 DEF Pending
  <2>5. crtc'.sink = slot[c].sink
    BY <2>1
  <2>. QED
    BY <2>1, <2>3, <2>4, <2>5 DEF SetUp, Flipping
<1>5. CASE Enable(c)
  <2>1. Moves(c) /\ slot[c].at = "tail" /\ UNCHANGED <<made, crtc, sink, mon>>
    BY <1>5, MoveFacts DEF Enable
  <2>2. CASE Modeset(c)
    <3>1. lit' = (crtc.active /\ mon) /\ slot'[c].at = "compare"
      BY <1>5, <2>2, GoFacts DEF Enable, Steps
    <3>2. sink \in made => mon
      BY DEF Protocol, Detecting
    <3>3. \A d \in Commits : Flipping(d)' => crtc.active
      BY <2>1, <3>1 DEF ActiveWhile, Flipping, Moves, Only
    <3>. QED
      BY <2>1, <3>1, <3>2, <3>3 DEF SetUp
  <2>3. CASE ~Modeset(c)
    <3>1. UNCHANGED <<lit, late>> /\ slot'[c].at = "planes" /\ slot[c].kind = "flip"
      BY <1>5, <2>3, GoFacts DEF Enable, Steps, Modeset
    <3>2. Pending' <=> Pending
      BY <2>1, <3>1 DEF Pending, Moves, Only, Same
    <3>3. \A d \in Commits : /\ Updating(d)' => Updating(d)
                             /\ Flipping(d)' => Flipping(d) /\ slot'[d].sink = slot[d].sink
      BY <2>1, <3>1 DEF Updating, Flipping, Moves, Only
    <3>. QED
      BY <2>1, <3>1, <3>2, <3>3 DEF SetUp
  <2>. QED
    BY <2>2, <2>3
<1>6. CASE Assign(c) \/ Clear(c)
  <2>1. /\ Moves(c) /\ slot[c].at \in {"assign", "clear"} /\ slot'[c].at \in {"get", "planes"}
        /\ UNCHANGED <<made, sink, lit, late>>
    BY <1>6, MoveFacts, GoFacts DEF Assign, Clear, Steps
  <2>2. crtc'.active = crtc.active
    BY <1>6 DEF Assign, Clear, TypeOK
  <2>3. Pending' <=> Pending
    BY <2>1 DEF Pending, Moves, Only, Same
  <2>4. \A d \in Commits : /\ Updating(d)' => Updating(d)
                           /\ Flipping(d)' => Flipping(d) /\ slot'[d].sink = slot[d].sink
    BY <2>1 DEF Updating, Flipping, Moves, Only
  <2>5. slot[c].at = "clear" => ~crtc.active
    BY DEF ActiveWhile
  <2>. QED
    BY <2>1, <2>2, <2>3, <2>4, <2>5 DEF SetUp, Updating
<1>. QED
  BY <1>1, <1>2, <1>3, <1>4, <1>5, <1>6 DEF CommitStep

(* A sink that is made is none the CRTC or a copy of its state names, or a  *)
(* get of its address is pending, or it is one a commit is about to record. *)
LEMMA SetUpCreate ==
  ASSUME TypeOK, Protocol, ActiveWhile, \A t \in Sinks : count[t] = Holders(t), CreateSink, ~raced'
  PROVE  SetUp'
<1>. USE DEF memory, hardware
<1>1. PICK s \in Sinks : count[s] = 0 /\ sink' = s /\ raced' = PendingGet(s)
  BY DEF CreateSink
<1>2. ~CrtcHolds(s) /\ \A c \in Commits : ~SlotHolds(c, s)
  BY <1>1, HoldsCounted
<1>3. ~PendingGet(s)
  BY <1>1, Zenon
<1>4. UNCHANGED <<slot, crtc>> /\ (late' = (late \/ \E c \in Commits : Updating(c)))
  BY DEF CreateSink, Updating
<1>5. late' \/ \A c \in Commits : ~Updating(c)
  BY <1>4, Zenon
<1>6. ~late' => ~(crtc.active /\ crtc.sink = s)
  BY <1>2, <1>3, <1>5 DEF CrtcHolds, Replacing, PendingGet, At, Updating, ActiveWhile
<1>7. \A c \in Commits : ~(Flipping(c) /\ slot[c].sink = s)
  BY <1>2, <1>3 DEF Flipping, SlotHolds, PendingGet, At
<1>. QED
  BY <1>1, <1>4, <1>5, <1>6, <1>7 DEF SetUp, Updating, Flipping

LEMMA SetUpStep ==
  TypeOK /\ Protocol /\ ActiveWhile /\ SinkRefsExact /\ (raced \/ SetUp) /\ [Next]_vars
    => raced' \/ SetUp'
<1>. SUFFICES ASSUME TypeOK, Protocol, ActiveWhile, SinkRefsExact, raced \/ SetUp, [Next]_vars,
                     ~raced'
             PROVE  SetUp'
  OBVIOUS
<1>. USE TypeSlots DEF memory, hardware
<1>1. ~raced
  BY DEF Next, vars
<1>2. SetUp /\ \A t \in Sinks : count[t] = Holders(t)
  BY <1>1 DEF SinkRefsExact
<1>3. ASSUME NEW c \in Commits, CommitStep(c) PROVE SetUp'
  BY <1>2, <1>3, SetUpCommit
<1>4. ASSUME NEW c \in Commits, UserCommit(c) PROVE SetUp'
  <2>1. PICK k \in {"modeset", "flip"}, nb \in BOOLEAN, a \in BOOLEAN :
          TakeState(c, k, nb, a) /\ (k = "flip" => crtc.active)
    BY <1>4 DEF UserCommit
  <2>2. UNCHANGED <<made, sink, lit, late, crtc>>
    BY <1>4 DEF UserCommit
  <2>3. Only(c) /\ slot[c].at = "idle" /\ slot'[c].at = "copied" /\ slot'[c].sink = crtc.sink
        /\ slot'[c].kind = k
    BY <2>1, TakeFacts DEF Kinds, Only
  <2>4. Pending' <=> Pending
    BY <2>3 DEF Pending, Only
  <2>5. \A d \in Commits : Updating(d)' => Updating(d)
    BY <2>3 DEF Updating, Only
  <2>6. \A d \in Commits : d # c /\ Flipping(d)' => Flipping(d) /\ slot'[d].sink = slot[d].sink
    BY <2>3 DEF Flipping, Only
  <2>7. Flipping(c)' => crtc.active
    BY <2>1, <2>3 DEF Flipping
  <2>. QED
    BY <1>2, <2>2, <2>3, <2>4, <2>5, <2>6, <2>7 DEF SetUp
<1>5. ASSUME NEW c \in Commits, Suspend(c) PROVE SetUp'
  <2>1. UNCHANGED <<made, sink, lit, late, crtc>>
    BY <1>5 DEF Suspend
  <2>2. Only(c) /\ slot[c].at = "idle" /\ slot'[c].at = "save"
    BY <1>5, TakeFacts DEF Suspend, Kinds, Only
  <2>. QED
    BY <1>2, <2>1, <2>2, SetUpStays DEF Updating, Flipping
<1>6. ASSUME NEW c \in Commits, Resume(c) PROVE SetUp'
  <2>1. UNCHANGED <<made, sink, lit, late, crtc>> /\ slot[c].at = "idle"
    BY <1>6 DEF Resume, At
  <2>2. Only(c) /\ slot'[c].at = "check" /\ slot'[c].kind = "resume"
    <3>1. saved.sink \in Pointers /\ saved.active \in BOOLEAN
      BY DEF TypeOK, Pointers
    <3>2. [at |-> "check", kind |-> "resume", nonblock |-> FALSE, sink |-> saved.sink,
           active |-> saved.active] \in SlotStates
      BY <3>1 DEF SlotStates, Steps, Kinds
    <3>. QED
      BY <1>6, <3>2, EntryFacts DEF Resume, Only
  <2>. QED
    BY <1>2, <2>1, <2>2, SetUpStays DEF Updating, Flipping
<1>7. CASE Vblank
  <2>1. PICK c \in Commits : slot[c].at = "flip" /\ Go(c, "done")
    BY <1>7 DEF Vblank, At
  <2>2. Only(c) /\ slot'[c].at = "done" /\ UNCHANGED <<made, sink, lit, late, crtc>>
    BY <1>7, <2>1, GoFacts DEF Vblank, Only, Steps
  <2>. QED
    BY <1>2, <2>1, <2>2, SetUpStays DEF Updating, Flipping
<1>8. CASE Restore
  <2>1. UNCHANGED <<made, sink, lit, late, crtc>>
    BY <1>8 DEF Restore
  <2>2. ASSUME NEW c \in Commits, TakeState(c, "restore", FALSE, crtc.active) PROVE SetUp'
    <3>1. crtc.active \in BOOLEAN
      BY DEF TypeOK
    <3>2. Only(c) /\ slot[c].at = "idle" /\ slot'[c].at = "copied" /\ slot'[c].kind = "restore"
      BY <2>2, <3>1, TakeFacts DEF Kinds, Only
    <3>. QED
      BY <1>2, <2>1, <3>2, SetUpStays DEF Updating, Flipping
  <2>. QED
    BY <1>2, <1>8, <2>1, <2>2, SetUpAtRest DEF Restore
<1>9. CASE Cancel \/ Detect \/ PutSink \/ ForgetSink \/ Plug \/ UNCHANGED vars
  BY <1>2, <1>9, SetUpAtRest DEF Cancel, Detect, PutSink, ForgetSink, Plug, vars
<1>10. CASE Unplug
  BY <1>10 DEF Unplug, SetUp
<1>11. CASE CreateSink
  BY <1>2, <1>11, SetUpCreate
<1>. QED
  BY <1>3, <1>4, <1>5, <1>6, <1>7, <1>8, <1>9, <1>10, <1>11 DEF Next, WorkStep

-------------------------------------------------------------------------------
(* What holds in every state.                                               *)
IInv == TypeOK /\ Protocol /\ ActiveWhile /\ SinkRefsExact /\ (raced \/ SetUp)

LEMMA InitInv == Init => IInv
<1>. SUFFICES ASSUME Init PROVE IInv
  OBVIOUS
<1>. USE CommitAssumption DEF Init
<1>1. TypeOK
  <2>1. FALSE \in BOOLEAN /\ None \in Pointers
    BY DEF Pointers
  <2>2. slot \in [Commits -> SlotStates]
    BY IdleType
  <2>3. NotSaved \in [held : BOOLEAN, sink : Pointers, active : BOOLEAN]
        /\ [sink |-> None, active |-> FALSE] \in [sink : Pointers, active : BOOLEAN]
    BY DEF NotSaved, Pointers
  <2>4. count \in [Sinks -> Nat] /\ made \in SUBSET Sinks /\ 0 \in 0..MaxMonitors
    OBVIOUS
  <2>. QED
    BY <2>1, <2>2, <2>3, <2>4, NoDetectionType, Zenon DEF TypeOK, SlotStates, Steps, Kinds, Pointers
<1>2. \A c \in Commits : slot[c].at = "idle" /\ slot[c].kind = "none" /\ slot[c].sink = None
  BY DEF Idle
<1>3. Protocol
  BY <1>2 DEF Protocol, OneBefore, OneTail, OneRestore, SavedWhile, Detecting, Before, Tail,
     NotSaved, NoDetection
<1>4. ActiveWhile /\ SetUp
  BY <1>2 DEF ActiveWhile, SetUp, Flipping
<1>5. SinkRefsExact
  <2>1. ASSUME NEW s \in Sinks PROVE count[s] = Holders(s)
    <3>1. Held(s) = {}
      BY <1>2 DEF Held, SlotHolds
    <3>2. Cardinality(Held(s)) = 0
      BY <3>1, FS_EmptySet
    <3>3. ~ConnHolds(s) /\ ~CrtcHolds(s) /\ ~SavedHolds(s)
      BY DEF ConnHolds, CrtcHolds, SavedHolds, NotSaved
    <3>. QED
      BY <3>2, <3>3, HoldersAre DEF N
  <2>. QED
    BY <2>1 DEF SinkRefsExact
<1>. QED
  BY <1>1, <1>3, <1>4, <1>5 DEF IInv

LEMMA Inductive == IInv /\ [Next]_vars => IInv'
<1>. SUFFICES ASSUME IInv, [Next]_vars PROVE IInv'
  OBVIOUS
<1>1. TypeOK'
  BY TypeStep DEF IInv
<1>2. Protocol'
  BY ProtocolStep DEF IInv
<1>3. ActiveWhile'
  BY ActiveStep DEF IInv
<1>4. SinkRefsExact'
  BY RefsStep DEF IInv
<1>5. raced' \/ SetUp'
  BY SetUpStep DEF IInv
<1>. QED
  BY <1>1, <1>2, <1>3, <1>4, <1>5 DEF IInv

LEMMA Invariance == Spec => []IInv
BY InitInv, Inductive, PTL DEF Spec

(* Every variable of the commits and detections stays in its range.         *)
THEOREM TypeCorrect == Spec => []TypeOK
<1>1. IInv => TypeOK
  BY DEF IInv
<1>. QED
  BY <1>1, Invariance, PTL

(* Whatever commits, detections, suspends and resumes interleave, each sink *)
(* of zx_sink.c is counted once for every pointer that holds it: none is    *)
(* freed while it is named and none is leaked.                              *)
THEOREM SinksAreCounted == Spec => []SinkRefsExact
<1>1. IInv => SinkRefsExact
  BY DEF IInv
<1>. QED
  BY <1>1, Invariance, PTL

(* A hot plug that finds the sink of the CRTC current may leave the mode    *)
(* alone: the screen was set up for the monitor that is plugged.            *)
THEOREM RecordedSinkIsSetUp == Spec => []RecordedIsSetUp
<1>1. IInv => RecordedIsSetUp
  <2>. SUFFICES ASSUME IInv, ~raced, ~late, crtc.active, crtc.sink = sink, sink \in made,
                       \A c \in Commits :
                         slot[c].at \in {"idle", "save", "copied", "check", "flip", "done"}
                PROVE  lit
    BY DEF RecordedIsSetUp
  <2>1. ~Pending
    BY DEF Pending
  <2>. QED
    BY <2>1 DEF IInv, SetUp
<1>. QED
  BY <1>1, Invariance, PTL

(* The locks of the modeset and the completions of the commits do their     *)
(* work: one commit at a time prepares a state, one at a time changes the   *)
(* hardware, and the commit of the hot plug work keeps the locks.           *)
THEOREM CommitsTakeTurns == Spec => [](OneBefore /\ OneTail /\ OneRestore)
<1>1. IInv => OneBefore /\ OneTail /\ OneRestore
  BY DEF IInv, Protocol
<1>. QED
  BY <1>1, Invariance, PTL

-------------------------------------------------------------------------------
(* Why the locks come back, without fairness: who has them has not ended,   *)
(* nobody waits in a circle, and every commit has few steps left.           *)

(* A commit whose event waits for a vertical blank has them switched on.    *)
FlipHasVblank == \A c \in Commits : slot[c].at = "flip" => on

(* The modeset locks belong to a commit that is under way, or to the hot    *)
(* plug work while its own is.                                              *)
Owned ==
  locks # None =>
    \E c \in Commits : /\ slot[c].at # "idle"
                       /\ locks = c \/ (locks = Detector /\ slot[c].kind = "restore")

(* The swap stalls for the tail of another commit, the tail for a flip.     *)
WaitsFor(c, d) ==
  \/ slot[c].at = "check" /\ Tail(d)
  \/ slot[c].at = "tail" /\ slot[d].at = "flip"

CanGo(c) ==
  /\ slot[c].at # "idle"
  /\ slot[c].at = "flip" => on
  /\ \A d \in Commits : ~WaitsFor(c, d)

NoWaitCycle ==
  \A c \in Commits : slot[c].at # "idle" =>
    \/ CanGo(c)
    \/ \E d \in Commits :
         WaitsFor(c, d) /\ (CanGo(d) \/ \E e \in Commits : WaitsFor(d, e) /\ CanGo(e))

(* The steps a commit has left, at most.                                    *)
Left(c) ==
  CASE slot[c].at = "save" -> 13
    [] slot[c].at = "copied" -> 12
    [] slot[c].at = "check" -> IF slot[c].kind = "suspend" /\ saved.held THEN 11 ELSE 10
    [] slot[c].at = "tail" -> 9
    [] slot[c].at = "compare" -> 8
    [] slot[c].at = "assign" -> 7
    [] slot[c].at = "get" -> 6
    [] slot[c].at = "clear" -> 5
    [] slot[c].at = "planes" -> 4
    [] slot[c].at = "flip" -> 3
    [] slot[c].at = "done" -> 2
    [] OTHER -> 0

RunsDown ==
  \A c \in Commits :
    /\ slot[c].at # "idle" => Left(c)' <= Left(c)
    /\ CommitStep(c) => Left(c)' < Left(c)

LEMMA FlipStep == TypeOK /\ FlipHasVblank /\ [Next]_vars => FlipHasVblank'
<1>. SUFFICES ASSUME TypeOK, FlipHasVblank, [Next]_vars PROVE FlipHasVblank'
  OBVIOUS
<1>. USE TypeSlots DEF FlipHasVblank, hardware
<1>1. ASSUME NEW c \in Commits, Enable(c) PROVE FlipHasVblank'
  BY <1>1, GoFacts DEF Enable, At, Steps
<1>2. ASSUME NEW c \in Commits, Flush(c) PROVE FlipHasVblank'
  <2>1. \A d \in Commits : d # c => slot'[d] = slot[d]
    BY <1>2 DEF Flush
  <2>2. slot'[c].at = "flip" => on
    BY <1>2 DEF Flush, SlotStates
  <2>. QED
    BY <1>2, <2>1, <2>2 DEF Flush
<1>3. ASSUME UNCHANGED on, \A d \in Commits : slot'[d].at = "flip" => slot[d].at = "flip"
      PROVE  FlipHasVblank'
  BY <1>3
<1>4. ASSUME NEW c \in Commits,
             Copy(c) \/ Compare(c) \/ Assign(c) \/ Record(c) \/ Clear(c)
      PROVE  FlipHasVblank'
  <2>1. UNCHANGED on
    BY <1>4 DEF Copy, Compare, Assign, Record, Clear
  <2>2. \E a \in Steps \ {"flip"} : Go(c, a)
    BY <1>4 DEF Copy, Compare, Assign, Record, Clear, Steps
  <2>. QED
    BY <1>3, <2>1, <2>2, GoFacts
<1>5. ASSUME NEW c \in Commits, Abort(c) \/ Swap(c) \/ Done(c) \/ Save(c) PROVE FlipHasVblank'
  <2>1. UNCHANGED on
    BY <1>5 DEF Abort, Swap, Done, Save
  <2>2. ASSUME NEW d \in Commits PROVE slot'[d].at = "flip" => slot[d].at = "flip"
    <3>1. CASE Swap(c)
      BY <3>1 DEF Swap
    <3>2. CASE Save(c)
      BY <3>2 DEF Save, SlotStates
    <3>3. CASE Abort(c) \/ Done(c)
      <4>1. UNCHANGED slot \/ slot' = [slot EXCEPT ![c] = Idle]
        BY <3>3 DEF Abort, Done, Ended
      <4>. QED
        BY <4>1 DEF Idle
    <3>. QED
      BY <1>5, <3>1, <3>2, <3>3
  <2>. QED
    BY <1>3, <2>1, <2>2
<1>6. ASSUME NEW c \in Commits, NEW k, NEW nb, NEW a, TakeState(c, k, nb, a), UNCHANGED on
      PROVE  FlipHasVblank'
  <2>1. ASSUME NEW d \in Commits PROVE slot'[d].at = "flip" => slot[d].at = "flip"
    BY <1>6 DEF TakeState
  <2>. QED
    BY <1>3, <1>6, <2>1
<1>7. ASSUME NEW c \in Commits, UserCommit(c) \/ Suspend(c) PROVE FlipHasVblank'
  BY <1>6, <1>7 DEF UserCommit, Suspend
<1>8. ASSUME NEW c \in Commits, Resume(c) PROVE FlipHasVblank'
  BY <1>3, <1>8 DEF Resume
<1>9. CASE Vblank
  BY <1>3, <1>9, GoFacts DEF Vblank, Steps
<1>10. CASE Restore
  <2>1. UNCHANGED on
    BY <1>10 DEF Restore
  <2>2. UNCHANGED slot \/ \E c \in Commits : TakeState(c, "restore", FALSE, crtc.active)
    BY <1>10 DEF Restore
  <2>. QED
    BY <1>3, <1>6, <2>1, <2>2
<1>11. CASE Detect \/ Cancel \/ PutSink \/ ForgetSink \/ CreateSink \/ Plug \/ Unplug
            \/ UNCHANGED vars
  BY <1>3, <1>11 DEF Detect, Cancel, PutSink, ForgetSink, CreateSink, Plug, Unplug, vars
<1>. QED
  BY <1>1, <1>2, <1>4, <1>5, <1>7, <1>8, <1>9, <1>10, <1>11 DEF Next, CommitStep, WorkStep

LEMMA OwnedStep == TypeOK /\ Owned /\ OneRestore /\ [Next]_vars => Owned'
<1>. SUFFICES ASSUME TypeOK, Owned, OneRestore, [Next]_vars PROVE Owned'
  OBVIOUS
<1>. USE TypeSlots, CommitAssumption DEF Owned, OneRestore
<1>1. CASE Rest
  <2>1. UNCHANGED <<slot, locks>>
    BY <1>1 DEF Rest, Cancel, Detect, PutSink, ForgetSink, CreateSink, Plug, Unplug, vars
  <2>. QED
    BY <2>1
<1>2. ASSUME NEW c \in Commits, Moves(c) PROVE Owned'
  BY <1>2 DEF Moves, Only, Same, Tail
<1>3. ASSUME NEW c \in Commits, Swap(c), Only(c) PROVE Owned'
  <2>1. slot'[c].at = "tail" /\ slot'[c].kind = slot[c].kind
    BY <1>3 DEF Swap
  <2>2. locks' \in {locks, None}
    BY <1>3 DEF Swap
  <2>. QED
    BY <1>3, <2>1, <2>2 DEF Only
<1>4. ASSUME NEW c \in Commits, NEW ok \in BOOLEAN, Ends(c, ok) PROVE Owned'
  <2>1. locks' = IF locks = c \/ slot[c].kind = "restore" THEN None ELSE locks
    BY <1>4 DEF Ends, Ended
  <2>2. \A d \in Commits : d # c => slot'[d] = slot[d]
    BY <1>4 DEF Ends, Only
  <2>. QED
    BY <2>1, <2>2
<1>5. ASSUME NEW c \in Commits, Save(c), Only(c), slot'[c].kind = slot[c].kind,
             slot'[c].at = "copied"
      PROVE  Owned'
  BY <1>5 DEF Save, Only
<1>6. ASSUME NEW c \in Commits, UserCommit(c), NEW k \in {"modeset", "flip"},
             NEW nb \in BOOLEAN, Begins(c, k, nb, "copied")
      PROVE  Owned'
  BY <1>6 DEF UserCommit, Begins
<1>7. ASSUME NEW c \in Commits, Suspend(c), Begins(c, "suspend", FALSE, "save")
      PROVE  Owned'
  BY <1>7 DEF Suspend, Begins
<1>8. ASSUME NEW c \in Commits, Resume(c), Begins(c, "resume", FALSE, "check")
      PROVE  Owned'
  BY <1>8 DEF Resume, Begins
<1>9. ASSUME NEW c \in Commits, Restore, Begins(c, "restore", FALSE, "copied"),
             locks' = Detector, det' = [det EXCEPT !.at = "restore"]
      PROVE  Owned'
  BY <1>9 DEF Restore, Begins
<1>. QED
  BY <1>1, <1>2, <1>3, <1>4, <1>5, <1>6, <1>7, <1>8, <1>9, StepForms

(* A chain of waiting commits has two links at most: it ends at a flip,     *)
(* which waits for the hardware only.                                       *)
LEMMA ChainsAreShort == TypeOK /\ FlipHasVblank => NoWaitCycle
<1>. SUFFICES ASSUME TypeOK, FlipHasVblank, NEW c \in Commits, slot[c].at # "idle"
              PROVE  \/ CanGo(c)
                     \/ \E d \in Commits :
                          /\ WaitsFor(c, d)
                          /\ CanGo(d) \/ \E e \in Commits : WaitsFor(d, e) /\ CanGo(e)
  BY DEF NoWaitCycle
<1>. USE DEF WaitsFor, Tail
<1>1. ASSUME NEW d \in Commits, slot[d].at = "flip" PROVE CanGo(d)
  BY <1>1 DEF CanGo, FlipHasVblank
<1>2. ASSUME NEW d \in Commits, Tail(d)
      PROVE  CanGo(d) \/ \E e \in Commits : WaitsFor(d, e) /\ CanGo(e)
  BY <1>1, <1>2 DEF CanGo
<1>. QED
  BY <1>1, <1>2 DEF CanGo, FlipHasVblank

(* The modeset locks are never stuck (drm_atomic_helper_commit, the tail in *)
(* zx_atomic.c, zx_crtc_atomic_flush): a commit that has not ended owns     *)
(* them, and it can go on, or the commit it waits for can, or the flip that *)
(* one waits for has a vertical blank to come.                              *)
THEOREM LocksAreNotStuck == Spec => [](Owned /\ NoWaitCycle)
<1>. DEFINE I == IInv /\ FlipHasVblank /\ Owned
<1>1. Init => I
  <2>1. Init => FlipHasVblank /\ Owned
    BY DEF Init, FlipHasVblank, Owned, Idle
  <2>. QED
    BY <2>1, InitInv
<1>2. I /\ [Next]_vars => I'
  BY Inductive, FlipStep, OwnedStep DEF IInv, Protocol
<1>3. I => Owned /\ NoWaitCycle
  BY ChainsAreShort DEF IInv
<1>. QED
  BY <1>1, <1>2, <1>3, PTL DEF Spec

(* The steps left, for a commit that another one leaves alone.              *)
LEMMA LeftStays ==
  ASSUME NEW c \in Commits, slot'[c] = slot[c],
         saved'.held => saved.held \/ slot[c].at # "check" \/ slot[c].kind # "suspend"
  PROVE  Left(c)' <= Left(c)
BY DEF Left

(* Every step of a commit is one step less.                                 *)
LEMMA LeftFalls ==
  ASSUME TypeOK, Protocol, NEW c \in Commits, CommitStep(c)
  PROVE  Left(c)' < Left(c)
<1>. USE TypeSlots DEF Left, At
<1>1. CASE Copy(c)
  <2>1. slot[c].at = "copied" /\ slot'[c].at = "check"
    BY <1>1, GoFacts DEF Copy, Steps
  <2>. QED
    BY <2>1
<1>2. CASE Abort(c)
  <2>1. slot[c].at = "check"
    BY <1>2 DEF Abort
  <2>2. CASE slot[c].kind = "suspend" /\ saved.held
    BY <1>2, <2>1, <2>2 DEF Abort, NotSaved
  <2>3. CASE ~(slot[c].kind = "suspend" /\ saved.held)
    <3>1. slot'[c].at = "idle"
      BY <1>2, <2>3 DEF Abort, Ended, Idle
    <3>. QED
      BY <2>1, <3>1
  <2>. QED
    BY <2>2, <2>3
<1>3. CASE Swap(c)
  <2>1. slot[c].at = "check" /\ slot'[c].at = "tail"
    BY <1>3 DEF Swap
  <2>. QED
    BY <2>1
<1>4. CASE Enable(c) \/ Compare(c) \/ Assign(c) \/ Record(c) \/ Clear(c)
  <2>1. \/ slot[c].at = "tail" /\ slot'[c].at \in {"compare", "planes"}
        \/ slot[c].at = "compare" /\ slot'[c].at \in {"assign", "clear", "planes"}
        \/ slot[c].at = "assign" /\ slot'[c].at = "get"
        \/ slot[c].at = "get" /\ slot'[c].at = "planes"
        \/ slot[c].at = "clear" /\ slot'[c].at = "planes"
    BY <1>4, GoFacts DEF Enable, Compare, Assign, Record, Clear, Steps
  <2>. QED
    BY <2>1
<1>5. CASE Flush(c)
  <2>1. slot[c].at = "planes" /\ slot'[c].at \in {"flip", "done"}
    BY <1>5 DEF Flush, SlotStates
  <2>. QED
    BY <2>1
<1>6. CASE Done(c)
  <2>1. slot[c].at = "done" /\ slot'[c].at = "idle"
    BY <1>6 DEF Done, Ended, Idle
  <2>. QED
    BY <2>1
<1>7. CASE Save(c)
  <2>1. slot[c].at = "save" /\ slot'[c].at = "copied"
    BY <1>7 DEF Save, SlotStates
  <2>. QED
    BY <2>1
<1>. QED
  BY <1>1, <1>2, <1>3, <1>4, <1>5, <1>6, <1>7 DEF CommitStep

LEMMA LeftStep == TypeOK /\ Protocol /\ [Next]_vars => RunsDown
<1>. SUFFICES ASSUME TypeOK, Protocol, [Next]_vars, NEW c \in Commits, slot[c].at # "idle"
              PROVE  Left(c)' <= Left(c)
  BY LeftFalls DEF RunsDown, CommitStep, At, Copy, Abort, Swap, Enable, Compare, Assign,
     Record, Clear, Flush, Done, Save
<1>. USE TypeSlots
<1>1. Left(c) \in Int /\ Left(c)' \in Int
  BY DEF Left
<1>2. CASE CommitStep(c)
  BY <1>1, <1>2, LeftFalls
<1>3. ASSUME NEW d \in Commits, CommitStep(d), d # c PROVE Left(c)' <= Left(c)
  <2>1. slot'[c] = slot[c]
    BY <1>3 DEF CommitStep, Copy, Abort, Swap, Enable, Compare, Assign, Record, Clear, Flush,
       Done, Save, Ended, Go
  <2>2. saved'.held => saved.held \/ Save(d)
    BY <1>3 DEF CommitStep, Copy, Abort, Swap, Enable, Compare, Assign, Record, Clear, Flush,
       Done, NotSaved
  <2>3. Save(d) => slot[c].at # "check"
    BY <1>3 DEF Save, At, Protocol, OneBefore, Before
  <2>. QED
    BY <2>1, <2>2, <2>3, LeftStays
<1>4. ASSUME NEW d \in Commits, UserCommit(d) \/ Suspend(d) \/ Resume(d)
      PROVE  Left(c)' <= Left(c)
  <2>1. slot'[c] = slot[c]
    BY <1>4 DEF UserCommit, Suspend, Resume, TakeState, At
  <2>2. saved'.held => saved.held
    <3>1. UserCommit(d) => UNCHANGED saved
      BY DEF UserCommit
    <3>2. Suspend(d) => saved' = [held |-> FALSE, sink |-> crtc.sink, active |-> crtc.active]
      BY DEF Suspend
    <3>3. Resume(d) => saved' = NotSaved
      BY DEF Resume
    <3>. QED
      BY <1>4, <3>1, <3>2, <3>3 DEF NotSaved
  <2>. QED
    BY <2>1, <2>2, LeftStays
<1>5. CASE Vblank
  <2>1. PICK d \in Commits : slot[d].at = "flip" /\ Go(d, "done") /\ UNCHANGED saved
    BY <1>5 DEF Vblank, At
  <2>2. CASE d = c
    BY <2>1, <2>2, GoFacts DEF Left, Steps
  <2>3. CASE d # c
    BY <2>1, <2>3, GoFacts, LeftStays DEF Steps
  <2>. QED
    BY <2>2, <2>3
<1>6. CASE Detect \/ WorkStep \/ Plug \/ Unplug \/ UNCHANGED vars
  <2>1. slot'[c] = slot[c] /\ UNCHANGED saved
    BY <1>6 DEF Detect, WorkStep, Cancel, PutSink, ForgetSink, CreateSink, Restore, Plug, Unplug,
       vars, TakeState, At
  <2>. QED
    BY <2>1, LeftStays
<1>. QED
  BY <1>2, <1>3, <1>4, <1>5, <1>6 DEF Next

(* A commit is finite (the steps of drm_atomic_helper_commit and of the     *)
(* tail, aborts included): each step of its own brings its end nearer, and  *)
(* no other commit, detection, vertical blank or suspend sends it back.     *)
THEOREM CommitsRunDown == Spec => [][RunsDown]_vars
<1>1. IInv /\ [Next]_vars => RunsDown
  BY LeftStep DEF IInv
<1>. QED
  BY <1>1, Invariance, PTL DEF Spec

===============================================================================
