------------------------- MODULE LinkTrainingProofs -------------------------
(***************************************************************************)
(* Proofs about LinkTraining, for any cables, offers and bounds, on each   *)
(* chip.                                                                   *)
(*                                                                         *)
(* What the engine leaves in the port is trusted only while it belongs to  *)
(* the attempt under way: Setup clears it before the sink is configured,   *)
(* the engine works only while software polls, and lanes and rate change   *)
(* only between the two.                                                   *)
(***************************************************************************)
EXTENDS LinkTraining, TLAPS

(* Lanes and rate of a training under way stay within what was asked.       *)
LoopWithinAsked ==
  pc # "idle" => /\ asked \in P!Links
                 /\ Link(lanes, rate) \in P!Outcomes(asked.lanes, asked.rate) \ {NoLink}

(* The engine runs, and its status is up, only for the attempt under way;   *)
(* what it locked is what the sink was told.                                *)
EngineOfAttempt ==
  /\ engine # "idle" => pc \in {"poll", "stop"}
  /\ engine = "running" \/ pc \in {"config", "protect", "start"} => ~mainUp
  /\ pc \in {"poll", "stop"} /\ mainUp /\ pulls = 0 => locked = config

(* From its first write to the end of its engine, an attempt is the one the *)
(* sink was told of, if the sink took what it was told.                     *)
ToldThisAttempt ==
  pc \in {"protect", "start", "poll", "stop"} =>
    /\ faults = 0 => told
    /\ told /\ pulls = 0 => config = Link(lanes, rate)

(* A result is kept from the end of a training to the next one.             *)
GivenAtEnd ==
  /\ given # NoLink => pc \in {"end", "idle"}
  /\ pc = "end" => given \in P!Outcomes(asked.lanes, asked.rate)
  /\ pc = "idle" <=> asked = NoLink

(* Where a training pattern cannot be left over when every write got        *)
(* through.                                                                 *)
PatternCleared ==
  faults = 0 /\ (pc \in {"next", "end", "idle"}
                 \/ (pc \in {"poll", "stop"} /\ mainUp)) => ~pattern

IInv == TypeOK /\ LoopWithinAsked /\ EngineOfAttempt /\ ToldThisAttempt /\ GivenAtEnd
        /\ PatternCleared /\ ReportedIsLocked

-------------------------------------------------------------------------------
LEMMA LinkFacts ==
  /\ NoLink = [lanes |-> 0, rate |-> 0]
  /\ NoLink \notin P!Links
  /\ \A l \in P!Links : /\ l.lanes \in 1..4 /\ l.rate \in 1..3 /\ l = Link(l.lanes, l.rate)
                        /\ l.lanes \in {1, 2, 4}
  /\ \A n \in {1, 2, 4}, r \in 1..3 : Link(n, r) \in P!Links
  /\ \A n, r : Link(n, r).lanes = n /\ Link(n, r).rate = r
BY DEF P!Links, P!NoLink, P!LaneCounts, P!Rates, NoLink, Link

(* What an outcome is, and what the outcome of an attempt is.               *)
LEMMA OutcomeFacts ==
  ASSUME NEW n, NEW r
  PROVE  /\ NoLink \in P!Outcomes(n, r)
         /\ \A l : l \in P!Outcomes(n, r) \ {NoLink}
                 <=> l \in P!Links /\ l.lanes <= n /\ l.rate <= r
BY LinkFacts DEF P!Outcomes, NoLink

(* An attempt is a link: the one that was asked for or a lesser one.        *)
LEMMA AttemptFacts ==
  ASSUME LoopWithinAsked, pc # "idle"
  PROVE  /\ lanes \in {1, 2, 4} /\ rate \in 1..3 /\ Link(lanes, rate) \in P!Links
         /\ lanes <= asked.lanes /\ rate <= asked.rate
         /\ asked \in P!Links /\ asked.lanes \in 1..4 /\ asked.rate \in 1..3
<1>1. /\ asked \in P!Links /\ Link(lanes, rate) \in P!Links
      /\ Link(lanes, rate).lanes <= asked.lanes /\ Link(lanes, rate).rate <= asked.rate
  BY OutcomeFacts DEF LoopWithinAsked
<1>2. Link(lanes, rate).lanes = lanes /\ Link(lanes, rate).rate = rate
  BY LinkFacts
<1>. QED
  BY <1>1, <1>2, LinkFacts

(* Every level a table loads is one the engine has, in the range of its     *)
(* registers.                                                               *)
LEMMA SwingTables ==
  ASSUME NEW r \in 1..3
  PROVE  /\ DOMAIN SwingTable(r) \subseteq Levels
         /\ \A i \in DOMAIN SwingTable(r) : SwingTable(r)[i] \in (0..63) \X (0..63)
<1>. USE DEF Levels
<1>1. /\ DOMAIN SwingE2 \subseteq Levels
      /\ \A i \in DOMAIN SwingE2 : SwingE2[i] \in (0..63) \X (0..63)
  BY DEF SwingE2
<1>2. /\ DOMAIN SwingFast001 = Levels
      /\ \A i \in Levels : SwingFast001[i] \in (0..63) \X (0..63)
  BY DEF SwingFast001
<1>3. /\ DOMAIN SwingSlow001 = Levels
      /\ \A i \in Levels : SwingSlow001[i] \in (0..63) \X (0..63)
  BY DEF SwingSlow001
<1>4. /\ DOMAIN SwingRetimer = Levels
      /\ \A i \in Levels : SwingRetimer[i] \in (0..63) \X (0..63)
  BY DEF SwingRetimer
<1>5. /\ DOMAIN SwingFast = Levels
      /\ \A i \in Levels : SwingFast[i] \in (0..63) \X (0..63)
  BY DEF SwingFast
<1>6. /\ DOMAIN SwingSlow = Levels
      /\ \A i \in Levels : SwingSlow[i] \in (0..63) \X (0..63)
  BY DEF SwingSlow
<1>. QED
  BY <1>1, <1>2, <1>3, <1>4, <1>5, <1>6 DEF SwingTable

(* Loading a table leaves a level in every register.                        *)
LEMMA SwingLoaded ==
  ASSUME TypeOK, NEW r \in 1..3
  PROVE  LoadSwing(SwingTable(r)) \in [Levels -> (0..63) \X (0..63)]
BY SwingTables DEF LoadSwing, TypeOK

-------------------------------------------------------------------------------
LEMMA InitIInv == Init => IInv
<1>. SUFFICES ASSUME Init PROVE IInv
  OBVIOUS
<1>1. TypeOK
  <2>1. swing \in [Levels -> (0..63) \X (0..63)] /\ works \in Cables
    BY DEF Init
  <2>2. NoLink \in P!Links \cup {NoLink}
    OBVIOUS
  <2>3. /\ hwFail \in BOOLEAN /\ mainUp \in BOOLEAN /\ plugged \in BOOLEAN
        /\ pattern \in BOOLEAN /\ told \in BOOLEAN
    BY Zenon DEF Init
  <2>4. /\ lanes \in 0..4 /\ rate \in 0..3 /\ retry \in 0..2 /\ polls \in 0..MaxPolls
        /\ noise \in Nat /\ faults \in Nat /\ pulls \in 0..MaxPulls
        /\ trainings \in 0..MaxTrainings
    BY BoundsAssumption DEF Init
  <2>5. /\ pc = "idle" /\ asked = NoLink /\ given = NoLink /\ engine = "idle"
        /\ config = NoLink /\ scrambler = "none" /\ locked = NoLink
    BY DEF Init
  <2>. QED
    BY <2>1, <2>2, <2>3, <2>4, <2>5 DEF TypeOK
<1>. QED
  BY <1>1, LinkFacts DEF Init, IInv, LoopWithinAsked, EngineOfAttempt, ToldThisAttempt,
     GivenAtEnd, PatternCleared, ReportedIsLocked

(* Where the next attempt goes: again, slower, or on half the lanes.        *)
LEMMA AttemptWithinAsked ==
  ASSUME TypeOK, LoopWithinAsked, pc # "idle", NextAttempt
  PROVE  /\ lanes' \in {1, 2, 4} /\ rate' \in 1..3 /\ retry' \in 0..2
         /\ Link(lanes', rate') \in P!Outcomes(asked.lanes, asked.rate) \ {NoLink}
<1>1. /\ lanes \in {1, 2, 4} /\ rate \in 1..3
      /\ lanes <= asked.lanes /\ rate <= asked.rate
      /\ asked.lanes \in 1..4 /\ asked.rate \in 1..3
  BY AttemptFacts
<1>2. MaxRetryCount \in {1, 3}
  BY ModeAssumption DEF MaxRetryCount
<1>3. retry' \in 0..2
  BY <1>2 DEF NextAttempt, TypeOK
<1>4. /\ lanes' \in {1, 2, 4} /\ rate' \in 1..3
      /\ lanes' <= asked.lanes /\ rate' <= asked.rate
  BY <1>1 DEF NextAttempt
<1>. QED
  BY <1>3, <1>4, LinkFacts, OutcomeFacts

(* Every variable stays in its range.                                       *)
LEMMA TypeStep ==
  TypeOK /\ LoopWithinAsked /\ GivenAtEnd /\ EngineOfAttempt /\ [Next]_vars => TypeOK'
<1>. SUFFICES ASSUME TypeOK, LoopWithinAsked, GivenAtEnd, EngineOfAttempt, [Next]_vars PROVE TypeOK'
  OBVIOUS
<1>. USE LinkFacts, BoundsAssumption, LinksAssumption
     DEF loop_vars, port_vars, sink_vars, past_vars
<1>0. pc # "idle" => /\ lanes \in {1, 2, 4} /\ rate \in 1..3
                     /\ Link(lanes, rate) \in P!Links
  BY AttemptFacts
<1>1. ASSUME NEW l \in Offers, Begin(l.lanes, l.rate) PROVE TypeOK'
  <2>1. /\ Link(l.lanes, l.rate) \in P!Links /\ l.lanes \in 1..4 /\ l.rate \in 1..3
        /\ NoLink \in P!Links \cup {NoLink}
    OBVIOUS
  <2>2. /\ pc' = "setup" /\ asked' = Link(l.lanes, l.rate) /\ lanes' = l.lanes
        /\ rate' = l.rate /\ retry' = 0 /\ given' = NoLink /\ noise' = 0 /\ faults' = 0
        /\ trainings < MaxTrainings /\ trainings' = trainings + 1
    BY <1>1 DEF Begin
  <2>3. told' = FALSE /\ UNCHANGED <<polls, engine, hwFail, mainUp, swing, plugged, works,
                                     config, scrambler, pattern, locked, pulls>>
    BY <1>1 DEF Begin
  <2>4. /\ pc' \in {"setup"} /\ trainings' \in 0..MaxTrainings /\ noise' \in Nat
        /\ faults' \in Nat /\ lanes' \in 0..4 /\ rate' \in 0..3 /\ retry' \in 0..2
        /\ asked' \in P!Links /\ given' = NoLink /\ told' \in BOOLEAN
    <3>1. trainings' \in 0..MaxTrainings
      BY <2>2 DEF TypeOK
    <3>2. asked' \in P!Links /\ told' \in BOOLEAN /\ pc' \in {"setup"}
      BY <2>1, <2>2, <2>3, Zenon
    <3>. QED
      BY <2>1, <2>2, <3>1, <3>2
  <2>. QED
    BY <2>3, <2>4 DEF TypeOK
<1>2. CASE Setup
  BY <1>2 DEF Setup, TypeOK
<1>3. CASE Config
  <2>1. /\ pc' \in {"protect", "end"} /\ faults' \in {faults, faults + 1}
        /\ config' \in {config, Link(lanes, rate)} /\ locked' \in {locked, NoLink}
        /\ told' \in BOOLEAN /\ pc # "idle"
    BY <1>3 DEF Config, Acked, Nacked, Lost, ReplyLost, TypeOK
  <2>2. UNCHANGED <<asked, lanes, rate, retry, given, polls, engine, hwFail, mainUp, swing,
                    plugged, works, scrambler, pattern, noise, pulls, trainings>>
    BY <1>3 DEF Config
  <2>. QED
    BY <1>0, <2>1, <2>2 DEF TypeOK
<1>4. CASE Protect
  BY <1>4, ModeAssumption DEF Protect, Acked, Nacked, Lost, ReplyLost, TypeOK
<1>5. CASE Start
  BY <1>0, <1>5, SwingLoaded DEF Start, TypeOK
<1>6. CASE PollAgain
  BY <1>6 DEF PollAgain, TypeOK
<1>18. CASE PollsUsedUp
  BY <1>18 DEF PollsUsedUp, TypeOK
<1>7. CASE PollDone
  BY <1>0, <1>7 DEF PollDone, TypeOK
<1>8. CASE GiveUp
  BY <1>8 DEF GiveUp, TypeOK
<1>9. CASE Clear
  <2>1. /\ pattern' = FALSE \/ pattern' = pattern
        /\ faults' = faults + 1 \/ faults' = faults
        /\ pc' = "next" \/ pc' = "end" \/ pc' = "idle"
    BY <1>9, Zenon DEF Clear, Acked, Nacked, Lost, ReplyLost, sink_vars
  <2>2. pattern' \in BOOLEAN
    BY <2>1, Zenon DEF TypeOK
  <2>3. faults' \in Nat
    BY <2>1 DEF TypeOK
  <2>4. pc' \in {"next", "end", "idle"}
    BY <2>1, Zenon
  <2>5. asked' \in {asked, NoLink}
    BY <1>9 DEF Clear
  <2>6. UNCHANGED <<lanes, rate, retry, polls, given, engine, hwFail, mainUp, swing, plugged,
                    works, told, config, scrambler, locked, noise, pulls, trainings>>
    BY <1>9 DEF Clear, Acked, Nacked, Lost, ReplyLost
  <2>. QED
    BY <2>2, <2>3, <2>4, <2>5, <2>6 DEF TypeOK
<1>10. CASE NextAttempt
  <2>1. lanes' \in 0..4 /\ rate' \in 0..3 /\ retry' \in 0..2
    BY <1>10, AttemptWithinAsked DEF NextAttempt
  <2>. QED
    BY <1>10, <2>1 DEF NextAttempt, TypeOK
<1>11. CASE Finish
  <2>1. /\ pattern' = FALSE \/ pattern' = pattern
        /\ faults' = faults + 1 \/ faults' = faults
        /\ pc' = "next" \/ pc' = "end" \/ pc' = "idle"
    BY <1>11, Zenon DEF Finish, Acked, Nacked, Lost, ReplyLost, sink_vars
  <2>2. pattern' \in BOOLEAN
    BY <2>1, Zenon DEF TypeOK
  <2>3. faults' \in Nat
    BY <2>1 DEF TypeOK
  <2>4. pc' \in {"next", "end", "idle"}
    BY <2>1, Zenon
  <2>5. asked' \in {asked, NoLink}
    BY <1>11 DEF Finish
  <2>6. UNCHANGED <<lanes, rate, retry, polls, given, engine, hwFail, mainUp, swing, plugged,
                    works, told, config, scrambler, locked, noise, pulls, trainings>>
    BY <1>11 DEF Finish, Acked, Nacked, Lost, ReplyLost
  <2>. QED
    BY <2>2, <2>3, <2>4, <2>5, <2>6 DEF TypeOK
<1>12. CASE EngineBegin
  BY <1>12 DEF EngineBegin, TypeOK
<1>13. CASE EngineTrains
  BY <1>13 DEF EngineTrains, TypeOK
<1>14. CASE EngineFails
  BY <1>14 DEF EngineFails, TypeOK
<1>15. CASE Pull
  <2>1. NoLink \in P!Links \cup {NoLink} /\ pulls' \in 0..MaxPulls
    BY <1>15 DEF Pull, TypeOK
  <2>. QED
    BY <1>15, <2>1 DEF Pull, TypeOK
<1>16. CASE PlugIn
  BY <1>16 DEF PlugIn, TypeOK
<1>17. CASE UNCHANGED vars
  BY <1>17 DEF vars, TypeOK
<1>. QED
  BY <1>1, <1>2, <1>3, <1>4, <1>5, <1>6, <1>7, <1>8, <1>9, <1>10, <1>11, <1>12, <1>13,
     <1>14, <1>15, <1>16, <1>17, <1>18 DEF Next, Training, Engine

(* The loops stay within what was asked.                                    *)
LEMMA LoopStep == TypeOK /\ LoopWithinAsked /\ EngineOfAttempt /\ GivenAtEnd /\ [Next]_vars
                  => LoopWithinAsked' /\ GivenAtEnd'
<1>. SUFFICES ASSUME TypeOK, LoopWithinAsked, EngineOfAttempt, GivenAtEnd, [Next]_vars
              PROVE  LoopWithinAsked' /\ GivenAtEnd'
  OBVIOUS
<1>. USE LinkFacts DEF loop_vars, LoopWithinAsked, GivenAtEnd
<1>1. ASSUME NEW l \in Offers, Begin(l.lanes, l.rate) PROVE LoopWithinAsked' /\ GivenAtEnd'
  <2>1. l \in P!Links
    BY LinksAssumption
  <2>2. l \in P!Outcomes(l.lanes, l.rate) \ {NoLink}
    BY <2>1, OutcomeFacts
  <2>. QED
    BY <1>1, <2>1, <2>2 DEF Begin
<1>2. CASE PollDone
  BY <1>2 DEF PollDone
<1>3. CASE NextAttempt
  <2>1. Link(lanes', rate') \in P!Outcomes(asked.lanes, asked.rate) \ {NoLink}
    BY <1>3, AttemptWithinAsked DEF NextAttempt
  <2>2. pc' \in {"setup", "end"} /\ UNCHANGED <<asked, given>> /\ pc = "next"
    BY <1>3 DEF NextAttempt
  <2>. QED
    BY <2>1, <2>2, OutcomeFacts
<1>4. CASE Finish
  BY <1>4 DEF Finish, Acked, Nacked, Lost, ReplyLost
<1>5. CASE Setup \/ Config \/ Protect \/ Start \/ PollAgain \/ PollsUsedUp \/ GiveUp \/ Clear
  <2>1. UNCHANGED <<asked, lanes, rate, given>> /\ pc # "idle" /\ pc # "end"
        /\ pc' # "idle"
    BY <1>5 DEF Setup, Config, Protect, Start, PollAgain, PollsUsedUp, GiveUp, Clear, Acked,
       Nacked, Lost, ReplyLost
  <2>. QED
    BY <2>1, OutcomeFacts
<1>6. CASE Engine \/ Pull \/ PlugIn \/ UNCHANGED vars
  BY <1>6 DEF Engine, EngineBegin, EngineTrains, EngineFails, Pull, PlugIn, vars
<1>. QED
  BY <1>1, <1>2, <1>3, <1>4, <1>5, <1>6 DEF Next, Training

(* The status of the engine, and the lock it stands for.                    *)
LEMMA EngineStep ==
  IInv /\ [Next]_vars => EngineOfAttempt' /\ ToldThisAttempt' /\ ReportedIsLocked'
<1>. DEFINE Goal == EngineOfAttempt' /\ ToldThisAttempt' /\ ReportedIsLocked'
<1>. SUFFICES ASSUME IInv, [Next]_vars PROVE Goal
  OBVIOUS
<1>. USE LinkFacts DEF IInv, loop_vars, port_vars, sink_vars, past_vars, EngineOfAttempt,
                       ToldThisAttempt, GivenAtEnd, ReportedIsLocked
<1>0. pulls \in Nat /\ (pulls + 1 # 0) /\ faults \in Nat /\ (faults + 1 # 0)
  BY DEF TypeOK
<1>1. ASSUME NEW l \in Offers, Begin(l.lanes, l.rate) PROVE Goal
  BY <1>1 DEF Begin
<1>2. CASE Setup
  BY <1>2 DEF Setup
<1>3. CASE Config
  BY <1>0, <1>3 DEF Config, Acked, Nacked, Lost, ReplyLost
<1>4. CASE Protect
  BY <1>0, <1>4 DEF Protect, Acked, Nacked, Lost, ReplyLost
<1>5. CASE Start
  BY <1>5 DEF Start
<1>6. CASE PollAgain
  BY <1>6 DEF PollAgain
<1>18. CASE PollsUsedUp
  BY <1>18 DEF PollsUsedUp
<1>7. CASE PollDone
  BY <1>7 DEF PollDone
<1>8. CASE GiveUp
  BY <1>8 DEF GiveUp
<1>9. CASE Clear
  BY <1>9 DEF Clear, Acked, Nacked, Lost, ReplyLost
<1>10. CASE NextAttempt
  BY <1>10 DEF NextAttempt
<1>11. CASE Finish
  BY <1>11 DEF Finish, Acked, Nacked, Lost, ReplyLost
<1>12. CASE EngineBegin
  BY <1>12 DEF EngineBegin
<1>13. CASE EngineTrains
  BY <1>13 DEF EngineTrains
<1>14. CASE EngineFails
  BY <1>14 DEF EngineFails
<1>15. CASE Pull
  BY <1>0, <1>15 DEF Pull
<1>16. CASE PlugIn
  BY <1>16 DEF PlugIn
<1>17. CASE UNCHANGED vars
  BY <1>17 DEF vars
<1>. QED
  BY <1>1, <1>2, <1>3, <1>4, <1>5, <1>6, <1>7, <1>8, <1>9, <1>10, <1>11, <1>12, <1>13,
     <1>14, <1>15, <1>16, <1>17, <1>18 DEF Next, Training, Engine

(* What is left in the sink's pattern register.                             *)
LEMMA PatternStep == IInv /\ [Next]_vars => PatternCleared'
<1>. SUFFICES ASSUME IInv, [Next]_vars PROVE PatternCleared'
  OBVIOUS
<1>. USE DEF IInv, loop_vars, port_vars, sink_vars, past_vars, EngineOfAttempt,
             GivenAtEnd, PatternCleared
<1>0. faults \in Nat /\ (faults + 1 # 0)
  BY DEF TypeOK
<1>1. ASSUME NEW l \in Offers, Begin(l.lanes, l.rate)
      PROVE PatternCleared'
  BY <1>1 DEF Begin
<1>2. CASE Setup
  BY <1>2 DEF Setup
<1>3. CASE Config
  BY <1>0, <1>3 DEF Config, Acked, Nacked, Lost, ReplyLost
<1>4. CASE Protect
  BY <1>0, <1>4 DEF Protect, Acked, Nacked, Lost, ReplyLost
<1>5. CASE Start
  BY <1>5 DEF Start
<1>6. CASE PollAgain
  BY <1>6 DEF PollAgain
<1>18. CASE PollsUsedUp
  BY <1>18 DEF PollsUsedUp
<1>7. CASE PollDone
  BY <1>7 DEF PollDone
<1>8. CASE GiveUp
  BY <1>8 DEF GiveUp
<1>9. CASE Clear
  BY <1>0, <1>9 DEF Clear, Acked, Nacked, Lost, ReplyLost
<1>10. CASE NextAttempt
  BY <1>10 DEF NextAttempt
<1>11. CASE Finish
  BY <1>0, <1>11 DEF Finish, Acked, Nacked, Lost, ReplyLost
<1>12. CASE EngineBegin
  BY <1>12 DEF EngineBegin
<1>13. CASE EngineTrains
  BY <1>13 DEF EngineTrains
<1>14. CASE EngineFails
  BY <1>14 DEF EngineFails
<1>15. CASE Pull
  BY <1>15 DEF Pull
<1>16. CASE PlugIn
  BY <1>16 DEF PlugIn
<1>17. CASE UNCHANGED vars
  BY <1>17 DEF vars
<1>. QED
  BY <1>1, <1>2, <1>3, <1>4, <1>5, <1>6, <1>7, <1>8, <1>9, <1>10, <1>11, <1>12, <1>13,
     <1>14, <1>15, <1>16, <1>17, <1>18 DEF Next, Training, Engine

LEMMA Inductive == IInv /\ [Next]_vars => IInv'
BY TypeStep, LoopStep, EngineStep, PatternStep DEF IInv

LEMMA Invariance == Spec => []IInv
<1>. QED
  BY InitIInv, Inductive, PTL DEF Spec

-------------------------------------------------------------------------------
(* Type correctness: what the port and the sink are told is always one of   *)
(* the combinations DisplayPort has (LinkTrainingHw, CBiosDIU_DP.c).        *)
THEOREM TypeCorrect == Spec => []TypeOK
<1>1. IInv => TypeOK
  BY DEF IInv
<1>. QED
  BY <1>1, Invariance, PTL

(* The sink is locked at what it was told last when a training reports      *)
(* success, and that is the reported link unless the sink refused it, on    *)
(* every chip, whatever writes are lost and whatever trainings came before  *)
(* (the test at CBiosDIU_DP.c:1680).                                        *)
THEOREM ReportedLinkIsLocked == Spec => []ReportedIsLocked
<1>1. IInv => ReportedIsLocked
  BY DEF IInv
<1>. QED
  BY <1>1, Invariance, PTL

(* No training pattern is sent before the sink knows the lanes and the rate *)
(* of the attempt (CBiosDIU_DP.c:789), over any falls of rate and lanes, if *)
(* the writes of the training got through.                                  *)
THEOREM ToldFirst == Spec => []ToldBeforePattern
<1>1. IInv => ToldBeforePattern
  BY DEF IInv, EngineOfAttempt, ToldThisAttempt, ToldBeforePattern
<1>. QED
  BY <1>1, Invariance, PTL

(* No training whose writes got through leaves the sink in its training     *)
(* pattern, by whichever of the five gotos it ended.                        *)
THEOREM NoPatternIsLeft == Spec => []NoPatternLeft
<1>1. IInv => NoPatternLeft
  BY DEF IInv, PatternCleared, NoPatternLeft
<1>. QED
  BY <1>1, Invariance, PTL

(* Every step of the training is a step of TrainingPromise or leaves what   *)
(* the caller sees alone: a training gives nothing but what was asked, fewer *)
(* lanes or a slower rate.                                                  *)
THEOREM ImplementsPromise == Spec => P!Init /\ [][P!Next]_<<asked, Reported>>
<1>1. Init => P!Init
  BY LinkFacts DEF Init, P!Init, Reported, NoLink
<1>2. IInv /\ [Next]_vars => [P!Next]_<<asked, Reported>>
  <2>. SUFFICES ASSUME IInv, [Next]_vars, ~UNCHANGED <<asked, Reported>> PROVE P!Next
    OBVIOUS
  <2>. USE LinkFacts DEF IInv
  <2>1. ASSUME NEW l \in Offers, Begin(l.lanes, l.rate) PROVE P!Ask
    <3>1. l \in P!Links /\ asked = NoLink
      BY <2>1, LinksAssumption DEF Begin, GivenAtEnd
    <3>2. asked' = l /\ asked'.lanes # 0
      BY <2>1, <3>1 DEF Begin
    <3>. QED
      BY <3>1, <3>2 DEF P!Ask, P!Links, Reported, NoLink
  <2>2. CASE Finish
    <3>1. asked \in P!Links /\ asked.lanes # 0 /\ given \in P!Outcomes(asked.lanes, asked.rate)
      BY <2>2 DEF Finish, LoopWithinAsked, GivenAtEnd
    <3>2. asked' = NoLink /\ given' = given
      BY <2>2 DEF Finish
    <3>. QED
      BY <3>1, <3>2 DEF P!Next, P!Answer, Reported, NoLink
  <2>3. CASE PollDone
    BY <2>3 DEF PollDone, LoopWithinAsked, Reported
  <2>4. CASE Training /\ ~PollDone /\ ~Finish
    BY <2>4 DEF Training, Setup, Config, Protect, Start, PollAgain, PollsUsedUp, GiveUp, Clear,
       NextAttempt,
       Reported, loop_vars
  <2>5. CASE Engine \/ Pull \/ PlugIn \/ UNCHANGED vars
    BY <2>5 DEF Engine, EngineBegin, EngineTrains, EngineFails, Pull, PlugIn, Reported,
       loop_vars, vars
  <2>. QED
    BY <2>1, <2>2, <2>3, <2>4, <2>5 DEF Next, P!Next
<1>. QED
  BY <1>1, <1>2, Invariance, PTL DEF Spec

-------------------------------------------------------------------------------
(* Attempts that fail by noise: a training in which every AUX write got     *)
(* through and no cable was pulled.                                         *)
Quiet == pc # "idle" /\ faults = 0 /\ pulls = 0

(* The combinations the training could end with.                            *)
Can == {l \in works : l.lanes <= asked.lanes /\ l.rate <= asked.rate}

(* The combinations the loops tried before the one under way.               *)
Tried(l) == l.lanes > lanes \/ (l.lanes = lanes /\ l.rate > rate)

(* A sink that may still be exchanged was never told anything.              *)
SinkThere ==
  Quiet => \/ plugged
           \/ /\ pc \in {"setup", "config"}
              /\ lanes = asked.lanes /\ rate = asked.rate /\ retry = 0

(* Every try at a combination that works was lost to noise.                 *)
TriesCounted ==
  Quiet /\ pc # "end" /\ Link(lanes, rate) \in works =>
    noise >= IF pc \in {"clear", "next"} THEN retry + 1 ELSE retry

(* The loops give up no combination that works.                             *)
NonePassed == Quiet /\ noise < MaxRetryCount => \A l \in Can : ~Tried(l)

(* A lock is at a combination that works.                                   *)
TrainedWorks == Quiet /\ pc \in {"poll", "stop"} /\ mainUp => Link(lanes, rate) \in works

(* The result is the combination under way, or none could be had.           *)
GivenWorks ==
  Quiet /\ pc = "end" /\ noise < MaxRetryCount =>
    IF given = NoLink THEN Can = {} ELSE given = Link(lanes, rate) /\ given \in works

NoiseInv == SinkThere /\ TriesCounted /\ NonePassed /\ TrainedWorks /\ GivenWorks

LEMMA RetryFacts == MaxRetryCount \in {1, 3}
BY ModeAssumption DEF MaxRetryCount

(* What works is a link.                                                    *)
LEMMA CanFacts ==
  ASSUME TypeOK, NEW l \in works
  PROVE  /\ l \in P!Links /\ l.lanes \in {1, 2, 4} /\ l.rate \in 1..3
         /\ l = Link(l.lanes, l.rate)
<1>1. l \in P!Links
  BY LinksAssumption DEF TypeOK
<1>. QED
  BY <1>1, LinkFacts

(* The sink is there from the first write on, and stays the same.           *)
LEMMA SinkThereStep ==
  IInv /\ SinkThere /\ [Next]_vars
    => SinkThere' /\ (Quiet' /\ Quiet /\ plugged => works' = works)
<1>. SUFFICES ASSUME IInv, SinkThere, [Next]_vars
              PROVE  SinkThere' /\ (Quiet' /\ Quiet /\ plugged => works' = works)
  OBVIOUS
<1>. USE LinkFacts DEF Quiet, SinkThere, loop_vars, port_vars, sink_vars, past_vars
<1>0. /\ faults \in Nat /\ faults + 1 # 0 /\ pulls \in Nat /\ pulls + 1 # 0
  BY DEF IInv, TypeOK
<1>1. ASSUME NEW l \in Offers, Begin(l.lanes, l.rate)
      PROVE SinkThere' /\ (Quiet' /\ Quiet /\ plugged => works' = works)
  BY <1>1 DEF Begin
<1>2. CASE Setup \/ Start \/ PollAgain \/ PollDone \/ PollsUsedUp \/ GiveUp \/ NextAttempt
  BY <1>2 DEF Setup, Start, PollAgain, PollDone, PollsUsedUp, GiveUp, NextAttempt
<1>3. CASE Config
  BY <1>0, <1>3 DEF Config, Acked, Nacked, Lost, ReplyLost
<1>4. CASE Protect \/ Clear
  BY <1>0, <1>4 DEF Protect, Clear, Acked, Nacked, Lost, ReplyLost
<1>5. CASE Finish
  BY <1>5 DEF Finish, Acked, Nacked, Lost, ReplyLost
<1>6. CASE Engine
  BY <1>6 DEF Engine, EngineBegin, EngineTrains, EngineFails
<1>7. CASE Pull
  BY <1>0, <1>7 DEF Pull
<1>8. CASE PlugIn
  BY <1>8 DEF PlugIn
<1>9. CASE UNCHANGED vars
  BY <1>9 DEF vars
<1>. QED
  BY <1>1, <1>2, <1>3, <1>4, <1>5, <1>6, <1>7, <1>8, <1>9 DEF Next, Training

(* Before the first write the sink may change, but nothing was tried yet.   *)
LEMMA FirstAttempt ==
  ASSUME TypeOK, lanes = asked.lanes, rate = asked.rate, asked \in P!Links
  PROVE  \A l \in Can : ~Tried(l)
<1>. SUFFICES ASSUME NEW l \in Can PROVE ~Tried(l)
  OBVIOUS
<1>1. l.lanes \in {1, 2, 4} /\ l.rate \in 1..3 /\ l.lanes <= asked.lanes /\ l.rate <= asked.rate
  BY CanFacts DEF Can
<1>2. asked.lanes \in 1..4 /\ asked.rate \in 1..3
  BY LinkFacts
<1>. QED
  BY <1>1, <1>2 DEF Tried

(* The loops: a combination is left when its tries are used up, and then    *)
(* it did not work, or the noise took as many attempts.                     *)
LEMMA NoiseStep ==
  IInv /\ NoiseInv /\ [Next]_vars => TriesCounted' /\ NonePassed' /\ TrainedWorks' /\ GivenWorks'
<1>. DEFINE Goal == TriesCounted' /\ NonePassed' /\ TrainedWorks' /\ GivenWorks'
<1>. SUFFICES ASSUME IInv, NoiseInv, [Next]_vars PROVE Goal
  OBVIOUS
<1>. USE LinkFacts DEF Quiet, Can, Tried, TriesCounted, NonePassed, TrainedWorks, GivenWorks,
                       loop_vars, port_vars, sink_vars, past_vars
<1>0. /\ faults \in Nat /\ faults + 1 # 0 /\ pulls \in Nat /\ pulls + 1 # 0
      /\ noise \in Nat /\ retry \in 0..2
  BY DEF IInv, TypeOK
<1>00. /\ pc # "idle" => /\ lanes \in {1, 2, 4} /\ rate \in 1..3 /\ asked \in P!Links
                         /\ asked.rate \in 1..3 /\ asked.lanes \in 1..4
       /\ \A l \in works : /\ l.lanes \in {1, 2, 4} /\ l.rate \in 1..3
                           /\ l = Link(l.lanes, l.rate)
       /\ MaxRetryCount \in {1, 3}
  BY AttemptFacts, CanFacts, RetryFacts DEF IInv
<1>1. ASSUME NEW l \in Offers, Begin(l.lanes, l.rate) PROVE Goal
  <2>1. l \in P!Links
    BY LinksAssumption
  <2>2. /\ asked' = Link(l.lanes, l.rate) /\ lanes' = l.lanes /\ rate' = l.rate /\ retry' = 0
        /\ noise' = 0 /\ pc' = "setup" /\ works' = works
    BY <1>1 DEF Begin
  <2>3. asked'.lanes = lanes' /\ asked'.rate = rate' /\ lanes' \in 1..4 /\ rate' \in 1..3
    BY <2>1, <2>2
  <2>. QED
    BY <1>00, <2>2, <2>3
<1>2. CASE Setup
  BY <1>2 DEF Setup, NoiseInv
<1>3. CASE Config
  BY <1>0, <1>3 DEF Config, Acked, Nacked, Lost, ReplyLost, NoiseInv
<1>4. CASE Protect
  BY <1>0, <1>4 DEF Protect, Acked, Nacked, Lost, ReplyLost, NoiseInv, IInv, EngineOfAttempt
<1>5. CASE Start
  BY <1>5 DEF Start, NoiseInv, IInv, EngineOfAttempt
<1>6. CASE PollAgain
  BY <1>6 DEF PollAgain, NoiseInv
<1>18. CASE PollsUsedUp
  BY <1>18 DEF PollsUsedUp, NoiseInv
<1>7. CASE PollDone
  <2>1. Link(lanes, rate) \in P!Links
    BY <1>7, AttemptFacts DEF PollDone, IInv
  <2>. QED
    BY <1>7, <2>1 DEF PollDone, NoiseInv
<1>8. CASE GiveUp
  <2>1. /\ pc = "stop" /\ pc' = "clear"
        /\ UNCHANGED <<asked, lanes, rate, retry, given, works, faults, pulls>>
        /\ noise' = IF Link(lanes, rate) \in works THEN noise + 1 ELSE noise
    BY <1>8 DEF GiveUp
  <2>2. TriesCounted'
    BY <1>0, <2>1 DEF NoiseInv
  <2>3. NonePassed'
    BY <1>0, <1>00, <2>1 DEF NoiseInv
  <2>. QED
    BY <2>1, <2>2, <2>3
<1>9. CASE Clear
  BY <1>0, <1>9 DEF Clear, Acked, Nacked, Lost, ReplyLost, NoiseInv
<1>10. CASE NextAttempt
  <2>. SUFFICES ASSUME Quiet PROVE Goal
    BY <1>10 DEF NextAttempt
  <2>0. UNCHANGED <<asked, given, works, noise, mainUp, faults, pulls>> /\ pc = "next"
        /\ given = NoLink
    BY <1>10 DEF NextAttempt, IInv, GivenAtEnd
  <2>1. ASSUME retry + 1 >= MaxRetryCount, noise < MaxRetryCount
        PROVE  /\ Link(lanes, rate) \notin works
               /\ \A l \in Can : l.lanes < lanes \/ (l.lanes = lanes /\ l.rate < rate)
    <3>1. Link(lanes, rate) \notin works
      BY <1>0, <1>00, <2>0, <2>1 DEF NoiseInv
    <3>2. \A l \in Can : l # Link(lanes, rate) /\ ~Tried(l)
      BY <2>1, <3>1 DEF NoiseInv
    <3>. QED
      BY <1>00, <2>0, <3>1, <3>2
  <2>2. CASE retry + 1 < MaxRetryCount
    BY <1>0, <1>00, <1>10, <2>0, <2>2 DEF NextAttempt, NoiseInv
  <2>3. CASE retry + 1 >= MaxRetryCount /\ rate > 1
    <3>1. retry' = 0 /\ rate' = rate - 1 /\ pc' = "setup" /\ lanes' = lanes
      BY <1>0, <1>00, <1>10, <2>3 DEF NextAttempt
    <3>. QED
      BY <1>0, <1>00, <2>0, <2>1, <2>3, <3>1
  <2>4. CASE retry + 1 >= MaxRetryCount /\ rate = 1 /\ lanes > 1
    <3>1. /\ retry' = 0 /\ lanes' = lanes \div 2 /\ rate' = asked.rate /\ pc' = "setup"
          /\ lanes \in {2, 4}
      BY <1>0, <1>00, <1>10, <2>0, <2>4 DEF NextAttempt
    <3>2. /\ lanes = 2 => lanes' = 1
          /\ lanes = 4 => lanes' = 2
      BY <3>1
    <3>. QED
      BY <1>0, <1>00, <2>0, <2>1, <2>4, <3>1, <3>2
  <2>5. CASE retry + 1 >= MaxRetryCount /\ rate = 1 /\ lanes = 1
    <3>1. pc' = "end" /\ UNCHANGED <<lanes, rate, retry>>
      BY <1>0, <1>00, <1>10, <2>5 DEF NextAttempt
    <3>2. noise < MaxRetryCount => Can = {}
      BY <1>00, <2>0, <2>1, <2>5
    <3>. QED
      BY <1>00, <2>0, <2>1, <2>5, <3>1, <3>2
  <2>. QED
    BY <1>0, <1>00, <2>0, <2>2, <2>3, <2>4, <2>5
<1>11. CASE Finish
  BY <1>11 DEF Finish, Acked, Nacked, Lost, ReplyLost
<1>12. CASE EngineBegin
  BY <1>12 DEF EngineBegin, NoiseInv
<1>13. CASE EngineTrains
  BY <1>13 DEF EngineTrains, NoiseInv
<1>14. CASE EngineFails
  BY <1>14 DEF EngineFails, NoiseInv
<1>15. CASE Pull
  BY <1>0, <1>15 DEF Pull
<1>16. CASE PlugIn
  <2>. SUFFICES ASSUME Quiet PROVE Goal
    BY <1>16 DEF PlugIn
  <2>1. /\ pc \in {"setup", "config"}
        /\ lanes = asked.lanes /\ rate = asked.rate /\ retry = 0
    BY <1>16 DEF PlugIn, NoiseInv, SinkThere
  <2>2. \A l \in works' : l.lanes \in {1, 2, 4} /\ l.rate \in 1..3
    BY <1>16, LinksAssumption DEF PlugIn
  <2>. QED
    BY <1>0, <1>00, <1>16, <2>1, <2>2 DEF PlugIn
<1>17. CASE UNCHANGED vars
  BY <1>17 DEF vars, NoiseInv
<1>. QED
  BY <1>1, <1>2, <1>3, <1>4, <1>5, <1>6, <1>7, <1>8, <1>9, <1>10, <1>11, <1>12, <1>13,
     <1>14, <1>15, <1>16, <1>17, <1>18 DEF Next, Training, Engine

LEMMA NoiseInvariance == Spec => [](IInv /\ NoiseInv)
<1>1. Init => NoiseInv
  BY DEF Init, NoiseInv, SinkThere, TriesCounted, NonePassed, TrainedWorks, GivenWorks, Quiet
<1>2. IInv /\ NoiseInv /\ [Next]_vars => (IInv /\ NoiseInv)'
  BY Inductive, SinkThereStep, NoiseStep DEF NoiseInv
<1>. QED
  BY <1>1, <1>2, InitIInv, PTL DEF Spec

(* The first combination that works is the only one that no other precedes. *)
LEMMA BestOfCan ==
  ASSUME TypeOK, Can # {}, NEW b \in Can,
         \A k \in Can : b.lanes > k.lanes \/ (b.lanes = k.lanes /\ b.rate >= k.rate)
  PROVE  Best = b
<1>1. \A l \in Can :
        (\A k \in Can : l.lanes > k.lanes \/ (l.lanes = k.lanes /\ l.rate >= k.rate)) => l = b
  BY CanFacts DEF Can
<1>. QED
  BY <1>1 DEF Best, Can

(* A training that loses fewer attempts to noise than a combination has     *)
(* tries ends with the widest, then fastest link the cable and the sink can *)
(* carry, and with none only if none works: the three nested loops of       *)
(* CBiosDIU_DP.c:1566-1797 pass over nothing.                               *)
THEOREM NoiseIsAbsorbed == Spec => []RetriesAbsorbNoise
<1>1. IInv /\ NoiseInv => RetriesAbsorbNoise
  <2>. SUFFICES ASSUME IInv, NoiseInv, pc = "end", faults = 0, pulls = 0, noise < MaxRetryCount
                PROVE  given = Best
    BY DEF RetriesAbsorbNoise
  <2>1. /\ \A l \in Can : ~Tried(l)
        /\ IF given = NoLink THEN Can = {} ELSE given = Link(lanes, rate) /\ given \in works
    BY DEF NoiseInv, NonePassed, GivenWorks, Quiet
  <2>2. CASE Can = {}
    <3>1. Best = NoLink
      BY <2>2 DEF Best, Can
    <3>2. ASSUME given # NoLink PROVE given \in Can
      BY <2>1, <3>2, AttemptFacts, LinkFacts DEF Can, IInv
    <3>. QED
      BY <2>2, <3>1, <3>2
  <2>3. CASE Can # {}
    <3>1. given = Link(lanes, rate) /\ given \in works
      BY <2>1, <2>3
    <3>2. /\ lanes \in {1, 2, 4} /\ rate \in 1..3 /\ lanes <= asked.lanes /\ rate <= asked.rate
          /\ given.lanes = lanes /\ given.rate = rate
      BY <3>1, AttemptFacts, LinkFacts DEF IInv
    <3>3. given \in Can
      BY <3>1, <3>2 DEF Can
    <3>4. \A k \in Can : given.lanes > k.lanes \/ (given.lanes = k.lanes /\ given.rate >= k.rate)
      BY <2>1, <3>2, CanFacts DEF Tried, Can, IInv
    <3>. QED
      BY <2>3, <3>3, <3>4, BestOfCan DEF IInv
  <2>. QED
    BY <2>2, <2>3
<1>. QED
  BY <1>1, NoiseInvariance, PTL

-------------------------------------------------------------------------------
(* What is left of a training: of its loops, and of the attempt under way.  *)
LoopsLeft == ((IF lanes = 4 THEN 2 ELSE lanes - 1) * 3 + rate) * MaxRetryCount
             + (MaxRetryCount - 1 - retry)

StepsLeft ==
  CASE pc = "setup"   -> MaxPolls + 8
    [] pc = "config"  -> MaxPolls + 7
    [] pc = "protect" -> MaxPolls + 6
    [] pc = "start"   -> MaxPolls + 5
    [] pc = "poll"    -> MaxPolls - polls + 4
    [] pc = "stop"    -> 3
    [] pc = "clear"   -> 2
    [] pc = "next"    -> 1
    [] OTHER          -> 0

(* The retries of an attempt stay below their limit.                        *)
RetryBelowMax == retry < MaxRetryCount

LEMMA RetryBelowMaxStep == TypeOK /\ RetryBelowMax /\ [Next]_vars => RetryBelowMax'
<1>. SUFFICES ASSUME TypeOK, RetryBelowMax, [Next]_vars PROVE RetryBelowMax'
  OBVIOUS
<1>. USE RetryFacts DEF RetryBelowMax, loop_vars
<1>1. CASE NextAttempt
  BY <1>1 DEF NextAttempt, TypeOK, MaxRetryCount
<1>2. CASE UNCHANGED retry \/ retry' = 0
  BY <1>2 DEF MaxRetryCount
<1>. QED
  BY <1>1, <1>2 DEF Next, Begin, Training, Setup, Config, Protect, Start, PollAgain, PollDone,
     PollsUsedUp, GiveUp, Clear, Finish, Engine, EngineBegin, EngineTrains, EngineFails, Pull,
     PlugIn, vars

(* Each step of software leaves less to do, in the loops or else in the     *)
(* attempt, or ends the training; and what the engine, the cable and the    *)
(* sink do in between gives it nothing more to do.                          *)
RunsDown ==
  /\ Training => \/ pc' = "idle"
                 \/ LoopsLeft' < LoopsLeft
                 \/ LoopsLeft' = LoopsLeft /\ StepsLeft' < StepsLeft
  /\ pc # "idle" /\ ~Training => UNCHANGED <<LoopsLeft, StepsLeft>>

LeftIsNat == pc # "idle" => LoopsLeft \in Nat /\ StepsLeft \in Nat

LEMMA LeftBounded == IInv /\ RetryBelowMax => LeftIsNat
<1>. SUFFICES ASSUME IInv, RetryBelowMax, pc # "idle"
              PROVE  LoopsLeft \in Nat /\ StepsLeft \in Nat
  BY DEF LeftIsNat
<1>1. lanes \in {1, 2, 4} /\ rate \in 1..3 /\ retry \in 0..2 /\ polls \in 0..MaxPolls
      /\ MaxPolls \in Nat
  BY AttemptFacts, BoundsAssumption DEF IInv, TypeOK
<1>2. LoopsLeft \in Nat
  BY <1>1, RetryFacts DEF LoopsLeft, RetryBelowMax
<1>3. StepsLeft \in Nat
  BY <1>1 DEF StepsLeft
<1>. QED
  BY <1>2, <1>3

(* A poll that is not the last one leaves the rest of the polls.            *)
LEMMA RunsDownStep == IInv /\ RetryBelowMax /\ [Next]_vars => [RunsDown]_vars
<1>. SUFFICES ASSUME IInv, RetryBelowMax, Next PROVE RunsDown
  BY DEF RunsDown, vars
<1>. USE DEF loop_vars, port_vars, sink_vars, past_vars
<1>0. /\ pc # "idle" => /\ lanes \in {1, 2, 4} /\ rate \in 1..3
                        /\ asked.rate \in 1..3
      /\ retry \in 0..2 /\ polls \in 0..MaxPolls /\ MaxPolls \in Nat /\ retry < MaxRetryCount
      /\ MaxRetryCount \in {1, 3} /\ MaxRetryCount' = MaxRetryCount
  BY AttemptFacts, BoundsAssumption, RetryFacts DEF IInv, TypeOK, RetryBelowMax, MaxRetryCount
<1>1. CASE \/ Setup \/ Config \/ Protect \/ Start \/ PollAgain \/ PollDone
           \/ PollsUsedUp \/ GiveUp \/ Clear
  <2>1. UNCHANGED <<lanes, rate, retry>>
    BY <1>1 DEF Setup, Config, Protect, Start, PollAgain, PollDone, PollsUsedUp, GiveUp, Clear
  <2>2. LoopsLeft' = LoopsLeft
    BY <1>0, <2>1 DEF LoopsLeft
  <2>3. StepsLeft' < StepsLeft
    <3>1. CASE Setup \/ Start \/ PollAgain \/ PollDone \/ PollsUsedUp \/ GiveUp
      BY <1>0, <3>1 DEF Setup, Start, PollAgain, PollDone, PollsUsedUp, GiveUp, StepsLeft
    <3>2. CASE Config \/ Protect \/ Clear
      BY <1>0, <3>2 DEF Config, Protect, Clear, Acked, Nacked, Lost, ReplyLost, StepsLeft
    <3>. QED
      BY <1>1, <3>1, <3>2
  <2>. QED
    BY <1>1, <2>2, <2>3 DEF RunsDown, Training
<1>2. CASE NextAttempt
  <2>1. pc = "next" /\ pc' \in {"setup", "end"}
    BY <1>2 DEF NextAttempt
  <2>2. CASE pc' = "end"
    <3>1. UNCHANGED <<lanes, rate, retry>>
      BY <1>2, <2>2 DEF NextAttempt
    <3>2. LoopsLeft' = LoopsLeft /\ StepsLeft' < StepsLeft
      BY <1>0, <2>1, <2>2, <3>1 DEF LoopsLeft, StepsLeft
    <3>. QED
      BY <1>2, <3>2 DEF RunsDown, Training
  <2>3. CASE pc' = "setup"
    <3>1. \/ retry + 1 < MaxRetryCount /\ retry' = retry + 1 /\ UNCHANGED <<lanes, rate>>
          \/ /\ retry + 1 >= MaxRetryCount /\ retry' = 0 /\ rate' = rate - 1 /\ lanes' = lanes
          \/ /\ retry + 1 >= MaxRetryCount /\ retry' = 0 /\ rate = 1 /\ rate' = asked.rate
             /\ lanes > 1 /\ lanes' = lanes \div 2
      BY <1>2, <2>3 DEF NextAttempt
    <3>2. lanes = 2 => lanes \div 2 = 1
      OBVIOUS
    <3>3. lanes = 4 => lanes \div 2 = 2
      OBVIOUS
    <3>4. LoopsLeft' < LoopsLeft
      <4>1. CASE MaxRetryCount = 1
        BY <1>0, <2>1, <3>1, <3>2, <3>3, <4>1 DEF LoopsLeft
      <4>2. CASE MaxRetryCount = 3
        BY <1>0, <2>1, <3>1, <3>2, <3>3, <4>2 DEF LoopsLeft
      <4>. QED
        BY <1>0, <4>1, <4>2
    <3>. QED
      BY <1>2, <3>4 DEF RunsDown, Training
  <2>. QED
    BY <2>1, <2>2, <2>3
<1>3. CASE Finish
  BY <1>3 DEF Finish, Acked, Nacked, Lost, ReplyLost, RunsDown, Training
<1>4. ASSUME NEW l \in Offers, Begin(l.lanes, l.rate) PROVE RunsDown
  BY <1>4 DEF Begin, RunsDown, Training, Setup, Config, Protect, Start, PollAgain, PollDone,
     PollsUsedUp, GiveUp, Clear, NextAttempt, Finish
<1>5. CASE ~Training /\ (Engine \/ Pull \/ PlugIn)
  <2>1. UNCHANGED <<pc, lanes, rate, retry, polls>>
    BY <1>5 DEF Engine, EngineBegin, EngineTrains, EngineFails, Pull, PlugIn
  <2>. QED
    BY <1>0, <1>5, <2>1 DEF RunsDown, LoopsLeft, StepsLeft
<1>. QED
  BY <1>1, <1>2, <1>3, <1>4, <1>5 DEF Next, Training

(* A training comes to its end in a bounded number of its own steps: the    *)
(* pair (LoopsLeft, StepsLeft) of naturals falls, in the order of the loops, *)
(* with every one of them, and nothing raises it.                           *)
THEOREM TrainingRunsDown == Spec => []LeftIsNat /\ [][RunsDown]_vars
<1>1. Init => RetryBelowMax
  BY RetryFacts DEF Init, RetryBelowMax
<1>2. IInv /\ RetryBelowMax /\ [Next]_vars => RetryBelowMax'
  BY RetryBelowMaxStep DEF IInv
<1>. QED
  BY <1>1, <1>2, LeftBounded, RunsDownStep, Invariance, PTL DEF Spec

=============================================================================
