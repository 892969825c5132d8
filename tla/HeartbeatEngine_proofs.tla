----------------------- MODULE HeartbeatEngine_proofs -----------------------
(***************************************************************************)
(* Semaphores, locks, event queues and ticks of the engine satisfy IInv in *)
(* every reachable state, for any agents, companies, ceilings, overlapping *)
(* ticks and calls of reset().  NoSlotLeaks, LocksHaveBeats and            *)
(* QueueHasDrainer are conjuncts of it, CapacityHolds follows from it.     *)
(***************************************************************************)
EXTENDS HeartbeatEngine, FiniteSetTheorems, SequenceTheorems, TLAPS

\* No more beats are in flight than there are, so they can be counted
\* (the cardinalities of NoSlotLeaks and CapacityHolds are numbers).
LEMMA FlightsAreFinite ==
  /\ IsFiniteSet(InFlight)
  /\ Cardinality(InFlight) \in Nat
  /\ \A c \in Company : /\ IsFiniteSet(FlightsOf(c))
                        /\ Cardinality(FlightsOf(c)) \in Nat
<1>1. IsFiniteSet(InFlight)
  BY FS_Subset, EngineConstants DEF InFlight
<1>2. ASSUME NEW c \in Company PROVE IsFiniteSet(FlightsOf(c))
  BY <1>1, FS_Subset DEF FlightsOf
<1>3. QED
  BY <1>1, <1>2, FS_CardinalityType

\* At the start nothing runs and nothing is counted (Init of HeartbeatEngine).
LEMMA InitSlotsInv == Init => SlotsInv
<1> SUFFICES ASSUME Init PROVE SlotsInv
  OBVIOUS
<1> USE EngineConstants DEF Init
<1>1. SlotTypes /\ PausedRolesRest /\ LocksHaveBeats /\ QueueHasDrainer
  BY DEF SlotTypes, PausedRolesRest, LocksHaveBeats, QueueHasDrainer, InFlight
<1>2. InFlight = {} /\ \A c \in Company : FlightsOf(c) = {}
  BY DEF InFlight, FlightsOf
<1>3. Cardinality({}) = 0
  BY FS_EmptySet
<1>4. /\ Cardinality(InFlight) = 0
      /\ \A c \in Company : companyCount[c] = 0 /\ Cardinality(FlightsOf(c)) = 0
  BY <1>2, <1>3
<1>5. NoSlotLeaks /\ SlotsAreCounted
  BY <1>4 DEF NoSlotLeaks, SlotsAreCounted
<1>6. QED
  BY <1>1, <1>5 DEF SlotsInv

\* A beat that starts adds itself to the beats in flight, of its own company
\* and of no other (triggerBeat's acquisitions, heartbeat.ts:405-431).
LEMMA StartAdds ==
  ASSUME SlotTypes, NEW b \in Free, NEW a \in Agent, Start(b, a)
  PROVE  /\ Cardinality(InFlight') = Cardinality(InFlight) + 1
         /\ \A c \in Company :
               Cardinality(FlightsOf(c)') = IF c = CompanyOf[a]
                                              THEN Cardinality(FlightsOf(c)) + 1
                                              ELSE Cardinality(FlightsOf(c))
<1> USE EngineConstants DEF SlotTypes, Free, Start, InFlight, FlightsOf
<1>1. InFlight' = InFlight \cup {b} /\ b \notin InFlight
  OBVIOUS
<1>2. ASSUME NEW c \in Company
      PROVE  /\ b \notin FlightsOf(c)
             /\ c = CompanyOf[a] => FlightsOf(c)' = FlightsOf(c) \cup {b}
             /\ c # CompanyOf[a] => FlightsOf(c)' = FlightsOf(c)
  <2>1. b \notin FlightsOf(c)
    OBVIOUS
  <2>2. CASE c = CompanyOf[a]
    BY <2>1, <2>2
  <2>3. CASE c # CompanyOf[a]
    BY <2>1, <2>3
  <2> QED BY <2>1, <2>2, <2>3
<1> HIDE DEF SlotTypes, Free, Start, InFlight, FlightsOf
<1>3. Cardinality(InFlight') = Cardinality(InFlight) + 1
  BY <1>1, FlightsAreFinite, FS_AddElement
<1>4. ASSUME NEW c \in Company, c = CompanyOf[a]
      PROVE  Cardinality(FlightsOf(c)') = Cardinality(FlightsOf(c)) + 1
  BY <1>2, <1>4, FlightsAreFinite, FS_AddElement
<1> QED BY <1>2, <1>3, <1>4

\* A beat that ends takes itself away from them, unless the drained event has
\* its agent start again at once (the finally block, heartbeat.ts:459-463).
LEMMA EndRemoves ==
  ASSUME SlotTypes, NEW b \in InFlight, flight' = [flight EXCEPT ![b] = NoAgent]
  PROVE  /\ Cardinality(InFlight') = Cardinality(InFlight) - 1
         /\ \A c \in Company :
               Cardinality(FlightsOf(c)') = IF c = CompanyOf[flight[b]]
                                              THEN Cardinality(FlightsOf(c)) - 1
                                              ELSE Cardinality(FlightsOf(c))
<1> USE EngineConstants DEF SlotTypes, InFlight, FlightsOf
<1>1. InFlight' = InFlight \ {b}
  OBVIOUS
<1>2. ASSUME NEW c \in Company
      PROVE  /\ c = CompanyOf[flight[b]] => /\ FlightsOf(c)' = FlightsOf(c) \ {b}
                                            /\ b \in FlightsOf(c)
             /\ c # CompanyOf[flight[b]] => FlightsOf(c)' = FlightsOf(c)
  OBVIOUS
<1> HIDE DEF InFlight, FlightsOf
<1>3. Cardinality(InFlight') = Cardinality(InFlight) - 1
  BY <1>1, FlightsAreFinite, FS_RemoveElement
<1>4. ASSUME NEW c \in Company, c = CompanyOf[flight[b]]
      PROVE  Cardinality(FlightsOf(c)') = Cardinality(FlightsOf(c)) - 1
  <2>1. FlightsOf(c)' = FlightsOf(c) \ {b} /\ b \in FlightsOf(c)
    BY <1>2, <1>4
  <2>2. IsFiniteSet(FlightsOf(c)) /\ Cardinality(FlightsOf(c)) \in Nat
    BY FlightsAreFinite
  <2>3. Cardinality(FlightsOf(c) \ {b}) = Cardinality(FlightsOf(c)) - 1
    BY <2>1, <2>2, FS_RemoveElement
  <2>4. QED
    BY <2>1, <2>3
<1>5. QED
  BY <1>2, <1>3, <1>4

\* A request for a beat, granted or refused, keeps SlotsInv (triggerBeat up to the
\* executor, heartbeat.ts:397-440).
LEMMA TriggerKeeps ==
  ASSUME SlotsInv, NEW b \in Free, NEW a \in Agent, TriggerBeat(b, a),
         UNCHANGED <<queue, resets>>
  PROVE  SlotsInv'
<1> USE EngineConstants DEF SlotsInv
<1>1. CASE ~CanStart(a)
  <2>1. UNCHANGED <<flight, lock, globalCount, companyCount, queue, resets>>
    BY <1>1 DEF TriggerBeat
  <2>2. InFlight' = InFlight /\ \A c \in Company : FlightsOf(c)' = FlightsOf(c)
    BY <2>1 DEF InFlight, FlightsOf
  <2>3. QED
    BY <2>1, <2>2 DEF SlotTypes, PausedRolesRest, LocksHaveBeats,
                      QueueHasDrainer, NoSlotLeaks, SlotsAreCounted
<1>2. CASE CanStart(a)
  <2>1. Start(b, a)
    BY <1>2 DEF TriggerBeat
  <2>2. SlotTypes'
    BY <1>2, <2>1 DEF CanStart, Start, SlotTypes, Free
  <2>3. PausedRolesRest' /\ LocksHaveBeats' /\ QueueHasDrainer'
    BY <1>2, <2>1 DEF CanStart, Start, SlotTypes, Free, PausedRolesRest,
                      LocksHaveBeats, QueueHasDrainer, InFlight
  <2>4. ASSUME NEW c \in Company
        PROVE  companyCount'[c] = IF c = CompanyOf[a] THEN companyCount[c] + 1
                                                      ELSE companyCount[c]
    BY <2>1 DEF Start, SlotTypes
  <2>5. globalCount' = globalCount + 1 /\ resets' = resets
    BY <2>1 DEF Start
  <2>6. NoSlotLeaks'
    BY <2>1, <2>4, <2>5, StartAdds, FlightsAreFinite DEF SlotTypes, NoSlotLeaks
  <2>7. SlotsAreCounted'
    BY <2>1, <2>4, <2>5, StartAdds, FlightsAreFinite DEF SlotTypes, SlotsAreCounted
  <2>8. QED
    BY <2>2, <2>3, <2>6, <2>7
<1>3. QED
  BY <1>1, <1>2

\* The end of a beat and the drain of its agent's queue keep SlotsInv: whoever's
\* lock the end frees, the slots it gives back are its own (heartbeat.ts:459).
LEMMA FinishKeeps ==
  ASSUME SlotsInv, NEW b \in Beat, FinishBeat(b)
  PROVE  SlotsInv'
<1> DEFINE a == flight[b]
           again == queue[a] > 0 /\ a \notin PauseRoles
<1> USE EngineConstants DEF SlotsInv
<1>1. b \in InFlight /\ a \in Agent /\ CompanyOf[a] \in Company
  BY DEF FinishBeat, InFlight, SlotTypes
<1>2. /\ globalCount > 0 => Down(globalCount) = globalCount - 1
      /\ globalCount = 0 => Down(globalCount) = 0
      /\ \A c \in Company : /\ companyCount[c] > 0 =>
                                 Down(companyCount[c]) = companyCount[c] - 1
                            /\ companyCount[c] = 0 => Down(companyCount[c]) = 0
      /\ \A d \in Agent : Down(queue[d]) = IF queue[d] = 0 THEN 0 ELSE queue[d] - 1
  BY DEF Down, SlotTypes
<1>3. SlotTypes'
  BY <1>1, <1>2 DEF FinishBeat, SlotTypes
<1>4. PausedRolesRest' /\ LocksHaveBeats'
  BY <1>1 DEF FinishBeat, SlotTypes, PausedRolesRest, LocksHaveBeats, InFlight
<1>5. QueueHasDrainer'
  BY <1>1, <1>2 DEF FinishBeat, SlotTypes, PausedRolesRest, QueueHasDrainer, InFlight
<1>6. Cardinality(InFlight) > 0 /\ Cardinality(FlightsOf(CompanyOf[a])) > 0
  <2>1. InFlight # {} /\ FlightsOf(CompanyOf[a]) # {}
    BY <1>1 DEF FlightsOf
  <2>2. Cardinality(InFlight) # 0 /\ Cardinality(FlightsOf(CompanyOf[a])) # 0
    BY <1>1, <2>1, FlightsAreFinite, FS_EmptySet
  <2>3. QED
    BY <1>1, <2>2, FlightsAreFinite
<1>7. CASE again
  <2>1. flight' = flight
    BY <1>1, <1>7 DEF FinishBeat, SlotTypes
  <2>2. InFlight' = InFlight /\ \A c \in Company : FlightsOf(c)' = FlightsOf(c)
    BY <2>1 DEF InFlight, FlightsOf
  <2>3. NoSlotLeaks' /\ SlotsAreCounted'
    BY <1>1, <1>2, <1>6, <1>7, <2>2, FlightsAreFinite
    DEF FinishBeat, SlotTypes, NoSlotLeaks, SlotsAreCounted
  <2>4. QED
    BY <1>3, <1>4, <1>5, <2>3
<1>8. CASE ~again
  <2>1. flight' = [flight EXCEPT ![b] = NoAgent]
    BY <1>8 DEF FinishBeat
  <2>2. /\ globalCount' = Down(globalCount) /\ resets' = resets
        /\ \A c \in Company :
              companyCount'[c] = IF c = CompanyOf[a] THEN Down(companyCount[c])
                                                     ELSE companyCount[c]
    BY <1>1, <1>2, <1>8 DEF FinishBeat, SlotTypes
  <2>3. /\ Cardinality(InFlight') = Cardinality(InFlight) - 1
        /\ \A c \in Company :
              Cardinality(FlightsOf(c)') = IF c = CompanyOf[a]
                                             THEN Cardinality(FlightsOf(c)) - 1
                                             ELSE Cardinality(FlightsOf(c))
    BY <1>1, <2>1, EndRemoves
  <2>4. NoSlotLeaks'
    <3>1. globalCount' <= Cardinality(InFlight')
      BY <1>2, <1>6, <2>2, <2>3, FlightsAreFinite DEF SlotTypes, NoSlotLeaks
    <3>2. ASSUME NEW c \in Company
          PROVE  companyCount'[c] <= Cardinality(FlightsOf(c)')
      BY <1>2, <1>6, <2>2, <2>3, FlightsAreFinite DEF SlotTypes, NoSlotLeaks
    <3>3. QED
      BY <3>1, <3>2 DEF NoSlotLeaks
  <2>5. SlotsAreCounted'
    <3>1. ASSUME resets' = 0
          PROVE  globalCount' = Cardinality(InFlight')
      BY <1>2, <1>6, <2>2, <2>3, <3>1 DEF SlotTypes, SlotsAreCounted
    <3>2. ASSUME resets' = 0, NEW c \in Company
          PROVE  companyCount'[c] = Cardinality(FlightsOf(c)')
      BY <1>2, <1>6, <2>2, <2>3, <3>2 DEF SlotTypes, SlotsAreCounted
    <3>3. QED
      BY <3>1, <3>2 DEF SlotsAreCounted
  <2>6. QED
    BY <1>3, <1>4, <1>5, <2>4, <2>5
<1>9. QED
  BY <1>7, <1>8

\* A step that leaves the beats and the counters alone and only frees locks
\* keeps SlotsInv (expireStale, heartbeat.ts:201-211).
LEMMA ExpiryKeeps ==
  ASSUME SlotsInv, UNCHANGED <<flight, globalCount, companyCount, queue, resets>>,
         lock' \in [Agent -> Beat \cup {NoBeat}],
         \A a \in Agent : lock'[a] \in {lock[a], NoBeat}
  PROVE  SlotsInv'
<1>1. InFlight' = InFlight /\ \A c \in Company : FlightsOf(c)' = FlightsOf(c)
  BY DEF InFlight, FlightsOf
<1>2. QED
  BY <1>1 DEF SlotsInv, SlotTypes, PausedRolesRest, LocksHaveBeats, QueueHasDrainer,
              NoSlotLeaks, SlotsAreCounted

\* reset() keeps SlotsInv although beats are in flight: what they give back later
\* stops at zero (heartbeat.ts:574-592, 230-232).
LEMMA ResetKeeps == SlotsInv /\ Reset => SlotsInv'
<1> SUFFICES ASSUME SlotsInv, Reset PROVE SlotsInv'
  OBVIOUS
<1>1. InFlight' = InFlight /\ \A c \in Company : FlightsOf(c)' = FlightsOf(c)
  BY DEF Reset, InFlight, FlightsOf
<1>2. NoSlotLeaks'
  BY <1>1, FlightsAreFinite DEF Reset, NoSlotLeaks
<1>3. SlotTypes' /\ PausedRolesRest' /\ LocksHaveBeats' /\ QueueHasDrainer'
      /\ SlotsAreCounted'
  BY <1>1, EngineConstants
  DEF SlotsInv, Reset, SlotTypes, PausedRolesRest, LocksHaveBeats, QueueHasDrainer,
      SlotsAreCounted
<1>4. QED
  BY <1>2, <1>3 DEF SlotsInv

\* An event queues behind its agent's lock, which has a beat to drain it, or
\* asks for a beat at once (emitEvent, heartbeat.ts:475-493).
LEMMA EmitKeeps ==
  ASSUME SlotsInv, NEW a \in Agent, EmitEvent(a)
  PROVE  SlotsInv'
<1>1. CASE lock[a] # NoBeat
  <2>1. UNCHANGED <<flight, lock, globalCount, companyCount, resets>>
        /\ queue' = [queue EXCEPT ![a] = @ + 1]
    BY <1>1 DEF EmitEvent
  <2>2. InFlight' = InFlight /\ \A c \in Company : FlightsOf(c)' = FlightsOf(c)
    BY <2>1 DEF InFlight, FlightsOf
  <2>3. lock[a] \in Beat /\ flight[lock[a]] = a
    BY <1>1 DEF SlotsInv, SlotTypes, LocksHaveBeats
  <2>4. SlotTypes' /\ QueueHasDrainer'
    BY <2>1, <2>3 DEF SlotsInv, SlotTypes, QueueHasDrainer
  <2>5. PausedRolesRest' /\ LocksHaveBeats' /\ NoSlotLeaks' /\ SlotsAreCounted'
    BY <2>1, <2>2 DEF SlotsInv, PausedRolesRest, LocksHaveBeats, NoSlotLeaks,
                      SlotsAreCounted
  <2>6. QED
    BY <2>4, <2>5 DEF SlotsInv
<1>2. CASE lock[a] = NoBeat
  BY <1>2, TriggerKeeps DEF EmitEvent
<1>3. QED
  BY <1>1, <1>2

\* Every step of the engine preserves SlotsInv, one step per action: a tick
\* asks for a beat like an event does, and only for an agent (TickTypes).
LEMMA StepSlotsInv == IInv /\ [Next]_engineVars => SlotsInv'
<1> SUFFICES ASSUME SlotsInv, TickTypes, [Next]_engineVars PROVE SlotsInv'
  BY DEF IInv
<1>1. ASSUME UNCHANGED <<flight, lock, globalCount, companyCount, queue, resets>>
      PROVE  SlotsInv'
  BY <1>1, ExpiryKeeps DEF SlotsInv, SlotTypes
<1>2. ASSUME NEW a \in Agent, BecomeDue(a) \/ WorkArrives(a) PROVE SlotsInv'
  BY <1>1, <1>2 DEF BecomeDue, WorkArrives
<1>3. ASSUME NEW a \in Agent, ManualTrigger(a) PROVE SlotsInv'
  BY <1>3, TriggerKeeps DEF ManualTrigger
<1>4. ASSUME NEW a \in Agent, EmitEvent(a) PROVE SlotsInv'
  BY <1>4, EmitKeeps
<1>5. ASSUME NEW b \in Beat, GetLate(b) PROVE SlotsInv'
  BY <1>1, <1>5 DEF GetLate
<1>6. ASSUME NEW b \in Beat, FinishBeat(b) PROVE SlotsInv'
  BY <1>6, FinishKeeps
<1>7. ASSUME NEW k \in Tick, StartTick(k) PROVE SlotsInv'
  <2>1. /\ lock' \in [Agent -> Beat \cup {NoBeat}]
        /\ \A a \in Agent : lock'[a] \in {lock[a], NoBeat}
    BY <1>7 DEF StartTick, SlotsInv, SlotTypes
  <2>2. QED
    BY <1>7, <2>1, ExpiryKeeps DEF StartTick
<1>8. ASSUME NEW k \in Tick, ReadRoster(k) \/ PreflightSkip(k) PROVE SlotsInv'
  BY <1>1, <1>8 DEF ReadRoster, PreflightSkip
<1>9. ASSUME NEW k \in Tick, PreflightGo(k) PROVE SlotsInv'
  <2>1. tick[k].agent \in Agent
    BY <1>9 DEF PreflightGo, TickTypes
  <2>2. QED
    BY <1>9, <2>1, TriggerKeeps DEF PreflightGo
<1>10. CASE StartEngine \/ StopEngine
  BY <1>1, <1>10 DEF StartEngine, StopEngine
<1>11. ASSUME NEW c \in Company, PauseCompany(c) \/ ResumeCompany(c)
       PROVE  SlotsInv'
  BY <1>1, <1>11 DEF PauseCompany, ResumeCompany
<1>12. CASE Reset
  BY <1>12, ResetKeeps
<1>13. CASE UNCHANGED engineVars
  BY <1>1, <1>13 DEF engineVars
<1>14. QED
  BY <1>2, <1>3, <1>4, <1>5, <1>6, <1>7, <1>8, <1>9, <1>10, <1>11, <1>12, <1>13
  DEF Next, TickStep

\* The loop goes on with an agent or ends (the for of tick(), heartbeat.ts:631).
LEMMA GoOnTypes ==
  ASSUME TickTypes, NEW k \in Tick, NEW R \in SUBSET Agent, GoOn(k, R)
  PROVE  TickTypes'
<1>1. CASE tick' = [tick EXCEPT ![k] = IdleTick]
  BY <1>1 DEF TickTypes, IdleTick
<1>2. ASSUME NEW first \in Agent, NEW rest \in SUBSET Agent,
             tick' = [tick EXCEPT ![k] =
                        [at |-> "preflight", agent |-> first, rest |-> rest]]
      PROVE  TickTypes'
  BY <1>2 DEF TickTypes
<1>3. QED
  BY <1>1, <1>2 DEF GoOn

\* Every step of the engine preserves TickTypes (tick(), heartbeat.ts:605-688).
LEMMA StepTickTypes == IInv /\ [Next]_engineVars => TickTypes'
<1> SUFFICES ASSUME TickTypes, [Next]_engineVars PROVE TickTypes'
  BY DEF IInv
<1>1. ASSUME NEW k \in Tick, StartTick(k) PROVE TickTypes'
  BY <1>1 DEF StartTick, TickTypes, RosterTick
<1>2. ASSUME NEW k \in Tick, ReadRoster(k) PROVE TickTypes'
  BY <1>2, GoOnTypes DEF ReadRoster
<1>3. ASSUME NEW k \in Tick, PreflightGo(k) \/ PreflightSkip(k) PROVE TickTypes'
  BY <1>3, GoOnTypes DEF PreflightGo, PreflightSkip, TickTypes
<1>4. CASE UNCHANGED tick
  BY <1>4 DEF TickTypes
<1>5. QED
  BY <1>1, <1>2, <1>3, <1>4
  DEF Next, TickStep, engineVars, BecomeDue, WorkArrives, ManualTrigger,
      EmitEvent, GetLate, FinishBeat, StartEngine, StopEngine, PauseCompany,
      ResumeCompany, Reset

\* The agents that are due stay in the order they became due in: one joins at
\* the end, once (the lastBeatAt test of tick(), heartbeat.ts:619-624).
LEMMA BecomeDueKeeps ==
  ASSUME DueOnce, NEW a \in Agent, BecomeDue(a)
  PROVE  DueOnce'
<1> DEFINE n == Len(due)
<1>1. due \in Seq(Agent) /\ n \in Nat /\ DOMAIN due = 1 .. n
  BY LenProperties DEF DueOnce
<1>2. due' = Append(due, a) /\ \A i \in 1 .. n : due[i] # a
  BY <1>1 DEF BecomeDue, Due
<1>3. due' \in Seq(Agent) /\ DOMAIN due' = 1 .. n + 1
  BY <1>1, <1>2, AppendProperties, LenProperties
<1>4. /\ \A i \in 1 .. n : due'[i] = due[i]
      /\ due'[n + 1] = a
  BY <1>1, <1>2, AppendProperties
<1>5. \A i, j \in 1 .. n : due[i] = due[j] => i = j
  BY <1>1 DEF DueOnce
<1> HIDE DEF n
<1>6. ASSUME NEW i \in 1 .. n + 1, NEW j \in 1 .. n + 1, due'[i] = due'[j]
      PROVE  i = j
  <2>1. CASE i = n + 1 \/ j = n + 1
    BY <1>1, <1>2, <1>4, <1>6, <2>1
  <2>2. CASE i \in 1 .. n /\ j \in 1 .. n
    BY <1>4, <1>5, <1>6, <2>2
  <2> QED BY <1>1, <2>1, <2>2
<1> QED BY <1>3, <1>6 DEF DueOnce

\* A sequence without its k-th element has the others, in their order.
LEMMA WithoutOne ==
  ASSUME NEW S, NEW s \in Seq(S), NEW k \in 1 .. Len(s)
  PROVE  /\ RemoveAt(s, k) \in Seq(S)
         /\ Len(RemoveAt(s, k)) = Len(s) - 1
         /\ \A i \in 1 .. Len(s) - 1 :
               RemoveAt(s, k)[i] = s[IF i < k THEN i ELSE i + 1]
<1> DEFINE n == Len(s)
           front == SubSeq(s, 1, k - 1)
           back == SubSeq(s, k + 1, n)
           t == RemoveAt(s, k)
<1>1. n \in Nat /\ k \in 1 .. n /\ k - 1 \in Int /\ k + 1 \in Int
  BY LenProperties
<1>2. /\ \A i \in 1 .. k - 1 : s[i] \in S
      /\ \A i \in k + 1 .. n : s[i] \in S
  BY <1>1, ElementOfSeq
<1>3. /\ front \in Seq(S)
      /\ Len(front) = IF 1 <= k - 1 THEN k - 1 - 1 + 1 ELSE 0
      /\ \A i \in 1 .. k - 1 - 1 + 1 : front[i] = s[1 + i - 1]
  BY <1>1, <1>2, SubSeqProperties
<1>4. /\ back \in Seq(S)
      /\ Len(back) = IF k + 1 <= n THEN n - (k + 1) + 1 ELSE 0
      /\ \A i \in 1 .. n - (k + 1) + 1 : back[i] = s[k + 1 + i - 1]
  BY <1>1, <1>2, SubSeqProperties
<1>5. t = front \o back
  BY DEF RemoveAt
<1> HIDE DEF n, front, back, t
<1>6. Len(front) = k - 1 /\ Len(back) = n - k
  BY <1>1, <1>3, <1>4
<1>7. /\ t \in Seq(S)
      /\ Len(t) = Len(front) + Len(back)
      /\ \A i \in 1 .. Len(front) + Len(back) :
            t[i] = IF i <= Len(front) THEN front[i] ELSE back[i - Len(front)]
  <2>1. front \in Seq(S) /\ back \in Seq(S)
    BY <1>3, <1>4
  <2> QED BY <1>5, <2>1, ConcatProperties
<1>8. Len(t) = n - 1
  BY <1>1, <1>6, <1>7
<1>9. ASSUME NEW i \in 1 .. n - 1
      PROVE  t[i] = s[IF i < k THEN i ELSE i + 1]
  <2>1. i \in 1 .. Len(front) + Len(back)
    BY <1>1, <1>6
  <2>2. CASE i < k
    <3>1. i \in 1 .. k - 1 - 1 + 1 /\ 1 + i - 1 = i /\ i <= Len(front)
      BY <1>1, <1>6, <2>2
    <3>2. t[i] = front[i] /\ front[i] = s[1 + i - 1]
      BY <1>3, <1>7, <2>1, <3>1
    <3> QED BY <2>2, <3>1, <3>2
  <2>3. CASE ~(i < k)
    <3> DEFINE j == i - Len(front)
    <3>1. /\ j \in 1 .. n - (k + 1) + 1
          /\ k + 1 + j - 1 = i + 1
          /\ ~(i <= Len(front))
      BY <1>1, <1>6, <2>3
    <3>2. t[i] = back[j]
      BY <1>7, <2>1, <3>1
    <3> HIDE DEF j
    <3>3. back[j] = s[k + 1 + j - 1]
      BY <1>4, <3>1
    <3> QED BY <2>3, <3>1, <3>2, <3>3
  <2> QED BY <2>2, <2>3
<1> QED BY <1>7, <1>8, <1>9 DEF n, t

\* The agent whose interval starts anew leaves the others as they were, still
\* distinct (lastBeatAt.set, heartbeat.ts:663-668).
LEMMA BumpKeeps ==
  ASSUME DueOnce, NEW a, Bump(a)
  PROVE  DueOnce'
<1>1. CASE UNCHANGED due
  BY <1>1 DEF DueOnce
<1>2. ASSUME NEW k \in DOMAIN due, due' = RemoveAt(due, k)
      PROVE  DueOnce'
  <2> DEFINE n == Len(due)
             at(i) == IF i < k THEN i ELSE i + 1
  <2>1. due \in Seq(Agent) /\ n \in Nat /\ k \in 1 .. n /\ DOMAIN due = 1 .. n
    BY LenProperties DEF DueOnce
  <2>2. /\ due' \in Seq(Agent)
        /\ Len(due') = n - 1
        /\ \A i \in 1 .. n - 1 : due'[i] = due[at(i)]
    BY <1>2, <2>1, WithoutOne
  <2>3. DOMAIN due' = 1 .. n - 1
    BY <2>2, LenProperties
  <2>4. \A i, j \in 1 .. n : due[i] = due[j] => i = j
    BY <2>1 DEF DueOnce
  <2> HIDE DEF n
  <2>5. ASSUME NEW i \in 1 .. n - 1, NEW j \in 1 .. n - 1, due'[i] = due'[j]
        PROVE  i = j
    <3>1. at(i) \in 1 .. n /\ at(j) \in 1 .. n
      BY <2>1
    <3>2. due[at(i)] = due[at(j)]
      BY <2>2, <2>5
    <3> HIDE DEF at
    <3>3. at(i) = at(j)
      BY <2>4, <3>1, <3>2
    <3> USE DEF at
    <3> QED BY <2>1, <3>3
  <2> QED BY <2>2, <2>3, <2>5 DEF DueOnce
<1> QED BY <1>1, <1>2 DEF Bump

\* Every step of the engine keeps the due agents distinct: only an interval that
\* passes, a beat that ends and an agent without work change them.
LEMMA StepDueOnce == IInv /\ [Next]_engineVars => DueOnce'
<1> SUFFICES ASSUME DueOnce, [Next]_engineVars PROVE DueOnce'
  BY DEF IInv
<1>1. ASSUME NEW a \in Agent, BecomeDue(a) PROVE DueOnce'
  BY <1>1, BecomeDueKeeps
<1>2. ASSUME NEW b \in Beat, FinishBeat(b) PROVE DueOnce'
  BY <1>2, BumpKeeps DEF FinishBeat
<1>3. ASSUME NEW k \in Tick, PreflightSkip(k) PROVE DueOnce'
  BY <1>3, BumpKeeps DEF PreflightSkip
<1>4. CASE UNCHANGED due
  BY <1>4 DEF DueOnce
<1>5. ASSUME NEW k \in Tick, StartTick(k) \/ ReadRoster(k) \/ PreflightGo(k)
      PROVE  DueOnce'
  BY <1>4, <1>5 DEF StartTick, ReadRoster, PreflightGo
<1>6. ASSUME NEW a \in Agent, WorkArrives(a) \/ ManualTrigger(a) \/ EmitEvent(a)
      PROVE  DueOnce'
  BY <1>4, <1>6 DEF WorkArrives, ManualTrigger, EmitEvent
<1> QED
  BY <1>1, <1>2, <1>3, <1>4, <1>5, <1>6
  DEF Next, TickStep, engineVars, GetLate, StartEngine, StopEngine, PauseCompany,
      ResumeCompany, Reset

\* Semaphores, locks and queues are consistent in every reachable state.
THEOREM Inductive == Spec => []IInv
<1>1. Init => IInv
  BY InitSlotsInv, EngineConstants DEF Init, IInv, TickTypes, IdleTick, DueOnce
<1>2. IInv /\ [Next]_engineVars => IInv'
  BY StepSlotsInv, StepTickTypes, StepDueOnce DEF IInv
<1>3. QED
  BY <1>1, <1>2, PTL DEF Spec

\* The four variables of TypeOK that IInv leaves out, those no slot depends on:
\* late beats, the timer, paused companies and claimable work.
LateTypes ==
    /\ late \subseteq Beat
    /\ running \in BOOLEAN
    /\ paused \subseteq Company
    /\ work \subseteq Agent

\* Every step keeps their types (the clock, the database and the switches).
LEMMA StepLateTypes == LateTypes /\ [Next]_engineVars => LateTypes'
<1> SUFFICES ASSUME LateTypes, [Next]_engineVars PROVE LateTypes'
  OBVIOUS
<1> USE DEF LateTypes
<1>1. ASSUME NEW a \in Agent,
             BecomeDue(a) \/ WorkArrives(a) \/ ManualTrigger(a) \/ EmitEvent(a)
      PROVE  LateTypes'
  BY <1>1 DEF BecomeDue, WorkArrives, ManualTrigger, EmitEvent
<1>2. ASSUME NEW b \in Beat, GetLate(b) \/ FinishBeat(b) PROVE LateTypes'
  BY <1>2 DEF GetLate, FinishBeat
<1>3. ASSUME NEW k \in Tick, TickStep(k) PROVE LateTypes'
  BY <1>3 DEF TickStep, StartTick, ReadRoster, PreflightGo, PreflightSkip
<1>4. CASE StartEngine \/ StopEngine \/ Reset
  BY <1>4 DEF StartEngine, StopEngine, Reset
<1>5. ASSUME NEW c \in Company, PauseCompany(c) \/ ResumeCompany(c)
      PROVE  LateTypes'
  BY <1>5 DEF PauseCompany, ResumeCompany
<1>6. CASE UNCHANGED engineVars
  BY <1>6 DEF engineVars
<1> QED
  BY <1>1, <1>2, <1>3, <1>4, <1>5, <1>6 DEF Next

\* The engine's state is well typed: above all the order of the due agents is a
\* sequence of agents and the counters never go below zero (Semaphore.release,
\* heartbeat.ts:230-232).
THEOREM TypeCorrect == Spec => []TypeOK
<1>1. Init => LateTypes
  BY DEF Init, LateTypes
<1>2. Spec => []LateTypes
  BY <1>1, StepLateTypes, PTL DEF Spec
<1>3. IInv /\ LateTypes => TypeOK
  BY EngineConstants
  DEF IInv, SlotsInv, SlotTypes, TickTypes, DueOnce, LateTypes, TypeOK
<1>4. QED
  BY <1>2, <1>3, Inductive, PTL

\* The ceilings are kept until the first reset() (heartbeat.ts:64-79).
THEOREM CeilingsHold == Spec => []CapacityHolds
<1>1. IInv => CapacityHolds
  BY FlightsAreFinite DEF IInv, SlotsInv, SlotTypes, SlotsAreCounted, CapacityHolds
<1>2. QED
  BY <1>1, Inductive, PTL

\* Every slot taken has a beat in flight that gives it back, resets or not
\* (heartbeat.ts:409-431).
THEOREM SlotsReturn == Spec => []NoSlotLeaks
<1>1. IInv => NoSlotLeaks
  BY DEF IInv, SlotsInv
<1>2. QED
  BY <1>1, Inductive, PTL

\* A locked agent has its beat in flight (heartbeat.ts:177-215).
THEOREM LocksAreHeld == Spec => []LocksHaveBeats
<1>1. IInv => LocksHaveBeats
  BY DEF IInv, SlotsInv
<1>2. QED
  BY <1>1, Inductive, PTL

\* A queued event is never left behind without a beat that drains it
\* (heartbeat.ts:459-463, 475-517).
THEOREM EventsAreDrained == Spec => []QueueHasDrainer
<1>1. IInv => QueueHasDrainer
  BY DEF IInv, SlotsInv
<1>2. QED
  BY <1>1, Inductive, PTL
=============================================================================
