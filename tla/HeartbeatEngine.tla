-------------------------- MODULE HeartbeatEngine ---------------------------
(***************************************************************************)
(* The scheduler of beats (company-runtime/src/heartbeat.ts) and its       *)
(* per-company pause switch (apps/api/src/heartbeats/runtime.ts).  A beat  *)
(* starts from the scheduler's tick, from a reactive event or by hand; it  *)
(* takes a slot of its company, a global slot and its agent's lock, and    *)
(* gives all three back when its executor returns.                         *)
(*                                                                         *)
(* JavaScript runs to the next await: one action is the code between two   *)
(* awaits.  Time appears as two facts only: an agent's interval has passed *)
(* (it joins "due") and a beat is older than beatTimeoutMs ("late").       *)
(***************************************************************************)
EXTENDS FiniteSets, Integers, SequencesExt

CONSTANTS
    Agent,
    Company,
    CompanyOf,      \* CompanyOf[a]: the tenant of agent a
    PauseRoles,     \* agents whose role the static configuration pauses
    Beat,           \* running beats; an id is free again when its beat is over
    NoBeat,
    NoAgent,
    Tick,           \* ticks of the interval timer that may overlap
    MaxGlobal,      \* maxConcurrentBeats
    MaxPerCompany,  \* maxConcurrentBeatsPerCompany
    MaxQueue,       \* bound: events queued per agent
    MaxResets       \* bound: calls of reset()

ASSUME EngineConstants ==
    /\ IsFiniteSet(Beat)
    /\ CompanyOf \in [Agent -> Company]
    /\ PauseRoles \subseteq Agent
    /\ NoBeat \notin Beat
    /\ NoAgent \notin Agent
    /\ MaxGlobal \in Nat \ {0}
    /\ MaxPerCompany \in Nat \ {0}
    /\ MaxQueue \in Nat
    /\ MaxResets \in Nat

VARIABLES
    flight,         \* flight[b]: the agent beat b executes for, or NoAgent
    late,           \* beats in flight for longer than beatTimeoutMs
    lock,           \* BeatLockManager.locks
    globalCount,    \* globalSemaphore.current
    companyCount,   \* perCompanySemaphores' current
    queue,          \* eventQueue: how many events wait for the agent
    due,            \* agents whose interval has passed, longest overdue first
    tick,           \* where each tick is
    running,        \* the interval timer is set
    paused,         \* pausedCompanies of the runtime
    work,           \* agents whose role has claimable work in the database
    resets          \* calls of reset() so far

engineVars == <<flight, late, lock, globalCount, companyCount, queue, due, tick,
                running, paused, work, resets>>

IdleTick == [at |-> "idle", agent |-> NoAgent, rest |-> {}]

RosterTick == [at |-> "roster", agent |-> NoAgent, rest |-> {}]

-----------------------------------------------------------------------------
InFlight == {b \in Beat : flight[b] # NoAgent}

FlightsOf(c) == {b \in InFlight : CompanyOf[flight[b]] = c}

Free == {b \in Beat : flight[b] = NoAgent}

\* Faulty: the release does not stop at zero.
DownBelowZero(n) == n - 1

\* Semaphore.release.
Down(n) == IF n = 0 THEN 0 ELSE n - 1

\* a became due before c.
Before(a, c) == \E i, j \in DOMAIN due : i < j /\ due[i] = a /\ due[j] = c

Due == {due[i] : i \in DOMAIN due}

\* lastBeatAt.set: the agent's interval starts anew.
Bump(a) ==
    \/ a \notin Due /\ UNCHANGED due
    \/ \E i \in DOMAIN due : due[i] = a /\ due' = RemoveAt(due, i)

\* triggerBeat gets both slots and the lock.
CanStart(a) ==
    /\ a \notin PauseRoles
    /\ companyCount[CompanyOf[a]] < MaxPerCompany
    /\ globalCount < MaxGlobal
    /\ lock[a] = NoBeat

Start(b, a) ==
    /\ flight' = [flight EXCEPT ![b] = a]
    /\ lock' = [lock EXCEPT ![a] = b]
    /\ globalCount' = globalCount + 1
    /\ companyCount' = [companyCount EXCEPT ![CompanyOf[a]] = @ + 1]

\* Faulty: a request that the agent's lock refuses keeps the company's slot.
TriggerBeatLeaks(b, a) ==
    \/ CanStart(a) /\ Start(b, a)
    \/ /\ ~CanStart(a)
       /\ companyCount' = [companyCount EXCEPT ![CompanyOf[a]] =
                               IF @ < MaxPerCompany THEN @ + 1 ELSE @]
       /\ UNCHANGED <<flight, lock, globalCount>>

\* triggerBeat: a refused request gives back what it took.
TriggerBeat(b, a) ==
    \/ CanStart(a) /\ Start(b, a)
    \/ ~CanStart(a) /\ UNCHANGED <<flight, lock, globalCount, companyCount>>

-----------------------------------------------------------------------------
Init ==
    /\ flight = [b \in Beat |-> NoAgent]
    /\ late = {}
    /\ lock = [a \in Agent |-> NoBeat]
    /\ globalCount = 0
    /\ companyCount = [c \in Company |-> 0]
    /\ queue = [a \in Agent |-> 0]
    /\ due = <<>>
    /\ tick = [k \in Tick |-> IdleTick]
    /\ running = FALSE
    /\ paused = {}
    /\ work = {}
    /\ resets = 0

-----------------------------------------------------------------------------
(* The clock and the database.                                             *)

BecomeDue(a) ==
    /\ a \notin Due
    /\ due' = Append(due, a)
    /\ UNCHANGED <<flight, late, lock, globalCount, companyCount, queue, tick,
                   running, paused, work, resets>>

\* The executor races no timer of the engine: runBeat's own hard cap has the
\* same length and starts later, so cleanup runs past beatTimeoutMs.
GetLate(b) ==
    /\ b \in InFlight \ late
    /\ late' = late \cup {b}
    /\ UNCHANGED <<flight, lock, globalCount, companyCount, queue, due, tick,
                   running, paused, work, resets>>

WorkArrives(a) ==
    /\ a \notin work
    /\ work' = work \cup {a}
    /\ UNCHANGED <<flight, late, lock, globalCount, companyCount, queue, due,
                   tick, running, paused, resets>>

-----------------------------------------------------------------------------
(* Beats.                                                                  *)

\* POST /api/heartbeat/trigger.
ManualTrigger(a) ==
    /\ \E b \in Free : TriggerBeat(b, a)
    /\ UNCHANGED <<late, queue, due, tick, running, paused, work, resets>>

\* emitEvent: queue behind the agent's beat, else try to start one.
EmitEvent(a) ==
    \/ /\ lock[a] # NoBeat
       /\ queue[a] < MaxQueue
       /\ queue' = [queue EXCEPT ![a] = @ + 1]
       /\ UNCHANGED <<flight, late, lock, globalCount, companyCount, due, tick,
                      running, paused, work, resets>>
    \/ /\ lock[a] = NoBeat
       /\ \E b \in Free : TriggerBeat(b, a)
       /\ UNCHANGED <<late, queue, due, tick, running, paused, work, resets>>

\* Faulty: the lock is left to expire.
FinishBeatKeepsLock(b) ==
    LET a == flight[b] IN
    /\ b \in InFlight
    /\ Bump(a)
    /\ work' \in {work, work \ {a}}
    /\ late' = late \ {b}
    /\ flight' = [flight EXCEPT ![b] = NoAgent]
    /\ globalCount' = Down(globalCount)
    /\ companyCount' = [companyCount EXCEPT ![CompanyOf[a]] = Down(@)]
    /\ UNCHANGED <<lock, queue, tick, running, paused, resets>>

\* Faulty: a beat that has lost its lock leaves the queue alone as well.
FinishBeatOwnerDrains(b) ==
    LET a == flight[b]
        c == CompanyOf[a]
        own == lock[a] = b
        again == own /\ queue[a] > 0 /\ a \notin PauseRoles
    IN  /\ b \in InFlight
        /\ Bump(a)
        /\ work' \in {work, work \ {a}}
        /\ late' = late \ {b}
        /\ queue' = [queue EXCEPT ![a] = IF own THEN Down(@) ELSE @]
        /\ flight' = [flight EXCEPT ![b] = IF again THEN a ELSE NoAgent]
        /\ lock' = [lock EXCEPT ![a] = IF again THEN b
                                      ELSE IF own THEN NoBeat ELSE @]
        /\ globalCount' = Down(globalCount) + (IF again THEN 1 ELSE 0)
        /\ companyCount' = [companyCount EXCEPT ![c] =
                                Down(@) + (IF again THEN 1 ELSE 0)]
        /\ UNCHANGED <<tick, running, paused, resets>>

\* triggerBeat's finally frees the agent's lock, whoever has it by now, and
\* the two slots.  With an event in the queue, drainEventQueue triggers the
\* next beat at once: it takes the lock and slots just freed, and the id.
FinishBeat(b) ==
    LET a == flight[b]
        c == CompanyOf[a]
        again == queue[a] > 0 /\ a \notin PauseRoles
    IN  /\ b \in InFlight
        /\ Bump(a)
        /\ work' \in {work, work \ {a}}
        /\ late' = late \ {b}
        /\ queue' = [queue EXCEPT ![a] = Down(@)]
        /\ flight' = [flight EXCEPT ![b] = IF again THEN a ELSE NoAgent]
        /\ lock' = [lock EXCEPT ![a] = IF again THEN b ELSE NoBeat]
        /\ globalCount' = Down(globalCount) + (IF again THEN 1 ELSE 0)
        /\ companyCount' = [companyCount EXCEPT ![c] =
                                Down(@) + (IF again THEN 1 ELSE 0)]
        /\ UNCHANGED <<tick, running, paused, resets>>

-----------------------------------------------------------------------------
(* The scheduler tick.                                                     *)

\* Faulty: agents are taken in a fixed order, not longest overdue first.
GoOnByPriority(k, R) ==
    LET open == {a \in R \ PauseRoles : lock'[a] = NoBeat
                                        /\ \E i \in DOMAIN due' : due'[i] = a}
        first == CHOOSE a \in open : TRUE
    IN  tick' = [tick EXCEPT ![k] =
            IF open = {} \/ globalCount' >= MaxGlobal THEN IdleTick
            ELSE [at |-> "preflight", agent |-> first, rest |-> open \ {first}]]

\* The loop goes on over the agents of R, those without an open lock, due and
\* not paused, until an await (the claimability query) or its end.  The
\* primed variables are what the step it goes on in leaves behind.
GoOn(k, R) ==
    LET open == {a \in R \ PauseRoles : lock'[a] = NoBeat
                                        /\ \E i \in DOMAIN due' : due'[i] = a}
    IN  \/ /\ open = {} \/ globalCount' >= MaxGlobal
           /\ tick' = [tick EXCEPT ![k] = IdleTick]
        \/ /\ globalCount' < MaxGlobal
           /\ \E first \in open :
                 /\ \A c \in open \ {first} : Before(first, c)
                 /\ tick' = [tick EXCEPT ![k] =
                        [at |-> "preflight", agent |-> first,
                         rest |-> {a \in R : Before(first, a)}]]

\* Faulty: expiry gives the slots of the expired beats away as well.
StartTickFreesSlots(k) ==
    /\ running
    /\ tick[k] = IdleTick
    /\ lock' = [a \in Agent |-> IF lock[a] \in late THEN NoBeat ELSE lock[a]]
    /\ globalCount' = IF lock' # lock THEN Down(globalCount) ELSE globalCount
    /\ companyCount' = [c \in Company |->
           IF \E a \in Agent : CompanyOf[a] = c /\ lock'[a] # lock[a]
             THEN Down(companyCount[c]) ELSE companyCount[c]]
    /\ tick' = [tick EXCEPT ![k] = RosterTick]
    /\ UNCHANGED <<flight, late, queue, due, running, paused, work, resets>>

\* The timer fires: expireStale deletes the lock of every late beat.  Then
\* the roster is awaited.
StartTick(k) ==
    /\ running
    /\ tick[k] = IdleTick
    /\ lock' = [a \in Agent |-> IF lock[a] \in late THEN NoBeat ELSE lock[a]]
    /\ tick' = [tick EXCEPT ![k] = RosterTick]
    /\ UNCHANGED <<flight, late, globalCount, companyCount, queue, due, running,
                   paused, work, resets>>

\* The roster leaves out paused companies; "now" is read once it is there.
ReadRoster(k) ==
    /\ tick[k].at = "roster"
    /\ UNCHANGED <<flight, late, lock, globalCount, companyCount, queue, due,
                   running, paused, work, resets>>
    /\ GoOn(k, {a \in Agent : CompanyOf[a] \notin paused})

\* roleHasClaimableWork found work, or failed and is ignored: trigger a beat.
PreflightGo(k) ==
    LET a == tick[k].agent IN
    /\ tick[k].at = "preflight"
    /\ \E b \in Free : TriggerBeat(b, a)
    /\ UNCHANGED <<late, queue, due, running, paused, work, resets>>
    /\ GoOn(k, tick[k].rest)

\* It found none: the agent is bumped without a beat.
PreflightSkip(k) ==
    LET a == tick[k].agent IN
    /\ tick[k].at = "preflight"
    /\ a \notin work
    /\ Bump(a)
    /\ UNCHANGED <<flight, late, lock, globalCount, companyCount, queue, running,
                   paused, work, resets>>
    /\ GoOn(k, tick[k].rest)

-----------------------------------------------------------------------------
(* Switches.                                                               *)

StartEngine ==
    /\ ~running
    /\ running' = TRUE
    /\ UNCHANGED <<flight, late, lock, globalCount, companyCount, queue, due,
                   tick, paused, work, resets>>

\* stop() clears the timer; a tick that is awaiting goes on.
StopEngine ==
    /\ running
    /\ running' = FALSE
    /\ UNCHANGED <<flight, late, lock, globalCount, companyCount, queue, due,
                   tick, paused, work, resets>>

PauseCompany(c) ==
    /\ c \notin paused
    /\ paused' = paused \cup {c}
    /\ UNCHANGED <<flight, late, lock, globalCount, companyCount, queue, due,
                   tick, running, work, resets>>

ResumeCompany(c) ==
    /\ c \in paused
    /\ paused' = paused \ {c}
    /\ UNCHANGED <<flight, late, lock, globalCount, companyCount, queue, due,
                   tick, running, work, resets>>

\* reset(): locks and slots are freed under the beats in flight.  It clears
\* lastBeatAt too: from now on BecomeDue may take any agent.
Reset ==
    /\ resets < MaxResets
    /\ resets' = resets + 1
    /\ lock' = [a \in Agent |-> NoBeat]
    /\ globalCount' = 0
    /\ companyCount' = [c \in Company |-> 0]
    /\ queue' = [a \in Agent |-> 0]
    /\ UNCHANGED <<flight, late, due, tick, running, paused, work>>

-----------------------------------------------------------------------------
TickStep(k) == StartTick(k) \/ ReadRoster(k) \/ PreflightGo(k) \/ PreflightSkip(k)

Next ==
    \/ \E a \in Agent : \/ BecomeDue(a)
                        \/ WorkArrives(a)
                        \/ ManualTrigger(a)
                        \/ EmitEvent(a)
    \/ \E b \in Beat : GetLate(b) \/ FinishBeat(b)
    \/ \E k \in Tick : TickStep(k)
    \/ StartEngine
    \/ StopEngine
    \/ \E c \in Company : PauseCompany(c) \/ ResumeCompany(c)
    \/ Reset

Spec == Init /\ [][Next]_engineVars

\* The timer fires while the engine runs, queries return, every beat ends (its
\* hard cap) and time passes.  Events, triggers and switches need not happen.
Fairness ==
    /\ \A k \in Tick : WF_engineVars(TickStep(k))
    /\ \A b \in Beat : WF_engineVars(FinishBeat(b))
    /\ \A a \in Agent : WF_engineVars(BecomeDue(a))

FairSpec == Spec /\ Fairness

-----------------------------------------------------------------------------
(* Properties.                                                             *)

TypeOK ==
    /\ flight \in [Beat -> Agent \cup {NoAgent}]
    /\ late \subseteq Beat
    /\ lock \in [Agent -> Beat \cup {NoBeat}]
    /\ globalCount \in Nat
    /\ companyCount \in [Company -> Nat]
    /\ queue \in [Agent -> Nat]
    /\ due \in Seq(Agent)
    /\ tick \in [Tick -> [at : {"idle", "roster", "preflight"},
                          agent : Agent \cup {NoAgent}, rest : SUBSET Agent]]
    /\ running \in BOOLEAN
    /\ paused \subseteq Company
    /\ work \subseteq Agent
    /\ resets \in Nat

\* Neither ceiling is exceeded, though a lock that expires lets an agent start
\* a second beat: expiry frees no slot (heartbeat.ts:64-79, 201-211).
CapacityHolds ==
    resets = 0 =>
        /\ Cardinality(InFlight) <= MaxGlobal
        /\ \A c \in Company : Cardinality(FlightsOf(c)) <= MaxPerCompany

\* No slot is taken that no beat in flight gives back, so the engine never
\* falls silent at a ceiling with nothing running (heartbeat.ts:409-431).
NoSlotLeaks ==
    /\ globalCount <= Cardinality(InFlight)
    /\ \A c \in Company : companyCount[c] <= Cardinality(FlightsOf(c))

\* A locked agent has the beat that locked it still in flight.
LocksHaveBeats ==
    \A a \in Agent : lock[a] # NoBeat => flight[lock[a]] = a

\* A queued event has a beat of its agent whose end will drain it, even when
\* that beat's lock has expired or was freed by another beat (heartbeat.ts:459).
QueueHasDrainer ==
    \A a \in Agent : queue[a] > 0 => \E b \in Beat : flight[b] = a

\* What the three facts above need to be inductive: the counters stay within
\* their ceilings, no paused role has a beat, and until the first reset the
\* counters are the numbers of beats in flight.
SlotTypes ==
    /\ flight \in [Beat -> Agent \cup {NoAgent}]
    /\ lock \in [Agent -> Beat \cup {NoBeat}]
    /\ globalCount \in 0 .. MaxGlobal
    /\ companyCount \in [Company -> 0 .. MaxPerCompany]
    /\ queue \in [Agent -> Nat]
    /\ resets \in Nat

PausedRolesRest == \A b \in InFlight : flight[b] \notin PauseRoles

SlotsAreCounted ==
    resets = 0 =>
        /\ globalCount = Cardinality(InFlight)
        /\ \A c \in Company : companyCount[c] = Cardinality(FlightsOf(c))

SlotsInv ==
    /\ SlotTypes
    /\ PausedRolesRest
    /\ LocksHaveBeats
    /\ QueueHasDrainer
    /\ NoSlotLeaks
    /\ SlotsAreCounted

\* A tick that awaits the claimability query does so for an agent.
TickTypes ==
    /\ tick \in [Tick -> [at : {"idle", "roster", "preflight"},
                          agent : Agent \cup {NoAgent}, rest : SUBSET Agent]]
    /\ \A k \in Tick : tick[k].at = "preflight" => tick[k].agent \in Agent

\* An agent has one place in the order of the due ones, so that the start of
\* its interval anew leaves it none (lastBeatAt.set).
DueOnce ==
    /\ due \in Seq(Agent)
    /\ \A i, j \in DOMAIN due : due[i] = due[j] => i = j

\* The inductive invariant of semaphores, locks, event queues and ticks
\* (heartbeat.ts:64-79, 405-462, 606-680).
IInv == SlotsInv /\ TickTypes /\ DueOnce

\* Work of an unpaused role gets a beat while the engine runs, once reactive
\* events and triggers by hand stop coming (heartbeat.ts:619-624).
Undisturbed == <>[][\A a \in Agent : ~(EmitEvent(a) \/ ManualTrigger(a))]_engineVars

Served(a) ==
    \/ \E b \in Beat : flight[b] = a
    \/ a \notin work
    \/ ~running
    \/ CompanyOf[a] \in paused

WorkGetsABeat ==
    Undisturbed => \A a \in Agent \ PauseRoles : []<>Served(a)

=============================================================================
