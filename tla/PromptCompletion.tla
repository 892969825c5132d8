------------------------- MODULE PromptCompletion -------------------------
(***************************************************************************)
(* How a prompt sent to OpenCode is waited for, and what happens to its    *)
(* session afterwards (prompts/llm.ts, orchestration/run-beat.ts,          *)
(* orchestration/session-resume.ts, heartbeats/event-bridge.ts).           *)
(*                                                                         *)
(* A waiter registers a completion under its session's id; idle reports of *)
(* the SSE bridge and of the poller resolve it, the watchdogs of the       *)
(* poller, a failing prompt call, a cancelled company and a timer reject   *)
(* it.  A nudge aborts the session's turn and prompts again, and leaves    *)
(* two flags: the next idle report is the aborted turn's (skips), and the  *)
(* failure of the prompt call is our own doing (nudges).                   *)
(*                                                                         *)
(* Two kinds of waiters: beats, which park an unfinished session for the   *)
(* next beat of their agent, and calls of runPromptText, which share the   *)
(* one session of their agent and retry on another.                        *)
(*                                                                         *)
(* OpenCode is not modelled: it may report a session idle, fail a prompt   *)
(* call or go silent at any time, in any order and any number of times.    *)
(* Clocks are left out the same way: a watchdog may bark whenever the      *)
(* other conditions of its guard hold.                                     *)
(***************************************************************************)
EXTENDS Naturals

CONSTANTS
    Beats,        \* beats, each runs once
    Calls,        \* calls of runPromptText, all for one agent
    Agents,       \* agents that have beats
    AgentOf,      \* the agent of a beat
    Companies,    \* companies of one server
    CompanyOf,    \* the company of an agent
    NoOne,        \* no waiter
    MaxSessions,  \* bound: sessions OpenCode creates
    ResumeLimit,  \* SESSION_RESUME_LIMIT
    RetryLimit,   \* maxRetries of withRetry
    MaxResets,    \* bound: companies that are reset
    Faults        \* whether a query or OpenCode may throw while a prompt is set up

Prompts == Beats \cup Calls
Sessions == 1 .. MaxSessions
NoSession == 0

ASSUME Disjoint == Beats \cap Calls = {} /\ NoOne \notin Prompts
ASSUME AgentType == AgentOf \in [Beats -> Agents] /\ CompanyOf \in [Agents -> Companies]
ASSUME BoundTypes == MaxSessions \in Nat /\ MaxResets \in Nat /\ ResumeLimit \in Nat /\ RetryLimit \in Nat \ {0}
                     /\ Faults \in BOOLEAN

VARIABLES
    stage,        \* where the code that wants the prompt is
    session,      \* the session it uses (currentSessionId, for a call)
    resumes,      \* beats: resumedFrom.resumeCount
    attempt,      \* calls: retries so far
    open,         \* prompt requests that have not answered yet
    pending,      \* pendingPromptCompletions: whose entry a session has
    timers,       \* armed timers of entries, <<waiter, session>>
    told,         \* nudges of a session's entry (nudgeCount, wrapUpSent)
    nudges,       \* activeNudges
    skips,        \* nudgeIdleSkips
    contexts,     \* sessions in sessionContextMap
    parked,       \* the resumable session of each agent
    gone,         \* sessions that were destroyed
    created,      \* how many sessions were created
    agentSession, \* the entry of agentSessions that calls share
    resets,       \* resets so far
    resetting,    \* companies whose reset has yet to clear the contexts
    dropped,      \* ghost: waiters whose entry another registration replaced
    lost,         \* ghost: waiters whose entry a reset threw away
    forgotten     \* ghost: sessions whose context a reset threw away

waiters == <<stage, session, resumes, attempt, open>>
entries == <<pending, timers, told, nudges, skips>>
stores == <<contexts, parked, gone, created, agentSession>>
ghosts == <<dropped, lost, forgotten>>
aside == <<resets, resetting, ghosts>>
vars == <<waiters, entries, stores, aside>>

Stages == {"new", "taken", "creating", "acquired", "ready", "waiting",
           "resolved", "rejected", "parking", "over"}
Settled == {"resolved", "rejected"}

Parking == [session : Sessions \cup {NoSession}, resumes : 0 .. ResumeLimit]
NoParking == [session |-> NoSession, resumes |-> 0]

---------------------------------------------------------------------------
(* Registering and settling an entry. *)

\* An entry for p under s.  An entry another waiter has there is dropped:
\* its timer is cleared, its promise is never settled.
PutEntry(p, s) ==
    /\ pending' = [pending EXCEPT ![s] = p]
    /\ timers' = (timers \ {<<pending[s], s>>}) \cup {<<p, s>>}
    /\ told' = [told EXCEPT ![s] = {}]
    /\ dropped' = IF pending[s] = NoOne THEN dropped ELSE dropped \cup {pending[s]}

\* Faulty: the timer of a settled entry stays armed.
SettleEntryKeepTimer(s, how) ==
    IF pending[s] = NoOne
    THEN UNCHANGED <<stage, pending, timers>>
    ELSE /\ stage' = [stage EXCEPT ![pending[s]] = how]
         /\ pending' = [pending EXCEPT ![s] = NoOne]
         /\ UNCHANGED timers

\* Clears the timer, removes the entry and settles its promise.
SettleEntry(s, how) ==
    IF pending[s] = NoOne
    THEN UNCHANGED <<stage, pending, timers>>
    ELSE /\ stage' = [stage EXCEPT ![pending[s]] = how]
         /\ timers' = timers \ {<<pending[s], s>>}
         /\ pending' = [pending EXCEPT ![s] = NoOne]

ResolvePromptCompletion(s) ==
    IF s \in skips
    THEN /\ skips' = skips \ {s}
         /\ UNCHANGED <<stage, pending, timers, nudges>>
    ELSE /\ nudges' = nudges \ {s}
         /\ SettleEntry(s, "resolved")
         /\ UNCHANGED skips

\* Faulty: the flag of the aborted turn's idle report is forgotten.
RejectKeepSkip(s) ==
    /\ nudges' = nudges \ {s}
    /\ SettleEntry(s, "rejected")
    /\ UNCHANGED skips

RejectPromptCompletion(s) ==
    /\ nudges' = nudges \ {s}
    /\ skips' = skips \ {s}
    /\ SettleEntry(s, "rejected")

Init ==
    /\ stage = [p \in Prompts |-> "new"]
    /\ session = [p \in Prompts |-> NoSession]
    /\ resumes = [b \in Beats |-> 0]
    /\ attempt = [c \in Calls |-> 0]
    /\ open = [p \in Prompts |-> 0]
    /\ pending = [s \in Sessions |-> NoOne]
    /\ timers = {}
    /\ told = [s \in Sessions |-> {}]
    /\ nudges = {}
    /\ skips = {}
    /\ contexts = {}
    /\ parked = [a \in Agents |-> NoParking]
    /\ gone = {}
    /\ created = 0
    /\ agentSession = NoSession
    /\ resets = 0
    /\ resetting = {}
    /\ dropped = {}
    /\ lost = {}
    /\ forgotten = {}

---------------------------------------------------------------------------
(* A beat finds its session, waits, and parks or retires the session. *)

\* Faulty: the entry is read and stays.
PeekParked(b) ==
    LET entry == parked[AgentOf[b]] IN
    /\ stage[b] = "new"
    /\ stage' = [stage EXCEPT ![b] = "taken"]
    /\ session' = [session EXCEPT ![b] = entry.session]
    /\ resumes' = [resumes EXCEPT ![b] = entry.resumes]
    /\ UNCHANGED <<attempt, open, entries, stores, aside>>

\* takeResumableSession: whoever reads the parked session removes it.
TakeParked(b) ==
    LET entry == parked[AgentOf[b]] IN
    /\ stage[b] = "new"
    /\ stage' = [stage EXCEPT ![b] = "taken"]
    /\ session' = [session EXCEPT ![b] = entry.session]
    /\ resumes' = [resumes EXCEPT ![b] = entry.resumes]
    /\ parked' = [parked EXCEPT ![AgentOf[b]] = NoParking]
    /\ UNCHANGED <<attempt, open, entries, contexts, gone, created, agentSession, aside>>

\* The task is still open and OpenCode still holds the session.
Resume(b) ==
    /\ stage[b] = "taken"
    /\ session[b] # NoSession
    /\ resumes[b] < ResumeLimit
    /\ stage' = [stage EXCEPT ![b] = "acquired"]
    /\ resumes' = [resumes EXCEPT ![b] = @ + 1]
    /\ UNCHANGED <<session, attempt, open, entries, stores, aside>>

\* Nothing parked, or the parked session is retired: a fresh one.
CreateBeatSession(b) ==
    /\ stage[b] = "taken"
    /\ created < MaxSessions
    /\ created' = created + 1
    /\ gone' = gone \cup ({session[b]} \ {NoSession})
    /\ stage' = [stage EXCEPT ![b] = "acquired"]
    /\ session' = [session EXCEPT ![b] = created + 1]
    /\ resumes' = [resumes EXCEPT ![b] = 0]
    /\ UNCHANGED <<attempt, open, entries, contexts, parked, agentSession, aside>>

\* Faulty: a resumed session is taken to have its context already.
RegisterFreshContext(b) ==
    /\ stage[b] = "acquired"
    /\ stage' = [stage EXCEPT ![b] = "ready"]
    /\ contexts' = IF resumes[b] = 0 THEN contexts \cup {session[b]} ELSE contexts
    /\ UNCHANGED <<session, resumes, attempt, open, entries, parked, gone, created, agentSession, aside>>

\* Faulty: the session is parked as soon as it is known, not at the beat's end.
RegisterContextAndPark(b) ==
    /\ stage[b] = "acquired"
    /\ stage' = [stage EXCEPT ![b] = "ready"]
    /\ contexts' = contexts \cup {session[b]}
    /\ forgotten' = forgotten \ {session[b]}
    /\ parked' = [parked EXCEPT ![AgentOf[b]] = [session |-> session[b], resumes |-> resumes[b]]]
    /\ UNCHANGED <<session, resumes, attempt, open, entries, gone, created, agentSession, resets, resetting, dropped, lost>>

RegisterContext(b) ==
    /\ stage[b] = "acquired"
    /\ stage' = [stage EXCEPT ![b] = "ready"]
    /\ contexts' = contexts \cup {session[b]}
    /\ forgotten' = forgotten \ {session[b]}
    /\ UNCHANGED <<session, resumes, attempt, open, entries, parked, gone, created, agentSession, resets, resetting, dropped, lost>>

\* Nothing to do: the session is destroyed without a prompt.
NoWork(b) ==
    /\ b \in Beats
    /\ stage[b] = "ready"
    /\ stage' = [stage EXCEPT ![b] = "over"]
    /\ contexts' = contexts \ {session[b]}
    /\ gone' = gone \cup {session[b]}
    /\ UNCHANGED <<session, resumes, attempt, open, entries, parked, created, agentSession, aside>>

\* A query throws before the try block: no cleanup runs.
SetUpFails(b) ==
    /\ Faults
    /\ b \in Beats
    /\ stage[b] \in {"taken", "acquired", "ready"}
    /\ stage' = [stage EXCEPT ![b] = "over"]
    /\ UNCHANGED <<session, resumes, attempt, open, entries, stores, aside>>

\* OpenCode cannot be reached: the attempt fails before it has an entry.
Unreachable(p) ==
    /\ Faults
    /\ stage[p] = "ready"
    /\ stage' = [stage EXCEPT ![p] = "rejected"]
    /\ UNCHANGED <<session, resumes, attempt, open, entries, stores, aside>>

\* registerPromptCompletion and the prompt request that is fired next.
Register(p) ==
    /\ stage[p] = "ready"
    /\ stage' = [stage EXCEPT ![p] = "waiting"]
    /\ open' = [open EXCEPT ![p] = @ + 1]
    /\ PutEntry(p, session[p])
    /\ UNCHANGED <<session, resumes, attempt, nudges, skips, stores, resets, resetting, lost, forgotten>>

\* Scoring and claim release are TaskClaims' business.
UnregisterContext(b) ==
    /\ b \in Beats
    /\ stage[b] \in Settled
    /\ stage' = [stage EXCEPT ![b] = "parking"]
    /\ contexts' = contexts \ {session[b]}
    /\ UNCHANGED <<session, resumes, attempt, open, entries, parked, gone, created, agentSession, aside>>

\* storeResumableSession: the task is unfinished.
Park(b) ==
    /\ stage[b] = "parking"
    /\ resumes[b] < ResumeLimit
    /\ stage' = [stage EXCEPT ![b] = "over"]
    /\ parked' = [parked EXCEPT ![AgentOf[b]] = [session |-> session[b], resumes |-> resumes[b]]]
    /\ UNCHANGED <<session, resumes, attempt, open, entries, contexts, gone, created, agentSession, aside>>

Retire(b) ==
    /\ stage[b] = "parking"
    /\ stage' = [stage EXCEPT ![b] = "over"]
    /\ gone' = gone \cup {session[b]}
    /\ UNCHANGED <<session, resumes, attempt, open, entries, contexts, parked, created, agentSession, aside>>

---------------------------------------------------------------------------
(* A call of runPromptText: the agent's session, and another on a retry. *)

FindAgentSession(c) ==
    /\ c \in Calls
    /\ stage[c] = "new"
    /\ IF agentSession = NoSession
       THEN /\ stage' = [stage EXCEPT ![c] = "creating"]
            /\ UNCHANGED session
       ELSE /\ stage' = [stage EXCEPT ![c] = "ready"]
            /\ session' = [session EXCEPT ![c] = agentSession]
    /\ UNCHANGED <<resumes, attempt, open, entries, stores, aside>>

CreateAgentSession(c) ==
    /\ stage[c] = "creating"
    /\ created < MaxSessions
    /\ created' = created + 1
    /\ agentSession' = created + 1
    /\ stage' = [stage EXCEPT ![c] = "ready"]
    /\ session' = [session EXCEPT ![c] = created + 1]
    /\ UNCHANGED <<resumes, attempt, open, entries, contexts, parked, gone, aside>>

\* The reply is read, or the error is not worth a retry.
CallEnds(c) ==
    /\ c \in Calls
    /\ stage[c] \in Settled
    /\ stage' = [stage EXCEPT ![c] = "over"]
    /\ UNCHANGED <<session, resumes, attempt, open, entries, stores, aside>>

\* Faulty: the first attempt is not counted.
RetryCallOnceMore(c) ==
    /\ c \in Calls
    /\ stage[c] \in Settled
    /\ attempt[c] < RetryLimit
    /\ attempt' = [attempt EXCEPT ![c] = @ + 1]
    /\ agentSession' = NoSession
    /\ stage' = [stage EXCEPT ![c] = "new"]
    /\ UNCHANGED <<session, resumes, open, entries, contexts, parked, gone, created, aside>>

\* The prompt failed, or its reply is an error worth a retry: onRetry deletes
\* the agent's session and asks for another.
RetryCall(c) ==
    /\ c \in Calls
    /\ stage[c] \in Settled
    /\ attempt[c] + 1 < RetryLimit
    /\ attempt' = [attempt EXCEPT ![c] = @ + 1]
    /\ agentSession' = NoSession
    /\ stage' = [stage EXCEPT ![c] = "new"]
    /\ UNCHANGED <<session, resumes, open, entries, contexts, parked, gone, created, aside>>

---------------------------------------------------------------------------
(* What OpenCode, the poller and the routes do to the entries. *)

\* The bridge or the poller takes the session to be idle.  A poll can have
\* read its status when the session had another waiter, or none.
ReportIdle(s) ==
    /\ s <= created
    /\ ResolvePromptCompletion(s)
    /\ UNCHANGED <<session, resumes, attempt, open, told, stores, aside>>

\* session.error, for sessions that are in agentSessions.
ReportError(s) ==
    /\ s = agentSession
    /\ pending[s] # NoOne
    /\ RejectPromptCompletion(s)
    /\ UNCHANGED <<session, resumes, attempt, open, told, stores, aside>>

\* The prompt request answers: nothing waits for it.
PromptReturns(p) ==
    /\ open[p] > 0
    /\ open' = [open EXCEPT ![p] = @ - 1]
    /\ UNCHANGED <<stage, session, resumes, attempt, entries, stores, aside>>

\* It fails.  A beat ignores that while a nudge owns the session; a call
\* rejects whatever waits on its current session.
PromptFails(p) ==
    /\ open[p] > 0
    /\ open' = [open EXCEPT ![p] = @ - 1]
    /\ IF p \in Beats /\ session[p] \in nudges
       THEN UNCHANGED <<stage, pending, timers, nudges, skips>>
       ELSE RejectPromptCompletion(session[p])
    /\ UNCHANGED <<session, resumes, attempt, told, stores, aside>>

Nudge(s, why) ==
    /\ told' = [told EXCEPT ![s] = @ \cup {why}]
    /\ nudges' = nudges \cup {s}
    /\ skips' = skips \cup {s}
    /\ UNCHANGED <<waiters, pending, timers, stores, aside>>

\* Two minutes before the hard cap, for beats, once.
WrapUp(s) ==
    /\ pending[s] \in Beats
    /\ "wrap" \notin told[s]
    /\ s \in contexts
    /\ Nudge(s, "wrap")

\* 150 s of silence, once.
NudgeStalled(s) ==
    /\ pending[s] # NoOne
    /\ "stall" \notin told[s]
    /\ Nudge(s, "stall")

\* Silent after its nudge, no tool call, reasoning only, or a read loop.
GuardRejects(s) ==
    /\ pending[s] # NoOne
    /\ RejectPromptCompletion(s)
    /\ UNCHANGED <<session, resumes, attempt, open, told, stores, aside>>

\* Faulty: the timer, too, takes the flag for the aborted turn's end.
TimerSkips(p, s) ==
    /\ <<p, s>> \in timers
    /\ timers' = timers \ {<<p, s>>}
    /\ skips' = skips \ {s}
    /\ IF s \in skips
       THEN UNCHANGED <<stage, pending>>
       ELSE /\ pending' = [pending EXCEPT ![s] = NoOne]
            /\ stage' = IF stage[p] = "waiting" THEN [stage EXCEPT ![p] = "rejected"] ELSE stage
    /\ UNCHANGED <<session, resumes, attempt, open, told, nudges, stores, aside>>

\* The timer of an entry.  It goes by the session's id and leaves the flags: if
\* its own entry was thrown away, whoever has the session by now loses his.
TimerFires(p, s) ==
    /\ <<p, s>> \in timers
    /\ timers' = timers \ {<<p, s>>}
    /\ pending' = [pending EXCEPT ![s] = NoOne]
    /\ stage' = IF stage[p] = "waiting" THEN [stage EXCEPT ![p] = "rejected"] ELSE stage
    /\ lost' = (IF p \in lost THEN lost \cup ({pending[s]} \ {NoOne}) ELSE lost) \ {p}
    /\ UNCHANGED <<session, resumes, attempt, open, told, nudges, skips, stores, resets, resetting,
                   dropped, forgotten>>

---------------------------------------------------------------------------
(* Stopping and resetting a company. *)

\* The sessions of k's beats that wait, as far as their contexts tell.
InFlight(k) ==
    {s \in contexts : pending[s] \in Beats /\ CompanyOf[AgentOf[pending[s]]] = k}

RejectAll(hit) ==
    /\ timers' = timers \ {<<pending[s], s>> : s \in hit}
    /\ stage' = [p \in Prompts |->
                   IF \E s \in hit : pending[s] = p THEN "rejected" ELSE stage[p]]
    /\ nudges' = nudges \ hit
    /\ skips' = skips \ hit

\* POST /orchestrator/stop.
CancelInFlightBeats(k) ==
    /\ InFlight(k) # {}
    /\ pending' = [s \in Sessions |-> IF s \in InFlight(k) THEN NoOne ELSE pending[s]]
    /\ RejectAll(InFlight(k))
    /\ UNCHANGED <<session, resumes, attempt, open, told, stores, aside>>

\* DELETE /company: k's beats are cancelled, then CompanyRuntime.reset empties
\* the maps of every company, and leaves their timers armed.
BeginReset(k) ==
    /\ resets < MaxResets
    /\ resets' = resets + 1
    /\ resetting' = resetting \cup {k}
    /\ RejectAll(InFlight(k))
    /\ pending' = [s \in Sessions |-> NoOne]
    /\ lost' = lost \cup ({pending[s] : s \in Sessions \ InFlight(k)} \ {NoOne})
    /\ agentSession' = NoSession
    /\ UNCHANGED <<session, resumes, attempt, open, told, contexts, parked, gone, created,
                   dropped, forgotten>>

\* Files and rows are gone: the contexts go last, those of every company.
FinishReset(k) ==
    /\ k \in resetting
    /\ resetting' = resetting \ {k}
    /\ contexts' = {}
    /\ forgotten' = forgotten \cup contexts
    /\ UNCHANGED <<waiters, entries, parked, gone, created, agentSession, resets, dropped, lost>>

BeatStep(b) ==
    \/ TakeParked(b) \/ Resume(b) \/ CreateBeatSession(b) \/ RegisterContext(b)
    \/ NoWork(b) \/ SetUpFails(b) \/ UnregisterContext(b) \/ Park(b) \/ Retire(b)

CallStep(c) ==
    FindAgentSession(c) \/ CreateAgentSession(c) \/ CallEnds(c) \/ RetryCall(c)

PromptStep(p) == Unreachable(p) \/ Register(p) \/ PromptReturns(p) \/ PromptFails(p)

SessionStep(s) ==
    \/ ReportIdle(s) \/ ReportError(s) \/ WrapUp(s) \/ NudgeStalled(s) \/ GuardRejects(s)

SomeTimerFires(p) == \E s \in Sessions : TimerFires(p, s)

Next ==
    \/ \E b \in Beats : BeatStep(b)
    \/ \E c \in Calls : CallStep(c)
    \/ \E p \in Prompts : PromptStep(p) \/ SomeTimerFires(p)
    \/ \E s \in Sessions : SessionStep(s)
    \/ \E k \in Companies : CancelInFlightBeats(k) \/ BeginReset(k) \/ FinishReset(k)

\* Timers fire.  Nothing is assumed of OpenCode, the bridge or the poller.
Spec == Init /\ [][Next]_vars /\ \A p \in Prompts : WF_vars(SomeTimerFires(p))

---------------------------------------------------------------------------
(* Properties. *)

TypeOK ==
    /\ stage \in [Prompts -> Stages]
    /\ session \in [Prompts -> Sessions \cup {NoSession}]
    /\ resumes \in [Beats -> 0 .. ResumeLimit]
    /\ attempt \in [Calls -> 0 .. RetryLimit - 1]
    /\ open \in [Prompts -> Nat]
    /\ pending \in [Sessions -> Prompts \cup {NoOne}]
    /\ timers \in SUBSET (Prompts \X Sessions)
    /\ told \in [Sessions -> SUBSET {"wrap", "stall"}]
    /\ nudges \in SUBSET Sessions
    /\ skips \in SUBSET Sessions
    /\ contexts \in SUBSET Sessions
    /\ parked \in [Agents -> Parking]
    /\ gone \in SUBSET Sessions
    /\ created \in 0 .. MaxSessions
    /\ agentSession \in Sessions \cup {NoSession}
    /\ resets \in 0 .. MaxResets
    /\ resetting \in SUBSET Companies
    /\ dropped \in SUBSET Prompts
    /\ lost \in SUBSET Prompts
    /\ forgotten \in SUBSET Sessions

\* Whoever waits has an armed timer and is in the map under its session:
\* sessions are resumed under the same id, and timers and settlements go by the
\* id alone.  Left out: whose entry another prompt on the session replaced, and,
\* for the map, whose entry the reset of some company threw away.
WaitersAreHeard ==
    \A p \in Prompts : stage[p] = "waiting" /\ p \notin dropped =>
        /\ <<p, session[p]>> \in timers
        /\ p \notin lost => pending[session[p]] = p

Using(b) == stage[b] \notin {"new", "over"} /\ session[b] # NoSession

\* A beat session has one holder: one running beat, or one parking slot, and
\* what is held was not destroyed.  Two beats never share a conversation,
\* although taking, probing, using and parking it are steps far apart.
SessionHeldOnce ==
    /\ \A b \in Beats : Using(b) =>
          /\ session[b] \notin gone
          /\ \A other \in Beats \ {b} : Using(other) => session[other] # session[b]
          /\ \A a \in Agents : parked[a].session # session[b]
    /\ \A a \in Agents : parked[a].session # NoSession =>
          /\ parked[a].session \notin gone
          /\ \A other \in Agents \ {a} : parked[other].session # parked[a].session

\* While an idle report is to be skipped, the failure of the aborted prompt
\* is tolerated too: the abort that causes both never ends the beat through
\* one of them.
SkipImpliesNudge == skips \subseteq nudges

\* The session of a beat that waits has its context, resumed or not: by it the
\* beat's tool calls are let in, the wrap-up reaches it, and stopping or
\* deleting the company cancels it.  Only the reset of a company takes it away.
WaitingBeatsAreKnown ==
    \A b \in Beats : stage[b] = "waiting" => session[b] \in contexts \cup forgotten

\* Only calls, which share their agent's session, lose their entry to another
\* prompt: a beat stays in the map until it is settled or a reset empties the
\* map, whatever calls and later beats of its agent prompt.
BeatsKeepEntries == dropped \subseteq Calls

---------------------------------------------------------------------------
(* The inductive invariant of PromptCompletion_proofs. *)

\* An entry's waiter waits on that session; a timer is that of an entry, or of
\* a waiter that lost its own.
EntriesOfWaiters ==
    /\ \A s \in Sessions : pending[s] # NoOne =>
          /\ stage[pending[s]] = "waiting"
          /\ session[pending[s]] = s
          /\ <<pending[s], s>> \in timers
          /\ pending[s] \notin lost
    /\ \A t \in timers :
          /\ stage[t[1]] = "waiting" /\ session[t[1]] = t[2]
          /\ pending[t[2]] = t[1] \/ t[1] \in lost
    /\ \A p \in lost : stage[p] = "waiting"

\* A prompt past the search has a session; no session is from the future.
SessionsExist ==
    /\ \A p \in Prompts : session[p] <= created
    /\ \A p \in Prompts : stage[p] \notin {"new", "taken", "creating"} /\ session[p] = NoSession
                             => stage[p] = "over"
    /\ \A a \in Agents : parked[a].session <= created
    /\ \A s \in gone : s <= created
    /\ agentSession <= created
    /\ \A p \in Prompts : open[p] > 0 => session[p] # NoSession
    /\ \A b \in Beats : stage[b] = "new" => open[b] = 0

ContextsOpen ==
    \A b \in Beats : stage[b] \in {"ready", "waiting"} \cup Settled =>
        session[b] \in contexts \cup forgotten

IInv ==
    /\ TypeOK
    /\ WaitersAreHeard
    /\ SessionHeldOnce
    /\ SkipImpliesNudge
    /\ WaitingBeatsAreKnown
    /\ EntriesOfWaiters
    /\ SessionsExist
    /\ ContextsOpen

\* Calls and beats have no session in common, used, parked or offered to the
\* next call: with SessionHeldOnce, what BeatsKeepEntries rests on.
SessionsApart ==
    LET ofCalls == {session[c] : c \in Calls} \cup {agentSession}
        ofBeats == {session[b] : b \in Beats} \cup {parked[a].session : a \in Agents}
    IN  ofCalls \cap ofBeats \subseteq {NoSession}

---------------------------------------------------------------------------
\* Every wait comes to an end, whatever OpenCode reports or fails to report,
\* nudged or not, unless its entry was dropped.
PromptsSettle ==
    \A p \in Prompts :
        stage[p] = "waiting" ~> (stage[p] # "waiting" \/ p \in dropped)

===========================================================================
