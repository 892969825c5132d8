---------------------- MODULE PromptCompletion_proofs ----------------------
(***************************************************************************)
(* IInv of PromptCompletion is an invariant, for every number of beats,    *)
(* calls, agents and sessions: one lemma per action, one step per conjunct *)
(* of IInv.  The actions that settle an entry share a lemma.               *)
(***************************************************************************)
EXTENDS PromptCompletion, TLAPS

\* What SettleEntry does to the map, its timer and its waiter.
LEMMA Settling ==
    ASSUME TypeOK, EntriesOfWaiters, NEW s \in Sessions, NEW how \in Settled,
           SettleEntry(s, how)
    PROVE  /\ stage' \in [Prompts -> Stages]
           /\ pending' = [pending EXCEPT ![s] = NoOne]
           /\ timers' = timers \ {<<pending[s], s>>}
           /\ \A p \in Prompts : stage'[p] = IF p = pending[s] THEN how ELSE stage[p]
<1>1. CASE pending[s] = NoOne
  <2>1. pending = [pending EXCEPT ![s] = NoOne]
    BY <1>1 DEF TypeOK
  <2>2. timers = timers \ {<<pending[s], s>>}
    BY <1>1, Disjoint DEF TypeOK
  <2>3. stage' = stage /\ pending' = pending /\ timers' = timers
    BY <1>1 DEF SettleEntry
  <2> QED BY <1>1, <2>1, <2>2, <2>3, Disjoint DEF TypeOK
<1>2. CASE pending[s] # NoOne
  <2>1. pending[s] \in Prompts
    BY <1>2 DEF TypeOK
  <2>2. /\ stage' = [stage EXCEPT ![pending[s]] = how]
        /\ timers' = timers \ {<<pending[s], s>>}
        /\ pending' = [pending EXCEPT ![s] = NoOne]
    BY <1>2 DEF SettleEntry
  <2> QED BY <2>1, <2>2 DEF TypeOK, Settled, Stages
<1> QED BY <1>1, <1>2

\* Sessions keep their holders when no beat starts or ends.
LEMMA HoldersStay ==
    ASSUME SessionHeldOnce, UNCHANGED <<session, gone, parked>>,
           \A b \in Beats : stage'[b] \in {"new", "over"} <=> stage[b] \in {"new", "over"}
    PROVE  SessionHeldOnce'
<1>1. \A b \in Beats : Using(b)' <=> Using(b)
  BY DEF Using
<1> QED BY <1>1 DEF SessionHeldOnce

\* The waiter of an entry waits on its session.
LEMMA EntryWaits ==
    ASSUME EntriesOfWaiters, NEW s \in Sessions, pending[s] # NoOne
    PROVE  stage[pending[s]] = "waiting" /\ session[pending[s]] = s /\ pending[s] \notin lost
BY ZenonT(30) DEF EntriesOfWaiters

\* An entry settles and the flags of nudges are cleared with it.
LEMMA SettlingKeeps ==
    ASSUME IInv, NEW s \in Sessions, NEW how \in Settled, SettleEntry(s, how),
           nudges' \in SUBSET Sessions, skips' \subseteq nudges',
           open' \in [Prompts -> Nat], \A p \in Prompts : open'[p] > 0 => open[p] > 0,
           UNCHANGED <<session, resumes, attempt, told, stores, aside>>
    PROVE  IInv'
<1>0. TypeOK /\ WaitersAreHeard /\ SessionHeldOnce /\ SkipImpliesNudge
      /\ WaitingBeatsAreKnown /\ EntriesOfWaiters /\ SessionsExist /\ ContextsOpen
  BY DEF IInv
<1>a. /\ stage' \in [Prompts -> Stages]
      /\ pending' = [pending EXCEPT ![s] = NoOne]
      /\ timers' = timers \ {<<pending[s], s>>}
      /\ \A p \in Prompts : stage'[p] = IF p = pending[s] THEN how ELSE stage[p]
  BY <1>0, Settling
<1>b. \A p \in Prompts : p = pending[s] => stage[p] = "waiting" /\ session[p] = s
  BY <1>0, Disjoint, EntryWaits
<1>c. UNCHANGED <<session, resumes, attempt, told, contexts, parked, gone, created,
                  agentSession, resets, resetting, dropped, lost, forgotten>>
  BY DEF stores, aside, ghosts
<1>d. how \in {"resolved", "rejected"}
  BY DEF Settled
<1>1. TypeOK'
  BY <1>0, <1>a, <1>c DEF TypeOK
<1>2. WaitersAreHeard'
  <2>1. SUFFICES ASSUME NEW q \in Prompts, stage'[q] = "waiting", q \notin dropped
                 PROVE  /\ <<q, session[q]>> \in timers'
                        /\ q \notin lost => pending'[session[q]] = q
    BY <1>c DEF WaitersAreHeard
  <2>2. q # pending[s] /\ stage[q] = "waiting"
    BY <2>1, <1>a, <1>d
  <2>3. <<q, session[q]>> \in timers /\ (q \notin lost => pending[session[q]] = q)
    BY <2>1, <2>2, <1>0 DEF WaitersAreHeard
  <2> QED BY <2>2, <2>3, <1>a, <1>0 DEF TypeOK
<1>3. SessionHeldOnce'
  <2>1. \A b \in Beats : stage'[b] \in {"new", "over"} <=> stage[b] \in {"new", "over"}
    BY <1>a, <1>b, <1>d DEF Prompts
  <2> QED BY <2>1, <1>0, <1>c, HoldersStay
<1>4. SkipImpliesNudge'
  BY DEF SkipImpliesNudge
<1>5. WaitingBeatsAreKnown'
  BY <1>0, <1>a, <1>c, <1>d DEF WaitingBeatsAreKnown, Prompts
<1>6. EntriesOfWaiters'
  <2>1. \A q \in Sessions : pending'[q] # NoOne => q # s /\ pending'[q] = pending[q]
    BY <1>0, <1>a DEF TypeOK
  <2>2. ASSUME NEW q \in Sessions, pending'[q] # NoOne
        PROVE  /\ stage'[pending'[q]] = "waiting"
               /\ session'[pending'[q]] = q
               /\ <<pending'[q], q>> \in timers'
               /\ pending'[q] \notin lost'
    <3>1. q # s /\ pending'[q] = pending[q] /\ pending[q] \in Prompts
      BY <2>1, <2>2, <1>0 DEF TypeOK
    <3>2. /\ session[pending[q]] = q /\ stage[pending[q]] = "waiting"
          /\ <<pending[q], q>> \in timers /\ pending[q] \notin lost
      BY <3>1, <2>2, <1>0 DEF EntriesOfWaiters
    <3>3. pending[q] # pending[s]
      BY <3>1, <3>2, <1>b
    <3> QED BY <3>1, <3>2, <3>3, <1>a, <1>c
  <2>3. ASSUME NEW t \in timers'
        PROVE  /\ stage'[t[1]] = "waiting" /\ session'[t[1]] = t[2]
               /\ pending'[t[2]] = t[1] \/ t[1] \in lost'
    <3>1. t \in timers /\ t # <<pending[s], s>>
      BY <1>a, <2>3
    <3>2. PICK p \in Prompts, q \in Sessions : t = <<p, q>>
      BY <3>1, <1>0 DEF TypeOK
    <3>3. /\ stage[p] = "waiting" /\ session[p] = q
          /\ pending[q] = p \/ p \in lost
      BY <3>1, <3>2, <1>0 DEF EntriesOfWaiters
    <3>4. p # pending[s]
      BY <3>1, <3>2, <3>3, <1>b
    <3>5. q = s => p \in lost
      BY <3>3, <3>4
    <3> QED BY <3>2, <3>3, <3>4, <3>5, <1>a, <1>c, <1>0 DEF TypeOK
  <2>4. \A p \in lost' : stage'[p] = "waiting"
    <3>1. \A p \in lost : p \in Prompts /\ stage[p] = "waiting"
      BY <1>0 DEF EntriesOfWaiters, TypeOK
    <3>2. \A p \in lost : p # pending[s]
      BY <1>0, <3>1, Disjoint DEF EntriesOfWaiters
    <3> QED BY <3>1, <3>2, <1>a, <1>c
  <2> QED BY <2>2, <2>3, <2>4 DEF EntriesOfWaiters
<1>7. SessionsExist'
  BY <1>0, <1>a, <1>b, <1>c, <1>d DEF SessionsExist, Prompts
<1>8. ContextsOpen'
  BY <1>0, <1>a, <1>b, <1>c, <1>d DEF ContextsOpen, Prompts
<1> QED BY <1>1, <1>2, <1>3, <1>4, <1>5, <1>6, <1>7, <1>8 DEF IInv

LEMMA ResumeKeeps ==
    ASSUME IInv, NEW b \in Beats, Resume(b) PROVE IInv'
<1>0. TypeOK /\ WaitersAreHeard /\ SessionHeldOnce /\ SkipImpliesNudge
      /\ WaitingBeatsAreKnown /\ EntriesOfWaiters /\ SessionsExist /\ ContextsOpen
  BY DEF IInv
<1>1. TypeOK'
  BY <1>0, Disjoint, BoundTypes DEF Resume, TypeOK, Stages, Prompts, entries, stores, aside,
     ghosts
<1>2. WaitersAreHeard'
  BY <1>0 DEF Resume, WaitersAreHeard, entries, aside, ghosts
<1>3. SessionHeldOnce'
  BY <1>0 DEF Resume, SessionHeldOnce, Using, stores
<1>4. SkipImpliesNudge'
  BY <1>0 DEF Resume, SkipImpliesNudge, entries
<1>5. WaitingBeatsAreKnown'
  BY <1>0 DEF Resume, WaitingBeatsAreKnown, stores, aside, ghosts
<1>6. EntriesOfWaiters'
  BY <1>0 DEF Resume, EntriesOfWaiters, entries, aside, ghosts
<1>7. SessionsExist'
  BY <1>0 DEF Resume, SessionsExist, stores
<1>8. ContextsOpen'
  BY <1>0 DEF Resume, ContextsOpen, Settled, stores, aside, ghosts
<1> QED BY <1>1, <1>2, <1>3, <1>4, <1>5, <1>6, <1>7, <1>8 DEF IInv

LEMMA RegisterContextKeeps ==
    ASSUME IInv, NEW b \in Beats, RegisterContext(b) PROVE IInv'
<1>0. TypeOK /\ WaitersAreHeard /\ SessionHeldOnce /\ SkipImpliesNudge
      /\ WaitingBeatsAreKnown /\ EntriesOfWaiters /\ SessionsExist /\ ContextsOpen
  BY DEF IInv
<1>1. TypeOK'
  <2>1. session[b] \in Sessions
    BY <1>0 DEF RegisterContext, TypeOK, SessionsExist, Prompts
  <2> QED BY <1>0, <2>1 DEF RegisterContext, TypeOK, Stages, entries
<1>2. WaitersAreHeard'
  BY <1>0 DEF RegisterContext, WaitersAreHeard, entries
<1>3. SessionHeldOnce'
  BY <1>0 DEF RegisterContext, SessionHeldOnce, Using
<1>4. SkipImpliesNudge'
  BY <1>0 DEF RegisterContext, SkipImpliesNudge, entries
<1>5. WaitingBeatsAreKnown'
  BY <1>0 DEF RegisterContext, WaitingBeatsAreKnown
<1>6. EntriesOfWaiters'
  BY <1>0 DEF RegisterContext, EntriesOfWaiters, entries
<1>7. SessionsExist'
  BY <1>0 DEF RegisterContext, SessionsExist
<1>8. ContextsOpen'
  BY <1>0 DEF RegisterContext, ContextsOpen
<1> QED BY <1>1, <1>2, <1>3, <1>4, <1>5, <1>6, <1>7, <1>8 DEF IInv

LEMMA SetUpFailsKeeps ==
    ASSUME IInv, NEW b \in Beats, SetUpFails(b) PROVE IInv'
<1>0. TypeOK /\ WaitersAreHeard /\ SessionHeldOnce /\ SkipImpliesNudge
      /\ WaitingBeatsAreKnown /\ EntriesOfWaiters /\ SessionsExist /\ ContextsOpen
  BY DEF IInv
<1>1. TypeOK'
  BY <1>0 DEF SetUpFails, TypeOK, Stages, entries, stores, aside, ghosts
<1>2. WaitersAreHeard'
  BY <1>0 DEF SetUpFails, WaitersAreHeard, entries, aside, ghosts
<1>3. SessionHeldOnce'
  BY <1>0 DEF SetUpFails, SessionHeldOnce, Using, stores
<1>4. SkipImpliesNudge'
  BY <1>0 DEF SetUpFails, SkipImpliesNudge, entries
<1>5. WaitingBeatsAreKnown'
  BY <1>0 DEF SetUpFails, WaitingBeatsAreKnown, stores, aside, ghosts
<1>6. EntriesOfWaiters'
  BY <1>0 DEF SetUpFails, EntriesOfWaiters, entries, aside, ghosts
<1>7. SessionsExist'
  BY <1>0 DEF SetUpFails, SessionsExist, stores
<1>8. ContextsOpen'
  BY <1>0 DEF SetUpFails, ContextsOpen, Settled, stores, aside, ghosts
<1> QED BY <1>1, <1>2, <1>3, <1>4, <1>5, <1>6, <1>7, <1>8 DEF IInv

LEMMA ParkKeeps ==
    ASSUME IInv, NEW b \in Beats, Park(b) PROVE IInv'
<1>0. TypeOK /\ WaitersAreHeard /\ SessionHeldOnce /\ SkipImpliesNudge
      /\ WaitingBeatsAreKnown /\ EntriesOfWaiters /\ SessionsExist /\ ContextsOpen
  BY DEF IInv
<1>1. TypeOK'
  BY <1>0 DEF Park, TypeOK, Stages, Prompts, Parking, entries, aside, ghosts
<1>2. WaitersAreHeard'
  BY <1>0 DEF Park, WaitersAreHeard, entries, aside, ghosts
<1>3. SessionHeldOnce'
  BY <1>0, AgentType, BoundTypes DEF Park, TypeOK, SessionHeldOnce, Using, Prompts
<1>4. SkipImpliesNudge'
  BY <1>0 DEF Park, SkipImpliesNudge, entries
<1>5. WaitingBeatsAreKnown'
  BY <1>0 DEF Park, WaitingBeatsAreKnown, aside, ghosts
<1>6. EntriesOfWaiters'
  BY <1>0 DEF Park, EntriesOfWaiters, entries, aside, ghosts
<1>7. SessionsExist'
  BY <1>0 DEF Park, SessionsExist, Prompts
<1>8. ContextsOpen'
  BY <1>0 DEF Park, ContextsOpen, Settled, aside, ghosts
<1> QED BY <1>1, <1>2, <1>3, <1>4, <1>5, <1>6, <1>7, <1>8 DEF IInv

LEMMA RetireKeeps ==
    ASSUME IInv, NEW b \in Beats, Retire(b) PROVE IInv'
<1>0. TypeOK /\ WaitersAreHeard /\ SessionHeldOnce /\ SkipImpliesNudge
      /\ WaitingBeatsAreKnown /\ EntriesOfWaiters /\ SessionsExist /\ ContextsOpen
  BY DEF IInv
<1>1. TypeOK'
  <2>1. session[b] \in Sessions
    BY <1>0 DEF Retire, TypeOK, SessionsExist, Prompts
  <2> QED BY <1>0, <2>1 DEF Retire, TypeOK, Stages, entries, aside, ghosts
<1>2. WaitersAreHeard'
  BY <1>0 DEF Retire, WaitersAreHeard, entries, aside, ghosts
<1>3. SessionHeldOnce'
  BY <1>0 DEF Retire, TypeOK, SessionHeldOnce, Using, Prompts
<1>4. SkipImpliesNudge'
  BY <1>0 DEF Retire, SkipImpliesNudge, entries
<1>5. WaitingBeatsAreKnown'
  BY <1>0 DEF Retire, WaitingBeatsAreKnown, aside, ghosts
<1>6. EntriesOfWaiters'
  BY <1>0 DEF Retire, EntriesOfWaiters, entries, aside, ghosts
<1>7. SessionsExist'
  BY <1>0 DEF Retire, SessionsExist, Prompts
<1>8. ContextsOpen'
  BY <1>0 DEF Retire, ContextsOpen, Settled, aside, ghosts
<1> QED BY <1>1, <1>2, <1>3, <1>4, <1>5, <1>6, <1>7, <1>8 DEF IInv

LEMMA CallEndsKeeps ==
    ASSUME IInv, NEW c \in Calls, CallEnds(c) PROVE IInv'
<1>0. TypeOK /\ WaitersAreHeard /\ SessionHeldOnce /\ SkipImpliesNudge
      /\ WaitingBeatsAreKnown /\ EntriesOfWaiters /\ SessionsExist /\ ContextsOpen
  BY DEF IInv
<1>1. TypeOK'
  BY <1>0 DEF CallEnds, TypeOK, Stages, entries, stores, aside, ghosts
<1>2. WaitersAreHeard'
  BY <1>0 DEF CallEnds, WaitersAreHeard, entries, aside, ghosts
<1>3. SessionHeldOnce'
  BY <1>0 DEF CallEnds, SessionHeldOnce, Using, stores
<1>4. SkipImpliesNudge'
  BY <1>0 DEF CallEnds, SkipImpliesNudge, entries
<1>5. WaitingBeatsAreKnown'
  BY <1>0 DEF CallEnds, WaitingBeatsAreKnown, stores, aside, ghosts
<1>6. EntriesOfWaiters'
  BY <1>0 DEF CallEnds, EntriesOfWaiters, Settled, entries, aside, ghosts
<1>7. SessionsExist'
  BY <1>0 DEF CallEnds, SessionsExist, stores
<1>8. ContextsOpen'
  BY <1>0 DEF CallEnds, ContextsOpen, stores, aside, ghosts
<1> QED BY <1>1, <1>2, <1>3, <1>4, <1>5, <1>6, <1>7, <1>8 DEF IInv

LEMMA RetryCallKeeps ==
    ASSUME IInv, NEW c \in Calls, RetryCall(c) PROVE IInv'
<1>0. TypeOK /\ WaitersAreHeard /\ SessionHeldOnce /\ SkipImpliesNudge
      /\ WaitingBeatsAreKnown /\ EntriesOfWaiters /\ SessionsExist /\ ContextsOpen
  BY DEF IInv
<1>1. TypeOK'
  BY <1>0, BoundTypes DEF RetryCall, TypeOK, Stages, Prompts, entries, aside, ghosts
<1>2. WaitersAreHeard'
  BY <1>0 DEF RetryCall, WaitersAreHeard, entries, aside, ghosts
<1>3. SessionHeldOnce'
  BY <1>0 DEF RetryCall, SessionHeldOnce, Using
<1>4. SkipImpliesNudge'
  BY <1>0 DEF RetryCall, SkipImpliesNudge, entries
<1>5. WaitingBeatsAreKnown'
  BY <1>0 DEF RetryCall, WaitingBeatsAreKnown, aside, ghosts
<1>6. EntriesOfWaiters'
  BY <1>0 DEF RetryCall, EntriesOfWaiters, Settled, entries, aside, ghosts
<1>7. SessionsExist'
  BY <1>0, Disjoint DEF RetryCall, TypeOK, SessionsExist, NoSession
<1>8. ContextsOpen'
  BY <1>0 DEF RetryCall, ContextsOpen, aside, ghosts
<1> QED BY <1>1, <1>2, <1>3, <1>4, <1>5, <1>6, <1>7, <1>8 DEF IInv

LEMMA CreateAgentSessionKeeps ==
    ASSUME IInv, NEW c \in Calls, CreateAgentSession(c) PROVE IInv'
<1>0. TypeOK /\ WaitersAreHeard /\ SessionHeldOnce /\ SkipImpliesNudge
      /\ WaitingBeatsAreKnown /\ EntriesOfWaiters /\ SessionsExist /\ ContextsOpen
  BY DEF IInv
<1>1. TypeOK'
  <2>1. created' \in 0 .. MaxSessions /\ created' \in Sessions /\ agentSession' \in Sessions
    BY <1>0, BoundTypes DEF CreateAgentSession, TypeOK, Sessions
  <2>2. stage' \in [Prompts -> Stages]
    BY <1>0 DEF CreateAgentSession, TypeOK, Stages
  <2>3. session' \in [Prompts -> Sessions \cup {NoSession}]
    BY <1>0, <2>1 DEF CreateAgentSession, TypeOK
  <2>4. UNCHANGED <<resumes, attempt, open, pending, timers, told, nudges, skips, contexts, parked,
                    gone, resets, resetting, dropped, lost, forgotten>>
    BY DEF CreateAgentSession, entries, aside, ghosts
  <2> QED BY <2>1, <2>2, <2>3, <2>4, <1>0 DEF TypeOK
<1>2. WaitersAreHeard'
  BY <1>0 DEF CreateAgentSession, WaitersAreHeard, entries, aside, ghosts
<1>3. SessionHeldOnce'
  BY <1>0 DEF CreateAgentSession, TypeOK, SessionHeldOnce, SessionsExist, Using, Prompts
<1>4. SkipImpliesNudge'
  BY <1>0 DEF CreateAgentSession, SkipImpliesNudge, entries
<1>5. WaitingBeatsAreKnown'
  BY <1>0 DEF CreateAgentSession, WaitingBeatsAreKnown, aside, ghosts
<1>6. EntriesOfWaiters'
  BY <1>0 DEF CreateAgentSession, EntriesOfWaiters, entries, aside, ghosts
<1>7. SessionsExist'
  <2>1. created \in Nat /\ created' = created + 1 /\ c \in Prompts
        /\ agentSession' = created + 1 /\ UNCHANGED <<parked, gone>>
        /\ session' = [session EXCEPT ![c] = created + 1] /\ stage' = [stage EXCEPT ![c] = "ready"]
    BY <1>0 DEF TypeOK, CreateAgentSession, Prompts
  <2>2. \A q \in Prompts : session[q] \in Nat /\ session[q] <= created
    BY <1>0 DEF TypeOK, SessionsExist, Sessions, NoSession
  <2>3. \A q \in Prompts : session'[q] <= created'
    BY <2>1, <2>2, <1>0 DEF TypeOK
  <2>4. \A q \in Prompts : stage'[q] \notin {"new", "taken", "creating"} /\ session'[q] = NoSession
                             => stage'[q] = "over"
    BY <2>1, <2>2, <1>0 DEF TypeOK, SessionsExist, NoSession
  <2>5. \A a \in Agents : parked[a].session \in Nat /\ parked[a].session <= created
    BY <1>0 DEF TypeOK, SessionsExist, Parking, Sessions, NoSession
  <2>6. \A q \in gone : q \in Nat /\ q <= created
    BY <1>0 DEF TypeOK, SessionsExist, Sessions
  <2>7. \A q \in Prompts : open'[q] > 0 => session'[q] # NoSession
    BY <2>1, <2>2, <1>0 DEF TypeOK, SessionsExist, NoSession, CreateAgentSession
  <2>8. \A q \in Beats : stage'[q] = "new" => open'[q] = 0
    BY <2>1, <1>0 DEF TypeOK, SessionsExist, CreateAgentSession
  <2> QED BY <2>1, <2>3, <2>4, <2>5, <2>6, <2>7, <2>8 DEF SessionsExist
<1>8. ContextsOpen'
  BY <1>0, Disjoint DEF CreateAgentSession, ContextsOpen, aside, ghosts
<1> QED BY <1>1, <1>2, <1>3, <1>4, <1>5, <1>6, <1>7, <1>8 DEF IInv

LEMMA FindAgentSessionKeeps ==
    ASSUME IInv, NEW c \in Calls, FindAgentSession(c) PROVE IInv'
<1>0. TypeOK /\ WaitersAreHeard /\ SessionHeldOnce /\ SkipImpliesNudge
      /\ WaitingBeatsAreKnown /\ EntriesOfWaiters /\ SessionsExist /\ ContextsOpen
  BY DEF IInv
<1>1. TypeOK'
  <2>1. /\ stage' \in [Prompts -> Stages] /\ session' \in [Prompts -> Sessions \cup {NoSession}]
        /\ \A q \in Prompts \ {c} : stage'[q] = stage[q] /\ session'[q] = session[q]
    <3>1. CASE agentSession = NoSession
      BY <3>1, <1>0 DEF FindAgentSession, TypeOK, Stages
    <3>2. CASE agentSession # NoSession
      BY <3>2, <1>0 DEF FindAgentSession, TypeOK, Stages
    <3> QED BY <3>1, <3>2
  <2> QED BY <2>1, <1>0 DEF FindAgentSession, TypeOK, entries, stores, aside, ghosts
<1>2. WaitersAreHeard'
  BY <1>0 DEF FindAgentSession, TypeOK, WaitersAreHeard, Prompts, entries, aside, ghosts
<1>3. SessionHeldOnce'
  <2>1. /\ stage' \in [Prompts -> Stages] /\ session' \in [Prompts -> Sessions \cup {NoSession}]
        /\ \A q \in Prompts \ {c} : stage'[q] = stage[q] /\ session'[q] = session[q]
    <3>1. CASE agentSession = NoSession
      BY <3>1, <1>0 DEF FindAgentSession, TypeOK, Stages
    <3>2. CASE agentSession # NoSession
      BY <3>2, <1>0 DEF FindAgentSession, TypeOK, Stages
    <3> QED BY <3>1, <3>2
  <2>2. \A b \in Beats : b # c /\ b \in Prompts
    BY Disjoint DEF Prompts
  <2>3. \A b \in Beats : stage'[b] = stage[b] /\ session'[b] = session[b]
    BY <2>1, <2>2
  <2>4. \A b \in Beats : Using(b)' <=> Using(b)
    BY <2>3 DEF Using
  <2> QED BY <2>3, <2>4, <1>0 DEF SessionHeldOnce, FindAgentSession, stores
<1>4. SkipImpliesNudge'
  BY <1>0 DEF FindAgentSession, SkipImpliesNudge, entries
<1>5. WaitingBeatsAreKnown'
  BY <1>0 DEF FindAgentSession, TypeOK, WaitingBeatsAreKnown, Prompts, stores, aside, ghosts
<1>6. EntriesOfWaiters'
  BY <1>0 DEF FindAgentSession, TypeOK, EntriesOfWaiters, entries, aside, ghosts
<1>7. SessionsExist'
  <2>1. /\ c \in Prompts /\ c \notin Beats
        /\ open' = open /\ parked' = parked /\ gone' = gone /\ created' = created
        /\ agentSession' = agentSession
    BY Disjoint DEF FindAgentSession, Prompts, stores, entries, aside
  <2>2. CASE agentSession = NoSession
    <3>1. stage' = [stage EXCEPT ![c] = "creating"] /\ session' = session
      BY <2>2 DEF FindAgentSession
    <3>2. \A p \in Prompts \ {c} : stage'[p] = stage[p]
      BY <3>1, <1>0 DEF TypeOK
    <3>3. stage'[c] = "creating"
      BY <3>1, <2>1, <1>0 DEF TypeOK
    <3> QED BY <2>1, <3>1, <3>2, <3>3, <1>0, Disjoint DEF SessionsExist, Prompts
  <2>3. CASE agentSession # NoSession
    <3>1. /\ stage' = [stage EXCEPT ![c] = "ready"]
          /\ session' = [session EXCEPT ![c] = agentSession]
      BY <2>3 DEF FindAgentSession
    <3>2. \A p \in Prompts \ {c} : stage'[p] = stage[p] /\ session'[p] = session[p]
      BY <3>1, <1>0 DEF TypeOK
    <3>3. stage'[c] = "ready" /\ session'[c] = agentSession
      BY <3>1, <2>1, <1>0 DEF TypeOK
    <3> QED BY <2>1, <2>3, <3>2, <3>3, <1>0, Disjoint DEF SessionsExist, Prompts
  <2> QED BY <2>2, <2>3
<1>8. ContextsOpen'
  BY <1>0, Disjoint DEF FindAgentSession, TypeOK, ContextsOpen, Prompts, stores, aside, ghosts
<1> QED BY <1>1, <1>2, <1>3, <1>4, <1>5, <1>6, <1>7, <1>8 DEF IInv

LEMMA UnreachableKeeps ==
    ASSUME IInv, NEW p \in Prompts, Unreachable(p) PROVE IInv'
<1>0. TypeOK /\ WaitersAreHeard /\ SessionHeldOnce /\ SkipImpliesNudge
      /\ WaitingBeatsAreKnown /\ EntriesOfWaiters /\ SessionsExist /\ ContextsOpen
  BY DEF IInv
<1>1. TypeOK'
  BY <1>0 DEF Unreachable, TypeOK, Stages, entries, stores, aside, ghosts
<1>2. WaitersAreHeard'
  BY <1>0 DEF Unreachable, WaitersAreHeard, entries, aside, ghosts
<1>3. SessionHeldOnce'
  BY <1>0 DEF Unreachable, SessionHeldOnce, Using, stores
<1>4. SkipImpliesNudge'
  BY <1>0 DEF Unreachable, SkipImpliesNudge, entries
<1>5. WaitingBeatsAreKnown'
  BY <1>0 DEF Unreachable, WaitingBeatsAreKnown, stores, aside, ghosts
<1>6. EntriesOfWaiters'
  BY <1>0 DEF Unreachable, EntriesOfWaiters, entries, aside, ghosts
<1>7. SessionsExist'
  BY <1>0 DEF Unreachable, SessionsExist, stores
<1>8. ContextsOpen'
  BY <1>0 DEF Unreachable, ContextsOpen, stores, aside, ghosts
<1> QED BY <1>1, <1>2, <1>3, <1>4, <1>5, <1>6, <1>7, <1>8 DEF IInv

LEMMA RegisterKeeps ==
    ASSUME IInv, NEW p \in Prompts, Register(p) PROVE IInv'
<1>0. TypeOK /\ WaitersAreHeard /\ SessionHeldOnce /\ SkipImpliesNudge
      /\ WaitingBeatsAreKnown /\ EntriesOfWaiters /\ SessionsExist /\ ContextsOpen
  BY DEF IInv
<1>1. TypeOK'
  <2> DEFINE s == session[p]
  <2>1. /\ s \in Sessions
        /\ stage[p] = "ready"
        /\ stage' = [stage EXCEPT ![p] = "waiting"]
        /\ pending' = [pending EXCEPT ![s] = p]
        /\ timers' = (timers \ {<<pending[s], s>>}) \cup {<<p, s>>}
        /\ told' = [told EXCEPT ![s] = {}]
        /\ dropped' = IF pending[s] = NoOne THEN dropped ELSE dropped \cup {pending[s]}
        /\ session' = session
    <3>1. s \in Sessions
      BY <1>0 DEF Register, TypeOK, SessionsExist
    <3> QED BY <3>1 DEF Register, PutEntry
  <2> HIDE DEF s
  <2>0. s = session[p] /\ p \in Prompts
    BY DEF s
  <2>2. dropped' \in SUBSET Prompts
    BY <2>0, <2>1, <1>0 DEF TypeOK
  <2>3. /\ timers' \in SUBSET (Prompts \X Sessions)
        /\ pending' \in [Sessions -> Prompts \cup {NoOne}]
        /\ told' \in [Sessions -> SUBSET {"wrap", "stall"}]
        /\ stage' \in [Prompts -> Stages]
    BY <2>0, <2>1, <1>0 DEF TypeOK, Stages
  <2>4. open' \in [Prompts -> Nat]
    BY <1>0 DEF TypeOK, Register
  <2> QED BY <2>2, <2>3, <2>4, <1>0 DEF Register, TypeOK, stores
<1>2. WaitersAreHeard'
  <2> DEFINE s == session[p]
  <2>1. /\ s \in Sessions
        /\ stage[p] = "ready"
        /\ stage' = [stage EXCEPT ![p] = "waiting"]
        /\ pending' = [pending EXCEPT ![s] = p]
        /\ timers' = (timers \ {<<pending[s], s>>}) \cup {<<p, s>>}
        /\ told' = [told EXCEPT ![s] = {}]
        /\ dropped' = IF pending[s] = NoOne THEN dropped ELSE dropped \cup {pending[s]}
        /\ session' = session
    <3>1. s \in Sessions
      BY <1>0 DEF Register, TypeOK, SessionsExist
    <3> QED BY <3>1 DEF Register, PutEntry
  <2> HIDE DEF s
  <2>0. s = session[p] /\ p \in Prompts
    BY DEF s
  <2>l. lost' = lost
    BY DEF Register
  <2>2. SUFFICES ASSUME NEW q \in Prompts, stage'[q] = "waiting", q \notin dropped'
                 PROVE  /\ <<q, session[q]>> \in timers'
                        /\ q \notin lost => pending'[session[q]] = q
    BY <2>0, <2>1, <2>l DEF WaitersAreHeard
  <2>3. CASE q = p
    BY <2>0, <2>1, <2>3, <1>0 DEF TypeOK
  <2>4. CASE q # p
    <3>1. stage[q] = "waiting" /\ q \notin dropped
      BY <2>0, <2>1, <2>2, <2>4, <1>0 DEF TypeOK
    <3>2. /\ <<q, session[q]>> \in timers
          /\ q \notin lost => pending[session[q]] = q
      BY <3>1, <1>0 DEF WaitersAreHeard
    <3>3. pending[s] # q
      BY <2>0, <2>1, <2>2, Disjoint
    <3> QED BY <3>2, <3>3, <2>0, <2>1, <1>0 DEF TypeOK
  <2> QED BY <2>3, <2>4
<1>3. SessionHeldOnce'
  BY <1>0 DEF Register, SessionHeldOnce, Using, stores
<1>4. SkipImpliesNudge'
  BY <1>0 DEF Register, SkipImpliesNudge
<1>5. WaitingBeatsAreKnown'
  BY <1>0 DEF Register, WaitingBeatsAreKnown, ContextsOpen, stores
<1>6. EntriesOfWaiters'
  <2> DEFINE s == session[p]
  <2>1. /\ s \in Sessions
        /\ stage[p] = "ready"
        /\ stage' = [stage EXCEPT ![p] = "waiting"]
        /\ pending' = [pending EXCEPT ![s] = p]
        /\ timers' = (timers \ {<<pending[s], s>>}) \cup {<<p, s>>}
        /\ told' = [told EXCEPT ![s] = {}]
        /\ dropped' = IF pending[s] = NoOne THEN dropped ELSE dropped \cup {pending[s]}
        /\ session' = session
    <3>1. s \in Sessions
      BY <1>0 DEF Register, TypeOK, SessionsExist
    <3> QED BY <3>1 DEF Register, PutEntry
  <2> HIDE DEF s
  <2>0. s = session[p] /\ p \in Prompts
    BY DEF s
  <2>l. lost' = lost /\ p \notin lost
    BY <2>1, <1>0 DEF Register, EntriesOfWaiters
  <2>2. ASSUME NEW q \in Sessions, pending'[q] # NoOne
        PROVE  /\ stage'[pending'[q]] = "waiting"
               /\ session'[pending'[q]] = q
               /\ <<pending'[q], q>> \in timers'
               /\ pending'[q] \notin lost'
    <3>1. CASE q = s
      BY <2>0, <2>1, <2>l, <3>1, <1>0 DEF TypeOK
    <3>2. CASE q # s
      <4>1. pending'[q] = pending[q] /\ pending[q] \in Prompts
        BY <2>0, <2>1, <2>2, <3>2, <1>0 DEF TypeOK
      <4>2. /\ stage[pending[q]] = "waiting" /\ session[pending[q]] = q
            /\ <<pending[q], q>> \in timers /\ pending[q] \notin lost
        BY <4>1, <2>2, <1>0 DEF EntriesOfWaiters
      <4> QED BY <4>1, <4>2, <3>2, <2>1, <2>l, <1>0 DEF TypeOK
    <3> QED BY <3>1, <3>2
  <2>3. ASSUME NEW t \in timers'
        PROVE  /\ stage'[t[1]] = "waiting" /\ session'[t[1]] = t[2]
               /\ pending'[t[2]] = t[1] \/ t[1] \in lost'
    <3>1. CASE t = <<p, s>>
      BY <3>1, <2>0, <2>1, <1>0 DEF TypeOK
    <3>2. CASE t # <<p, s>>
      <4>1. t \in timers /\ t # <<pending[s], s>>
        BY <2>0, <2>1, <3>2, <2>3
      <4>2. PICK u \in Prompts, q \in Sessions : t = <<u, q>>
        BY <4>1, <1>0 DEF TypeOK
      <4>3. /\ stage[u] = "waiting" /\ session[u] = q
            /\ pending[q] = u \/ u \in lost
        BY <4>1, <4>2, <1>0 DEF EntriesOfWaiters
      <4>4. u # p /\ (q = s => u \in lost)
        BY <4>1, <4>2, <4>3, <2>1
      <4> QED BY <4>2, <4>3, <4>4, <2>1, <2>l, <1>0 DEF TypeOK
    <3> QED BY <3>1, <3>2
  <2>4. \A u \in lost' : stage'[u] = "waiting"
    BY <2>0, <2>1, <2>l, <1>0 DEF EntriesOfWaiters
  <2> QED BY <2>2, <2>3, <2>4 DEF EntriesOfWaiters
<1>7. SessionsExist'
  BY <1>0 DEF Register, SessionsExist, stores
<1>8. ContextsOpen'
  BY <1>0 DEF Register, ContextsOpen, stores
<1> QED BY <1>1, <1>2, <1>3, <1>4, <1>5, <1>6, <1>7, <1>8 DEF IInv

LEMMA PromptReturnsKeeps ==
    ASSUME IInv, NEW p \in Prompts, PromptReturns(p) PROVE IInv'
<1>0. TypeOK /\ WaitersAreHeard /\ SessionHeldOnce /\ SkipImpliesNudge
      /\ WaitingBeatsAreKnown /\ EntriesOfWaiters /\ SessionsExist /\ ContextsOpen
  BY DEF IInv
<1>1. TypeOK'
  BY <1>0, BoundTypes DEF PromptReturns, TypeOK, entries, stores, aside, ghosts
<1>2. WaitersAreHeard'
  BY <1>0 DEF PromptReturns, WaitersAreHeard, entries, aside, ghosts
<1>3. SessionHeldOnce'
  BY <1>0 DEF PromptReturns, SessionHeldOnce, Using, stores
<1>4. SkipImpliesNudge'
  BY <1>0 DEF PromptReturns, SkipImpliesNudge, entries
<1>5. WaitingBeatsAreKnown'
  BY <1>0 DEF PromptReturns, WaitingBeatsAreKnown, stores, aside, ghosts
<1>6. EntriesOfWaiters'
  BY <1>0 DEF PromptReturns, EntriesOfWaiters, entries, aside, ghosts
<1>7. SessionsExist'
  BY <1>0 DEF PromptReturns, SessionsExist, stores
<1>8. ContextsOpen'
  BY <1>0 DEF PromptReturns, ContextsOpen, stores, aside, ghosts
<1> QED BY <1>1, <1>2, <1>3, <1>4, <1>5, <1>6, <1>7, <1>8 DEF IInv

LEMMA WrapUpKeeps ==
    ASSUME IInv, NEW s \in Sessions, WrapUp(s) PROVE IInv'
<1>0. TypeOK /\ WaitersAreHeard /\ SessionHeldOnce /\ SkipImpliesNudge
      /\ WaitingBeatsAreKnown /\ EntriesOfWaiters /\ SessionsExist /\ ContextsOpen
  BY DEF IInv
<1>1. TypeOK'
  BY <1>0 DEF WrapUp, Nudge, TypeOK, waiters, stores, aside, ghosts
<1>2. WaitersAreHeard'
  BY <1>0 DEF WrapUp, Nudge, WaitersAreHeard, waiters, aside, ghosts
<1>3. SessionHeldOnce'
  BY <1>0 DEF WrapUp, Nudge, SessionHeldOnce, Using, waiters, stores
<1>4. SkipImpliesNudge'
  BY <1>0 DEF WrapUp, Nudge, SkipImpliesNudge
<1>5. WaitingBeatsAreKnown'
  BY <1>0 DEF WrapUp, Nudge, WaitingBeatsAreKnown, waiters, stores, aside, ghosts
<1>6. EntriesOfWaiters'
  BY <1>0 DEF WrapUp, Nudge, EntriesOfWaiters, waiters, aside, ghosts
<1>7. SessionsExist'
  BY <1>0 DEF WrapUp, Nudge, SessionsExist, waiters, stores
<1>8. ContextsOpen'
  BY <1>0 DEF WrapUp, Nudge, ContextsOpen, waiters, stores, aside, ghosts
<1> QED BY <1>1, <1>2, <1>3, <1>4, <1>5, <1>6, <1>7, <1>8 DEF IInv

LEMMA NudgeStalledKeeps ==
    ASSUME IInv, NEW s \in Sessions, NudgeStalled(s) PROVE IInv'
<1>0. TypeOK /\ WaitersAreHeard /\ SessionHeldOnce /\ SkipImpliesNudge
      /\ WaitingBeatsAreKnown /\ EntriesOfWaiters /\ SessionsExist /\ ContextsOpen
  BY DEF IInv
<1>1. TypeOK'
  BY <1>0 DEF NudgeStalled, Nudge, TypeOK, waiters, stores, aside, ghosts
<1>2. WaitersAreHeard'
  BY <1>0 DEF NudgeStalled, Nudge, WaitersAreHeard, waiters, aside, ghosts
<1>3. SessionHeldOnce'
  BY <1>0 DEF NudgeStalled, Nudge, SessionHeldOnce, Using, waiters, stores
<1>4. SkipImpliesNudge'
  BY <1>0 DEF NudgeStalled, Nudge, SkipImpliesNudge
<1>5. WaitingBeatsAreKnown'
  BY <1>0 DEF NudgeStalled, Nudge, WaitingBeatsAreKnown, waiters, stores, aside, ghosts
<1>6. EntriesOfWaiters'
  BY <1>0 DEF NudgeStalled, Nudge, EntriesOfWaiters, waiters, aside, ghosts
<1>7. SessionsExist'
  BY <1>0 DEF NudgeStalled, Nudge, SessionsExist, waiters, stores
<1>8. ContextsOpen'
  BY <1>0 DEF NudgeStalled, Nudge, ContextsOpen, waiters, stores, aside, ghosts
<1> QED BY <1>1, <1>2, <1>3, <1>4, <1>5, <1>6, <1>7, <1>8 DEF IInv

LEMMA UnregisterContextKeeps ==
    ASSUME IInv, NEW b \in Beats, UnregisterContext(b) PROVE IInv'
<1>0. TypeOK /\ WaitersAreHeard /\ SessionHeldOnce /\ SkipImpliesNudge
      /\ WaitingBeatsAreKnown /\ EntriesOfWaiters /\ SessionsExist /\ ContextsOpen
  BY DEF IInv
<1>1. TypeOK'
  BY <1>0 DEF UnregisterContext, TypeOK, Stages, entries, aside, ghosts
<1>2. WaitersAreHeard'
  BY <1>0 DEF UnregisterContext, WaitersAreHeard, entries, aside, ghosts
<1>3. SessionHeldOnce'
  BY <1>0 DEF UnregisterContext, SessionHeldOnce, Using, Settled
<1>4. SkipImpliesNudge'
  BY <1>0 DEF UnregisterContext, SkipImpliesNudge, entries
<1>5. WaitingBeatsAreKnown'
  BY <1>0 DEF UnregisterContext, WaitingBeatsAreKnown, SessionHeldOnce, Using, Settled, Prompts,
     SessionsExist, aside, ghosts
<1>6. EntriesOfWaiters'
  BY <1>0 DEF UnregisterContext, EntriesOfWaiters, Settled, entries, aside, ghosts
<1>7. SessionsExist'
  BY <1>0 DEF UnregisterContext, SessionsExist, Settled
<1>8. ContextsOpen'
  BY <1>0 DEF UnregisterContext, TypeOK, ContextsOpen, SessionHeldOnce, Using, Settled, Prompts,
     SessionsExist, aside, ghosts
<1> QED BY <1>1, <1>2, <1>3, <1>4, <1>5, <1>6, <1>7, <1>8 DEF IInv

LEMMA NoWorkKeeps ==
    ASSUME IInv, NEW b \in Beats, NoWork(b) PROVE IInv'
<1>0. TypeOK /\ WaitersAreHeard /\ SessionHeldOnce /\ SkipImpliesNudge
      /\ WaitingBeatsAreKnown /\ EntriesOfWaiters /\ SessionsExist /\ ContextsOpen
  BY DEF IInv
<1>1. TypeOK'
  <2>1. session[b] \in Sessions
    BY <1>0 DEF NoWork, TypeOK, SessionsExist, Prompts
  <2> QED BY <1>0, <2>1 DEF NoWork, TypeOK, Stages, entries, aside, ghosts
<1>2. WaitersAreHeard'
  BY <1>0 DEF NoWork, WaitersAreHeard, entries, aside, ghosts
<1>3. SessionHeldOnce'
  BY <1>0 DEF NoWork, TypeOK, SessionHeldOnce, Using, Prompts
<1>4. SkipImpliesNudge'
  BY <1>0 DEF NoWork, SkipImpliesNudge, entries
<1>5. WaitingBeatsAreKnown'
  BY <1>0 DEF NoWork, WaitingBeatsAreKnown, SessionHeldOnce, Using, Prompts, SessionsExist, aside,
     ghosts
<1>6. EntriesOfWaiters'
  BY <1>0 DEF NoWork, EntriesOfWaiters, entries, aside, ghosts
<1>7. SessionsExist'
  BY <1>0 DEF NoWork, SessionsExist, Prompts
<1>8. ContextsOpen'
  BY <1>0 DEF NoWork, TypeOK, ContextsOpen, SessionHeldOnce, Using, Settled, Prompts,
     SessionsExist, aside, ghosts
<1> QED BY <1>1, <1>2, <1>3, <1>4, <1>5, <1>6, <1>7, <1>8 DEF IInv

LEMMA TakeParkedKeeps ==
    ASSUME IInv, NEW b \in Beats, TakeParked(b) PROVE IInv'
<1>0. TypeOK /\ WaitersAreHeard /\ SessionHeldOnce /\ SkipImpliesNudge
      /\ WaitingBeatsAreKnown /\ EntriesOfWaiters /\ SessionsExist /\ ContextsOpen
  BY DEF IInv
<1>1. TypeOK'
  BY <1>0, AgentType, BoundTypes DEF TakeParked, TypeOK, Stages, Prompts, Parking, NoParking,
     entries, aside, ghosts
<1>2. WaitersAreHeard'
  BY <1>0 DEF TakeParked, WaitersAreHeard, entries, aside, ghosts
<1>3. SessionHeldOnce'
  BY <1>0, AgentType DEF TakeParked, TypeOK, SessionHeldOnce, Using, NoParking
<1>4. SkipImpliesNudge'
  BY <1>0 DEF TakeParked, SkipImpliesNudge, entries
<1>5. WaitingBeatsAreKnown'
  BY <1>0 DEF TakeParked, WaitingBeatsAreKnown, aside, ghosts
<1>6. EntriesOfWaiters'
  BY <1>0 DEF TakeParked, EntriesOfWaiters, entries, aside, ghosts
<1>7. SessionsExist'
  BY <1>0, AgentType DEF TakeParked, TypeOK, SessionsExist, NoParking, NoSession
<1>8. ContextsOpen'
  BY <1>0 DEF TakeParked, ContextsOpen, Settled, aside, ghosts
<1> QED BY <1>1, <1>2, <1>3, <1>4, <1>5, <1>6, <1>7, <1>8 DEF IInv

LEMMA CreateBeatSessionKeeps ==
    ASSUME IInv, NEW b \in Beats, CreateBeatSession(b) PROVE IInv'
<1>0. TypeOK /\ WaitersAreHeard /\ SessionHeldOnce /\ SkipImpliesNudge
      /\ WaitingBeatsAreKnown /\ EntriesOfWaiters /\ SessionsExist /\ ContextsOpen
  BY DEF IInv
<1>1. TypeOK'
  <2>1. created \in Nat /\ created + 1 \in Sessions
    BY <1>0, BoundTypes DEF CreateBeatSession, TypeOK, Sessions
  <2>2. /\ session' = [session EXCEPT ![b] = created + 1] /\ stage' = [stage EXCEPT ![b] = "acquired"]
        /\ gone' = gone \cup ({session[b]} \ {NoSession}) /\ parked' = parked
        /\ stage[b] = "taken" /\ b \in Prompts
    BY DEF CreateBeatSession, Prompts
  <2>3. gone' \in SUBSET Sessions /\ stage' \in [Prompts -> Stages]
        /\ session' \in [Prompts -> Sessions \cup {NoSession}]
    BY <2>1, <2>2, <1>0 DEF TypeOK, Stages
  <2>4. created' \in 0 .. MaxSessions /\ resumes' \in [Beats -> 0 .. ResumeLimit]
    BY <2>1, <1>0, BoundTypes DEF CreateBeatSession, TypeOK
  <2> QED BY <2>3, <2>4, <1>0 DEF CreateBeatSession, TypeOK, entries, aside, ghosts
<1>2. WaitersAreHeard'
  BY <1>0 DEF CreateBeatSession, WaitersAreHeard, entries, aside, ghosts
<1>3. SessionHeldOnce'
  <2>1. created \in Nat /\ created + 1 \in Sessions
    BY <1>0, BoundTypes DEF CreateBeatSession, TypeOK, Sessions
  <2>2. /\ session' = [session EXCEPT ![b] = created + 1] /\ stage' = [stage EXCEPT ![b] = "acquired"]
        /\ gone' = gone \cup ({session[b]} \ {NoSession}) /\ parked' = parked
        /\ stage[b] = "taken" /\ b \in Prompts
    BY DEF CreateBeatSession, Prompts
  <2>3. /\ \A q \in Prompts : session[q] \in Nat /\ session[q] <= created
        /\ \A a \in Agents : parked[a].session \in Nat /\ parked[a].session <= created
        /\ \A q \in gone : q \in Nat /\ q <= created
    BY <1>0 DEF TypeOK, SessionsExist, Parking, Sessions, NoSession
  <2>4. session'[b] = created + 1
    BY <2>2, <1>0 DEF TypeOK
  <2>5. \A d \in Beats \ {b} : session'[d] = session[d] /\ (Using(d)' <=> Using(d))
    BY <2>2, <1>0 DEF TypeOK, Using
  <2>6. ASSUME NEW d \in Beats, Using(d)'
        PROVE  /\ session'[d] \notin gone'
               /\ \A other \in Beats \ {d} : Using(other)' => session'[other] # session'[d]
               /\ \A a \in Agents : parked'[a].session # session'[d]
    <3>1. CASE d = b
      BY <3>1, <2>1, <2>2, <2>3, <2>4, <2>5 DEF Prompts
    <3>2. CASE d # b
      <4>1. Using(d) /\ session'[d] = session[d] /\ session[d] \in Nat /\ session[d] <= created
        BY <3>2, <2>3, <2>5, <2>6 DEF Prompts
      <4>2. session[d] \notin gone'
        BY <4>1, <3>2, <2>2, <1>0 DEF SessionHeldOnce, Using
      <4>3. \A other \in Beats \ {d} : Using(other)' => session'[other] # session[d]
        BY <4>1, <2>1, <2>4, <2>5, <1>0 DEF SessionHeldOnce
      <4> QED BY <4>1, <4>2, <4>3, <2>2, <1>0 DEF SessionHeldOnce
    <3> QED BY <3>1, <3>2
  <2>7. ASSUME NEW a \in Agents, parked'[a].session # NoSession
        PROVE  /\ parked'[a].session \notin gone'
               /\ \A other \in Agents \ {a} : parked'[other].session # parked'[a].session
    BY <2>2, <2>7, <1>0 DEF SessionHeldOnce, Using
  <2> QED BY <2>6, <2>7 DEF SessionHeldOnce
<1>4. SkipImpliesNudge'
  BY <1>0 DEF CreateBeatSession, SkipImpliesNudge, entries
<1>5. WaitingBeatsAreKnown'
  BY <1>0 DEF CreateBeatSession, WaitingBeatsAreKnown, aside, ghosts
<1>6. EntriesOfWaiters'
  BY <1>0 DEF CreateBeatSession, EntriesOfWaiters, entries, aside, ghosts
<1>7. SessionsExist'
  BY <1>0, Disjoint, AgentType, BoundTypes DEF CreateBeatSession, TypeOK, SessionsExist, Stages,
     Parking, Prompts, Sessions, NoSession, aside, ghosts
<1>8. ContextsOpen'
  BY <1>0 DEF CreateBeatSession, ContextsOpen, Settled, aside, ghosts
<1> QED BY <1>1, <1>2, <1>3, <1>4, <1>5, <1>6, <1>7, <1>8 DEF IInv

LEMMA ReportIdleKeeps ==
    ASSUME IInv, NEW s \in Sessions, ReportIdle(s) PROVE IInv'
<1>1. CASE s \in skips
  <2>1. skips' = skips \ {s} /\ UNCHANGED <<stage, pending, timers, nudges>>
    BY <1>1 DEF ReportIdle, ResolvePromptCompletion
  <2>2. UNCHANGED <<session, resumes, attempt, open, told, contexts, parked, gone, created,
                    agentSession, resets, resetting, dropped, lost, forgotten>>
    BY DEF ReportIdle, stores, aside, ghosts
  <2> QED BY <2>1, <2>2 DEF IInv, TypeOK, WaitersAreHeard, SessionHeldOnce, Using,
             SkipImpliesNudge, WaitingBeatsAreKnown, EntriesOfWaiters, SessionsExist, ContextsOpen
<1>2. CASE s \notin skips
  <2>1. SettleEntry(s, "resolved") /\ nudges' = nudges \ {s} /\ skips' = skips
    BY <1>2 DEF ReportIdle, ResolvePromptCompletion
  <2>2. nudges' \in SUBSET Sessions /\ skips' \subseteq nudges'
    BY <1>2, <2>1 DEF IInv, TypeOK, SkipImpliesNudge
  <2>3. open' \in [Prompts -> Nat] /\ \A p \in Prompts : open'[p] > 0 => open[p] > 0
    BY DEF ReportIdle, IInv, TypeOK
  <2>4. UNCHANGED <<session, resumes, attempt, told, stores, aside>>
    BY DEF ReportIdle
  <2>5. "resolved" \in Settled
    BY DEF Settled
  <2> QED BY <2>1, <2>2, <2>3, <2>4, <2>5, SettlingKeeps
<1> QED BY <1>1, <1>2

\* The rejecting actions differ in who calls them, not in what they leave.
LEMMA RejectingKeeps ==
    ASSUME IInv, NEW s \in Sessions, RejectPromptCompletion(s), open' \in [Prompts -> Nat],
           \A p \in Prompts : open'[p] > 0 => open[p] > 0,
           UNCHANGED <<session, resumes, attempt, told, stores, aside>>
    PROVE  IInv'
<1>1. nudges' \in SUBSET Sessions /\ skips' \subseteq nudges'
  BY DEF RejectPromptCompletion, IInv, TypeOK, SkipImpliesNudge
<1>2. SettleEntry(s, "rejected") /\ "rejected" \in Settled
  BY DEF RejectPromptCompletion, Settled
<1> QED BY <1>1, <1>2, SettlingKeeps

LEMMA ReportErrorKeeps ==
    ASSUME IInv, NEW s \in Sessions, ReportError(s) PROVE IInv'
BY RejectingKeeps DEF ReportError, IInv, TypeOK

LEMMA GuardRejectsKeeps ==
    ASSUME IInv, NEW s \in Sessions, GuardRejects(s) PROVE IInv'
BY RejectingKeeps DEF GuardRejects, IInv, TypeOK

LEMMA PromptFailsKeeps ==
    ASSUME IInv, NEW p \in Prompts, PromptFails(p) PROVE IInv'
<1>0. session[p] \in Sessions
  BY DEF PromptFails, IInv, TypeOK, SessionsExist
<1>1. open' \in [Prompts -> Nat] /\ \A q \in Prompts : open'[q] > 0 => open[q] > 0
  BY DEF PromptFails, IInv, TypeOK
<1>2. CASE p \in Beats /\ session[p] \in nudges
  <2>1. UNCHANGED <<stage, pending, timers, nudges, skips, session, resumes, attempt, told,
                    contexts, parked, gone, created, agentSession, resets, resetting, dropped,
                    lost, forgotten>>
    BY <1>2 DEF PromptFails, stores, aside, ghosts
  <2> QED BY <1>1, <2>1 DEF IInv, TypeOK, WaitersAreHeard, SessionHeldOnce, Using, Prompts,
             SkipImpliesNudge, WaitingBeatsAreKnown, EntriesOfWaiters, SessionsExist, ContextsOpen
<1>3. CASE ~(p \in Beats /\ session[p] \in nudges)
  BY <1>0, <1>1, <1>3, RejectingKeeps DEF PromptFails
<1> QED BY <1>2, <1>3

LEMMA TimerFiresKeeps ==
    ASSUME IInv, NEW p \in Prompts, NEW s \in Sessions, TimerFires(p, s) PROVE IInv'
<1>0. TypeOK /\ WaitersAreHeard /\ SessionHeldOnce /\ SkipImpliesNudge
      /\ WaitingBeatsAreKnown /\ EntriesOfWaiters /\ SessionsExist /\ ContextsOpen
  BY DEF IInv
<1>a. stage[p] = "waiting" /\ session[p] = s
  BY <1>0 DEF TimerFires, EntriesOfWaiters
<1>b. /\ timers' = timers \ {<<p, s>>}
      /\ pending' = [pending EXCEPT ![s] = NoOne]
      /\ stage' = [stage EXCEPT ![p] = "rejected"]
      /\ lost' = (lost \cup ({pending[s]} \ {NoOne})) \ {p}
  <2>1. p \notin lost => pending[s] = p
    BY <1>0 DEF TimerFires, EntriesOfWaiters
  <2> QED BY <2>1, <1>a DEF TimerFires
<1>c. UNCHANGED <<session, resumes, attempt, open, told, nudges, skips, contexts, parked, gone,
                  created, agentSession, resets, resetting, dropped, forgotten>>
  BY DEF TimerFires, stores
<1>1. TypeOK'
  BY <1>0, <1>b, <1>c DEF TypeOK, Stages
<1>2. WaitersAreHeard'
  <2>1. SUFFICES ASSUME NEW q \in Prompts, stage'[q] = "waiting", q \notin dropped
                 PROVE  /\ <<q, session[q]>> \in timers'
                        /\ q \notin lost' => pending'[session[q]] = q
    BY <1>c DEF WaitersAreHeard
  <2>2. q # p /\ stage[q] = "waiting"
    BY <2>1, <1>b, <1>0 DEF TypeOK
  <2>3. <<q, session[q]>> \in timers /\ (q \notin lost => pending[session[q]] = q)
    BY <2>1, <2>2, <1>0 DEF WaitersAreHeard
  <2>4. session[q] = s /\ pending[s] = q => q \in lost'
    BY <2>2, <1>b, Disjoint
  <2>5. q \in lost => q \in lost'
    BY <2>2, <1>b
  <2> QED BY <2>2, <2>3, <2>4, <2>5, <1>b, <1>0 DEF TypeOK
<1>3. SessionHeldOnce'
  <2>1. \A b \in Beats : stage'[b] \in {"new", "over"} <=> stage[b] \in {"new", "over"}
    BY <1>0, <1>a, <1>b DEF TypeOK
  <2> QED BY <2>1, <1>0, <1>c, HoldersStay
<1>4. SkipImpliesNudge'
  BY <1>0, <1>c DEF SkipImpliesNudge
<1>5. WaitingBeatsAreKnown'
  BY <1>0, <1>a, <1>b, <1>c DEF WaitingBeatsAreKnown
<1>6. EntriesOfWaiters'
  <2>1. ASSUME NEW q \in Sessions, pending'[q] # NoOne
        PROVE  /\ stage'[pending'[q]] = "waiting"
               /\ session'[pending'[q]] = q
               /\ <<pending'[q], q>> \in timers'
               /\ pending'[q] \notin lost'
    <3>1. q # s /\ pending'[q] = pending[q] /\ pending[q] \in Prompts
      BY <2>1, <1>b, <1>0 DEF TypeOK
    <3>2. /\ session[pending[q]] = q /\ stage[pending[q]] = "waiting"
          /\ <<pending[q], q>> \in timers /\ pending[q] \notin lost
      BY <3>1, <2>1, <1>0 DEF EntriesOfWaiters
    <3>3. pending[q] # p /\ pending[q] # pending[s]
      <4>1. pending[s] # NoOne => session[pending[s]] = s
        BY <1>0, EntryWaits
      <4> QED BY <4>1, <3>1, <3>2, <1>a, <2>1
    <3> QED BY <3>1, <3>2, <3>3, <1>b, <1>c, <1>0 DEF TypeOK
  <2>2. ASSUME NEW t \in timers'
        PROVE  /\ stage'[t[1]] = "waiting" /\ session'[t[1]] = t[2]
               /\ pending'[t[2]] = t[1] \/ t[1] \in lost'
    <3>1. t \in timers /\ t # <<p, s>>
      BY <1>b, <2>2
    <3>2. PICK u \in Prompts, q \in Sessions : t = <<u, q>>
      BY <3>1, <1>0 DEF TypeOK
    <3>3. /\ stage[u] = "waiting" /\ session[u] = q
          /\ pending[q] = u \/ u \in lost
      BY <3>1, <3>2, <1>0 DEF EntriesOfWaiters
    <3>4. u # p
      BY <3>1, <3>2, <3>3, <1>a
    <3>5. u \in lost => u \in lost'
      BY <3>4, <1>b
    <3>6. q = s /\ pending[q] = u => u \in lost'
      BY <3>4, <1>b, Disjoint
    <3> QED BY <3>2, <3>3, <3>4, <3>5, <3>6, <1>b, <1>c, <1>0 DEF TypeOK
  <2>3. \A u \in lost' : stage'[u] = "waiting"
    <3>1. \A u \in lost' : u # p /\ u \in Prompts /\ stage[u] = "waiting"
      <4>1. \A u \in lost : u \in Prompts /\ stage[u] = "waiting"
        BY <1>0 DEF EntriesOfWaiters, TypeOK
      <4>2. pending[s] # NoOne => pending[s] \in Prompts /\ stage[pending[s]] = "waiting"
        BY <1>0, EntryWaits DEF TypeOK
      <4> QED BY <4>1, <4>2, <1>b
    <3> QED BY <3>1, <1>b, <1>0 DEF TypeOK
  <2> QED BY <2>1, <2>2, <2>3 DEF EntriesOfWaiters
<1>7. SessionsExist'
  BY <1>0, <1>a, <1>b, <1>c DEF SessionsExist
<1>8. ContextsOpen'
  BY <1>0, <1>a, <1>b, <1>c DEF ContextsOpen
<1> QED BY <1>1, <1>2, <1>3, <1>4, <1>5, <1>6, <1>7, <1>8 DEF IInv

\* What rejecting the beats in flight leaves, for a stop and for a reset.
LEMMA Rejections ==
    ASSUME IInv, NEW k \in Companies, RejectAll(InFlight(k))
    PROVE  /\ stage' \in [Prompts -> Stages]
           /\ timers' = timers \ {<<pending[s], s>> : s \in InFlight(k)}
           /\ \A p \in Prompts : stage'[p] = stage[p]
                                 \/ (stage'[p] = "rejected" /\ stage[p] = "waiting")
           /\ \A p \in Prompts : stage'[p] = "waiting" =>
                 stage[p] = "waiting" /\ \A s \in InFlight(k) : pending[s] # p
           /\ \A p \in Prompts : stage[p] = "waiting" /\ (\A s \in InFlight(k) : pending[s] # p)
                 => stage'[p] = "waiting"
           /\ InFlight(k) \subseteq Sessions
           /\ nudges' \in SUBSET Sessions /\ skips' \subseteq nudges' /\ skips' \in SUBSET Sessions
<1> DEFINE hit == InFlight(k)
<1>0. TypeOK /\ EntriesOfWaiters /\ SkipImpliesNudge
  BY DEF IInv
<1>1. hit \subseteq Sessions
  BY <1>0 DEF InFlight, TypeOK
<1>2. \A p \in Prompts : \A s \in hit : pending[s] = p => stage[p] = "waiting"
  BY <1>0, <1>1, Disjoint, EntryWaits
<1>3. /\ timers' = timers \ {<<pending[s], s>> : s \in hit}
      /\ stage' = [p \in Prompts |->
                     IF \E s \in hit : pending[s] = p THEN "rejected" ELSE stage[p]]
      /\ nudges' = nudges \ hit
      /\ skips' = skips \ hit
  BY DEF RejectAll
<1> HIDE DEF hit
<1>4. stage' \in [Prompts -> Stages]
  BY <1>0, <1>3 DEF TypeOK, Stages
<1>5. nudges' \in SUBSET Sessions /\ skips' \subseteq nudges' /\ skips' \in SUBSET Sessions
  BY <1>0, <1>3 DEF TypeOK, SkipImpliesNudge
<1>6. \A p \in Prompts : stage'[p] = IF \E s \in hit : pending[s] = p THEN "rejected" ELSE stage[p]
  BY <1>3
<1> QED BY <1>1, <1>2, <1>3, <1>4, <1>5, <1>6 DEF hit

LEMMA CancelInFlightBeatsKeeps ==
    ASSUME IInv, NEW k \in Companies, CancelInFlightBeats(k) PROVE IInv'
<1> DEFINE hit == InFlight(k)
<1>0. TypeOK /\ WaitersAreHeard /\ SessionHeldOnce /\ SkipImpliesNudge
      /\ WaitingBeatsAreKnown /\ EntriesOfWaiters /\ SessionsExist /\ ContextsOpen
  BY DEF IInv
<1>a. /\ stage' \in [Prompts -> Stages]
      /\ timers' = timers \ {<<pending[s], s>> : s \in hit}
      /\ \A p \in Prompts : stage'[p] = stage[p]
                            \/ (stage'[p] = "rejected" /\ stage[p] = "waiting")
      /\ \A p \in Prompts : stage'[p] = "waiting" =>
            stage[p] = "waiting" /\ \A s \in hit : pending[s] # p
      /\ \A p \in Prompts : stage[p] = "waiting" /\ (\A s \in hit : pending[s] # p)
            => stage'[p] = "waiting"
      /\ hit \subseteq Sessions
      /\ nudges' \in SUBSET Sessions /\ skips' \subseteq nudges' /\ skips' \in SUBSET Sessions
  BY Rejections DEF CancelInFlightBeats
<1>b. pending' = [s \in Sessions |-> IF s \in hit THEN NoOne ELSE pending[s]]
  BY DEF CancelInFlightBeats
<1>c. UNCHANGED <<session, resumes, attempt, open, told, contexts, parked, gone, created,
                  agentSession, resets, resetting, dropped, lost, forgotten>>
  BY DEF CancelInFlightBeats, stores, aside, ghosts
<1> HIDE DEF hit
<1>1. TypeOK'
  BY <1>0, <1>a, <1>b, <1>c DEF TypeOK
<1>2. WaitersAreHeard'
  <2>1. SUFFICES ASSUME NEW q \in Prompts, stage'[q] = "waiting", q \notin dropped
                 PROVE  /\ <<q, session[q]>> \in timers'
                        /\ q \notin lost => pending'[session[q]] = q
    BY <1>c DEF WaitersAreHeard
  <2>2. stage[q] = "waiting" /\ \A s \in hit : pending[s] # q
    BY <2>1, <1>a
  <2>3. /\ <<q, session[q]>> \in timers /\ session[q] \in Sessions
        /\ q \notin lost => pending[session[q]] = q
    BY <2>1, <2>2, <1>0 DEF WaitersAreHeard, TypeOK
  <2> QED BY <2>2, <2>3, <1>a, <1>b
<1>3. SessionHeldOnce'
  <2>1. \A b \in Beats : stage'[b] \in {"new", "over"} <=> stage[b] \in {"new", "over"}
    BY <1>a DEF Prompts
  <2> QED BY <2>1, <1>0, <1>c, HoldersStay
<1>4. SkipImpliesNudge'
  BY <1>a DEF SkipImpliesNudge
<1>5. WaitingBeatsAreKnown'
  BY <1>0, <1>a, <1>c DEF WaitingBeatsAreKnown, Prompts
<1>6. EntriesOfWaiters'
  <2>1. ASSUME NEW q \in Sessions, pending'[q] # NoOne
        PROVE  /\ stage'[pending'[q]] = "waiting"
               /\ session'[pending'[q]] = q
               /\ <<pending'[q], q>> \in timers'
               /\ pending'[q] \notin lost'
    <3>1. q \notin hit /\ pending'[q] = pending[q] /\ pending[q] \in Prompts
      BY <2>1, <1>b, <1>0 DEF TypeOK
    <3>2. /\ session[pending[q]] = q /\ stage[pending[q]] = "waiting"
          /\ <<pending[q], q>> \in timers /\ pending[q] \notin lost
      BY <3>1, <2>1, <1>0 DEF EntriesOfWaiters
    <3>3. \A s \in hit : pending[s] # pending[q]
      <4>1. \A s \in hit : pending[s] # NoOne => session[pending[s]] = s
        BY <1>0, <1>a, EntryWaits
      <4> QED BY <4>1, <3>1, <3>2, <2>1
    <3> QED BY <3>1, <3>2, <3>3, <1>a, <1>c
  <2>2. ASSUME NEW t \in timers'
        PROVE  /\ stage'[t[1]] = "waiting" /\ session'[t[1]] = t[2]
               /\ pending'[t[2]] = t[1] \/ t[1] \in lost'
    <3>1. t \in timers /\ t \notin {<<pending[s], s>> : s \in hit}
      BY <2>2, <1>a
    <3>2. PICK u \in Prompts, q \in Sessions : t = <<u, q>>
      BY <3>1, <1>0 DEF TypeOK
    <3>3. /\ stage[u] = "waiting" /\ session[u] = q
          /\ pending[q] = u \/ u \in lost
      BY <3>1, <3>2, <1>0 DEF EntriesOfWaiters
    <3>4. \A s \in hit : pending[s] # u
      <4>0. \A s \in hit : pending[s] # NoOne => session[pending[s]] = s
        BY <1>0, <1>a, EntryWaits
      <4>1. \A s \in hit : pending[s] = u => s = q
        BY <4>0, <3>2, <3>3, Disjoint
      <4> QED BY <4>1, <3>1, <3>2
    <3> QED BY <3>2, <3>3, <3>4, <1>a, <1>b, <1>c
  <2>3. \A u \in lost' : stage'[u] = "waiting"
    <3>1. \A u \in lost : u \in Prompts /\ stage[u] = "waiting" /\ \A s \in hit : pending[s] # u
      <4>1. \A u \in lost : u \in Prompts /\ stage[u] = "waiting"
        BY <1>0 DEF EntriesOfWaiters, TypeOK
      <4>2. \A s \in hit : pending[s] # NoOne => pending[s] \notin lost
        BY <1>0, <1>a DEF EntriesOfWaiters
      <4> QED BY <4>1, <4>2, Disjoint
    <3> QED BY <3>1, <1>a, <1>c
  <2> QED BY <2>1, <2>2, <2>3 DEF EntriesOfWaiters
<1>7. SessionsExist'
  BY <1>0, <1>a, <1>c DEF SessionsExist, Prompts
<1>8. ContextsOpen'
  BY <1>0, <1>a, <1>c DEF ContextsOpen, Prompts
<1> QED BY <1>1, <1>2, <1>3, <1>4, <1>5, <1>6, <1>7, <1>8 DEF IInv

LEMMA BeginResetKeeps ==
    ASSUME IInv, NEW k \in Companies, BeginReset(k) PROVE IInv'
<1> DEFINE hit == InFlight(k)
<1>0. TypeOK /\ WaitersAreHeard /\ SessionHeldOnce /\ SkipImpliesNudge
      /\ WaitingBeatsAreKnown /\ EntriesOfWaiters /\ SessionsExist /\ ContextsOpen
  BY DEF IInv
<1>a. /\ stage' \in [Prompts -> Stages]
      /\ timers' = timers \ {<<pending[s], s>> : s \in hit}
      /\ \A p \in Prompts : stage'[p] = stage[p]
                            \/ (stage'[p] = "rejected" /\ stage[p] = "waiting")
      /\ \A p \in Prompts : stage'[p] = "waiting" =>
            stage[p] = "waiting" /\ \A s \in hit : pending[s] # p
      /\ \A p \in Prompts : stage[p] = "waiting" /\ (\A s \in hit : pending[s] # p)
            => stage'[p] = "waiting"
      /\ hit \subseteq Sessions
      /\ nudges' \in SUBSET Sessions /\ skips' \subseteq nudges' /\ skips' \in SUBSET Sessions
  BY Rejections DEF BeginReset
<1>b. /\ pending' = [s \in Sessions |-> NoOne]
      /\ lost' = lost \cup ({pending[s] : s \in Sessions \ hit} \ {NoOne})
      /\ agentSession' = NoSession
      /\ resets < MaxResets /\ resets' = resets + 1
      /\ resetting' = resetting \cup {k}
  BY DEF BeginReset
<1>c. UNCHANGED <<session, resumes, attempt, open, told, contexts, parked, gone, created,
                  dropped, forgotten>>
  BY DEF BeginReset
<1> HIDE DEF hit
<1>1. TypeOK'
  <2>1. resets' \in 0 .. MaxResets /\ resetting' \in SUBSET Companies
    BY <1>0, <1>b, BoundTypes DEF TypeOK
  <2>2. lost' \in SUBSET Prompts /\ pending' \in [Sessions -> Prompts \cup {NoOne}]
    BY <1>0, <1>b DEF TypeOK
  <2>3. timers' \in SUBSET (Prompts \X Sessions) /\ agentSession' \in Sessions \cup {NoSession}
    BY <1>0, <1>a, <1>b DEF TypeOK
  <2> QED BY <2>1, <2>2, <2>3, <1>0, <1>a, <1>c DEF TypeOK
<1>2. WaitersAreHeard'
  <2>1. SUFFICES ASSUME NEW q \in Prompts, stage'[q] = "waiting", q \notin dropped
                 PROVE  /\ <<q, session[q]>> \in timers'
                        /\ q \notin lost' => pending'[session[q]] = q
    BY <1>c DEF WaitersAreHeard
  <2>2. stage[q] = "waiting" /\ \A s \in hit : pending[s] # q
    BY <2>1, <1>a
  <2>3. /\ <<q, session[q]>> \in timers /\ session[q] \in Sessions
        /\ q \notin lost => pending[session[q]] = q
    BY <2>1, <2>2, <1>0 DEF WaitersAreHeard, TypeOK
  <2>4. q \in lost'
    BY <2>2, <2>3, <1>b, Disjoint
  <2> QED BY <2>2, <2>3, <2>4, <1>a
<1>3. SessionHeldOnce'
  <2>1. \A b \in Beats : stage'[b] \in {"new", "over"} <=> stage[b] \in {"new", "over"}
    BY <1>a DEF Prompts
  <2> QED BY <2>1, <1>0, <1>c, HoldersStay
<1>4. SkipImpliesNudge'
  BY <1>a DEF SkipImpliesNudge
<1>5. WaitingBeatsAreKnown'
  BY <1>0, <1>a, <1>c DEF WaitingBeatsAreKnown, Prompts
<1>6. EntriesOfWaiters'
  <2>1. \A q \in Sessions : pending'[q] = NoOne
    BY <1>b
  <2>2. ASSUME NEW t \in timers'
        PROVE  /\ stage'[t[1]] = "waiting" /\ session'[t[1]] = t[2]
               /\ t[1] \in lost'
    <3>1. t \in timers /\ t \notin {<<pending[s], s>> : s \in hit}
      BY <2>2, <1>a
    <3>2. PICK u \in Prompts, q \in Sessions : t = <<u, q>>
      BY <3>1, <1>0 DEF TypeOK
    <3>3. /\ stage[u] = "waiting" /\ session[u] = q
          /\ pending[q] = u \/ u \in lost
      BY <3>1, <3>2, <1>0 DEF EntriesOfWaiters
    <3>4. \A s \in hit : pending[s] # u
      <4>0. \A s \in hit : pending[s] # NoOne => session[pending[s]] = s
        BY <1>0, <1>a, EntryWaits
      <4>1. \A s \in hit : pending[s] = u => s = q
        BY <4>0, <3>2, <3>3, Disjoint
      <4> QED BY <4>1, <3>1, <3>2
    <3>5. u \in lost'
      BY <3>3, <3>4, <1>b, Disjoint
    <3> QED BY <3>2, <3>3, <3>4, <3>5, <1>a, <1>c
  <2>3. \A u \in lost' : stage'[u] = "waiting"
    <3>1. \A u \in lost : u \in Prompts /\ stage[u] = "waiting" /\ \A s \in hit : pending[s] # u
      <4>1. \A u \in lost : u \in Prompts /\ stage[u] = "waiting"
        BY <1>0 DEF EntriesOfWaiters, TypeOK
      <4>2. \A s \in hit : pending[s] # NoOne => pending[s] \notin lost
        BY <1>0, <1>a DEF EntriesOfWaiters
      <4> QED BY <4>1, <4>2, Disjoint
    <3>2. ASSUME NEW s \in Sessions \ hit, pending[s] # NoOne
          PROVE  pending[s] \in Prompts /\ stage'[pending[s]] = "waiting"
      <4>1. pending[s] \in Prompts /\ stage[pending[s]] = "waiting" /\ session[pending[s]] = s
        BY <3>2, <1>0, EntryWaits DEF TypeOK
      <4>0. hit \subseteq Sessions
        BY <1>a
      <4>2. \A r \in hit : pending[r] # NoOne => session[pending[r]] = r
        BY <4>0, <1>0, EntryWaits
      <4>3. \A r \in hit : pending[r] # pending[s]
        BY <4>1, <4>2, <3>2
      <4> QED BY <4>1, <4>3, <1>a
    <3> QED BY <3>1, <3>2, <1>a, <1>b
  <2> QED BY <2>1, <2>2, <2>3 DEF EntriesOfWaiters
<1>7. SessionsExist'
  BY <1>0, <1>a, <1>b, <1>c DEF SessionsExist, TypeOK, Prompts, NoSession
<1>8. ContextsOpen'
  BY <1>0, <1>a, <1>c DEF ContextsOpen, Prompts
<1> QED BY <1>1, <1>2, <1>3, <1>4, <1>5, <1>6, <1>7, <1>8 DEF IInv

LEMMA FinishResetKeeps ==
    ASSUME IInv, NEW k \in Companies, FinishReset(k) PROVE IInv'
<1>0. TypeOK /\ WaitersAreHeard /\ SessionHeldOnce /\ SkipImpliesNudge
      /\ WaitingBeatsAreKnown /\ EntriesOfWaiters /\ SessionsExist /\ ContextsOpen
  BY DEF IInv
<1>a. contexts' = {} /\ forgotten' = forgotten \cup contexts /\ resetting' = resetting \ {k}
  BY DEF FinishReset
<1>b. UNCHANGED <<stage, session, resumes, attempt, open, pending, timers, told, nudges, skips,
                  parked, gone, created, agentSession, resets, dropped, lost>>
  BY DEF FinishReset, waiters, entries
<1>1. TypeOK'
  BY <1>0, <1>a, <1>b DEF TypeOK
<1>2. WaitersAreHeard' /\ SkipImpliesNudge' /\ EntriesOfWaiters' /\ SessionsExist'
  BY <1>0, <1>b DEF WaitersAreHeard, SkipImpliesNudge, EntriesOfWaiters, SessionsExist
<1>3. SessionHeldOnce'
  BY <1>0, <1>b, HoldersStay
<1>4. WaitingBeatsAreKnown' /\ ContextsOpen'
  BY <1>0, <1>a, <1>b DEF WaitingBeatsAreKnown, ContextsOpen
<1> QED BY <1>1, <1>2, <1>3, <1>4 DEF IInv

LEMMA Starts == Init => IInv
<1>1. SUFFICES ASSUME Init PROVE IInv
  OBVIOUS
<1>2. TypeOK
  BY <1>1, BoundTypes DEF Init, TypeOK, Stages, Parking, NoParking
<1>3. /\ WaitersAreHeard /\ SkipImpliesNudge /\ WaitingBeatsAreKnown /\ EntriesOfWaiters
      /\ ContextsOpen
  BY <1>1 DEF Init, WaitersAreHeard, SkipImpliesNudge, WaitingBeatsAreKnown, EntriesOfWaiters,
     ContextsOpen, Settled, Prompts
<1>4. SessionHeldOnce
  BY <1>1 DEF Init, SessionHeldOnce, Using, NoParking, Prompts
<1>5. SessionsExist
  BY <1>1 DEF Init, SessionsExist, NoParking, NoSession, Prompts
<1> QED BY <1>2, <1>3, <1>4, <1>5 DEF IInv

LEMMA Stutters == IInv /\ UNCHANGED vars => IInv'
BY DEF IInv, TypeOK, WaitersAreHeard, SessionHeldOnce, Using, SkipImpliesNudge,
   WaitingBeatsAreKnown, EntriesOfWaiters, SessionsExist, ContextsOpen, vars, waiters, entries,
   stores, aside, ghosts

\* IInv holds of every reachable state, for every number of beats, calls,
\* agents and sessions.
THEOREM Inductive == Spec => []IInv
<1>1. ASSUME IInv, Next PROVE IInv'
  <2>1. CASE \E b \in Beats : BeatStep(b)
    BY <1>1, <2>1, TakeParkedKeeps, ResumeKeeps, CreateBeatSessionKeeps, RegisterContextKeeps,
       NoWorkKeeps, SetUpFailsKeeps, UnregisterContextKeeps, ParkKeeps, RetireKeeps DEF BeatStep
  <2>2. CASE \E c \in Calls : CallStep(c)
    BY <1>1, <2>2, FindAgentSessionKeeps, CreateAgentSessionKeeps, CallEndsKeeps, RetryCallKeeps
       DEF CallStep
  <2>3. ASSUME NEW p \in Prompts, PromptStep(p) PROVE IInv'
    BY <1>1, <2>3, UnreachableKeeps, RegisterKeeps, PromptReturnsKeeps, PromptFailsKeeps
       DEF PromptStep
  <2>4. CASE \E p \in Prompts : SomeTimerFires(p)
    BY <1>1, <2>4, TimerFiresKeeps DEF SomeTimerFires
  <2>5. CASE \E s \in Sessions : SessionStep(s)
    BY <1>1, <2>5, ReportIdleKeeps, ReportErrorKeeps, WrapUpKeeps, NudgeStalledKeeps,
       GuardRejectsKeeps DEF SessionStep
  <2>6. ASSUME NEW k \in Companies, CancelInFlightBeats(k) \/ BeginReset(k) \/ FinishReset(k)
        PROVE  IInv'
    BY <1>1, <2>6, CancelInFlightBeatsKeeps, BeginResetKeeps, FinishResetKeeps
  <2> QED BY <1>1, <2>1, <2>2, <2>3, <2>4, <2>5, <2>6 DEF Next
<1> QED BY <1>1, Starts, Stutters, PTL DEF Spec

\* Whoever waits for a prompt has its entry and its armed timer, although
\* sessions change hands and settlements go by the session's id alone.
THEOREM WaitersHeard == Spec => []WaitersAreHeard
BY Inductive, PTL DEF IInv

\* No two beats hold one session, and nobody holds a destroyed one.
THEOREM OneHolder == Spec => []SessionHeldOnce
BY Inductive, PTL DEF IInv

\* The two flags a nudge leaves agree: no idle report is skipped in a state
\* where the aborted prompt's failure would count.
THEOREM FlagsAgree == Spec => []SkipImpliesNudge
BY Inductive, PTL DEF IInv

\* A waiting beat's session has its context: the beat can be wrapped up and
\* cancelled.
THEOREM BeatsAreKnown == Spec => []WaitingBeatsAreKnown
BY Inductive, PTL DEF IInv

\* The variables have their types.
THEOREM TypeCorrect == Spec => []TypeOK
BY Inductive, PTL DEF IInv

---------------------------------------------------------------------------
\* SessionsApart, pair by pair: what a call holds or would be given is held by
\* no beat and parked for none.
LEMMA ApartInPairs ==
    SessionsApart <=>
      /\ \A c \in Calls, b \in Beats : session[c] # NoSession => session[c] # session[b]
      /\ \A c \in Calls, a \in Agents : session[c] # NoSession => session[c] # parked[a].session
      /\ \A b \in Beats : agentSession # NoSession => agentSession # session[b]
      /\ \A a \in Agents : agentSession # NoSession => agentSession # parked[a].session
BY DEF SessionsApart

\* The actions that give somebody a session keep the two kinds apart: a session
\* is new, or comes from a place of the same kind.
LEMMA SessionsMove ==
    ASSUME IInv, SessionsApart,
           \/ \E b \in Beats : TakeParked(b) \/ CreateBeatSession(b) \/ Park(b)
           \/ \E c \in Calls : CallStep(c)
           \/ \E k \in Companies : BeginReset(k)
    PROVE  SessionsApart'
<1> DEFINE Apart ==
      /\ \A c \in Calls, b \in Beats : session[c] # NoSession => session[c] # session[b]
      /\ \A c \in Calls, a \in Agents : session[c] # NoSession => session[c] # parked[a].session
      /\ \A b \in Beats : agentSession # NoSession => agentSession # session[b]
      /\ \A a \in Agents : agentSession # NoSession => agentSession # parked[a].session
<1>1. Apart
  BY ApartInPairs
<1>2. /\ \A p \in Prompts : session[p] \in Nat /\ session[p] <= created
      /\ \A a \in Agents : parked[a].session \in Nat /\ parked[a].session <= created
      /\ agentSession \in Nat /\ agentSession <= created /\ created \in Nat
  BY BoundTypes DEF IInv, TypeOK, SessionsExist, Parking, Sessions, NoSession
<1>3. session \in [Prompts -> Sessions \cup {NoSession}] /\ parked \in [Agents -> Parking]
  BY DEF IInv, TypeOK
<1>4. ASSUME NEW b \in Beats, TakeParked(b) PROVE Apart'
  BY <1>1, <1>3, <1>4, Disjoint, AgentType DEF TakeParked, NoParking, Prompts
<1>5. ASSUME NEW b \in Beats, CreateBeatSession(b) PROVE Apart'
  <2>1. session' = [session EXCEPT ![b] = created + 1]
        /\ UNCHANGED <<parked, agentSession>>
    BY <1>5 DEF CreateBeatSession
  <2> QED BY <1>1, <1>2, <1>3, <2>1, Disjoint DEF Prompts
<1>6. ASSUME NEW b \in Beats, Park(b) PROVE Apart'
  <2>1. /\ parked' = [parked EXCEPT ![AgentOf[b]] = [session |-> session[b], resumes |-> resumes[b]]]
        /\ UNCHANGED <<session, agentSession>>
    BY <1>6 DEF Park
  <2> QED BY <1>1, <1>3, <2>1, AgentType DEF Prompts
<1>7. ASSUME NEW c \in Calls, FindAgentSession(c) PROVE Apart'
  BY <1>1, <1>3, <1>7, Disjoint DEF FindAgentSession, Prompts, stores
<1>8. ASSUME NEW c \in Calls, CreateAgentSession(c) PROVE Apart'
  <2>1. /\ session' = [session EXCEPT ![c] = created + 1]
        /\ agentSession' = created + 1
        /\ parked' = parked
    BY <1>8 DEF CreateAgentSession
  <2> QED BY <1>1, <1>2, <1>3, <2>1, Disjoint DEF Prompts
<1>9. ASSUME NEW c \in Calls, CallEnds(c) \/ RetryCall(c) PROVE Apart'
  BY <1>1, <1>9 DEF CallEnds, RetryCall, stores
<1>10. ASSUME NEW k \in Companies, BeginReset(k) PROVE Apart'
  BY <1>1, <1>10 DEF BeginReset
<1>11. Apart'
  BY <1>4, <1>5, <1>6, <1>7, <1>8, <1>9, <1>10 DEF CallStep
<1> QED BY <1>11, ApartInPairs, PTL

\* All other steps leave the sessions where they are.
LEMMA StepSessionsApart == IInv /\ SessionsApart /\ [Next]_vars => SessionsApart'
<1> SUFFICES ASSUME IInv, SessionsApart, [Next]_vars PROVE SessionsApart'
  OBVIOUS
<1>1. ASSUME UNCHANGED <<session, parked, agentSession>> PROVE SessionsApart'
  BY <1>1 DEF SessionsApart
<1>2. ASSUME NEW b \in Beats, BeatStep(b) PROVE SessionsApart'
  <2>1. CASE Resume(b) \/ RegisterContext(b) \/ NoWork(b)
    BY <1>1, <2>1 DEF Resume, RegisterContext, NoWork, stores
  <2>2. CASE SetUpFails(b) \/ UnregisterContext(b) \/ Retire(b)
    BY <1>1, <2>2 DEF SetUpFails, UnregisterContext, Retire, stores
  <2> QED BY <1>2, <2>1, <2>2, SessionsMove DEF BeatStep
<1>3. ASSUME NEW c \in Calls, CallStep(c) PROVE SessionsApart'
  BY <1>3, SessionsMove
<1>4. ASSUME NEW p \in Prompts, PromptStep(p) PROVE SessionsApart'
  BY <1>1, <1>4 DEF PromptStep, Unreachable, Register, PromptReturns, PromptFails, stores
<1>5. ASSUME NEW p \in Prompts, SomeTimerFires(p) PROVE SessionsApart'
  BY <1>1, <1>5 DEF SomeTimerFires, TimerFires, stores
<1>6. ASSUME NEW s \in Sessions, SessionStep(s) PROVE SessionsApart'
  BY <1>1, <1>6 DEF SessionStep, ReportIdle, ReportError, WrapUp, NudgeStalled, Nudge,
     GuardRejects, waiters, stores
<1>7. ASSUME NEW k \in Companies, CancelInFlightBeats(k) \/ FinishReset(k)
      PROVE  SessionsApart'
  BY <1>1, <1>7 DEF CancelInFlightBeats, FinishReset, waiters, stores
<1>8. ASSUME NEW k \in Companies, BeginReset(k) PROVE SessionsApart'
  BY <1>8, SessionsMove
<1>9. CASE UNCHANGED vars
  BY <1>1, <1>9 DEF vars, waiters, stores
<1> QED BY <1>2, <1>3, <1>4, <1>5, <1>6, <1>7, <1>8, <1>9 DEF Next

\* A prompt that registers finds no beat's entry on its session: the beat would
\* hold that session too, or a call would.
LEMMA RegisterSparesBeats ==
    ASSUME IInv, SessionsApart, BeatsKeepEntries, NEW p \in Prompts, Register(p)
    PROVE  BeatsKeepEntries'
<1> DEFINE s == session[p]
           q == pending[s]
<1>1. stage[p] = "ready" /\ dropped' = IF q = NoOne THEN dropped ELSE dropped \cup {q}
  BY DEF Register, PutEntry
<1>2. s \in Sessions
  BY <1>1 DEF IInv, TypeOK, SessionsExist
<1>3. ASSUME q # NoOne PROVE q \in Calls
  <2>1. q \in Prompts /\ stage[q] = "waiting" /\ session[q] = s
    BY <1>2, <1>3, EntryWaits DEF IInv, TypeOK
  <2>2. SUFFICES ASSUME q \in Beats PROVE FALSE
    BY <2>1 DEF Prompts
  <2>3. s # NoSession /\ q # p
    BY <1>1, <1>2, <2>1 DEF Sessions, NoSession
  <2>4. CASE p \in Beats
    BY <1>1, <2>1, <2>2, <2>3, <2>4 DEF IInv, SessionHeldOnce, Using
  <2>5. CASE p \in Calls
    BY <2>1, <2>2, <2>3, <2>5 DEF SessionsApart
  <2> QED BY <2>4, <2>5 DEF Prompts
<1> QED BY <1>1, <1>3 DEF BeatsKeepEntries

\* Nothing but a registration drops an entry.
LEMMA StepBeatsKeepEntries ==
    IInv /\ SessionsApart /\ BeatsKeepEntries /\ [Next]_vars => BeatsKeepEntries'
<1> SUFFICES ASSUME IInv, SessionsApart, BeatsKeepEntries, [Next]_vars
             PROVE  BeatsKeepEntries'
  OBVIOUS
<1>1. ASSUME UNCHANGED dropped PROVE BeatsKeepEntries'
  BY <1>1 DEF BeatsKeepEntries
<1>2. ASSUME NEW b \in Beats, BeatStep(b) PROVE BeatsKeepEntries'
  <2>1. CASE TakeParked(b) \/ Resume(b) \/ CreateBeatSession(b) \/ RegisterContext(b)
    BY <1>1, <2>1 DEF TakeParked, Resume, CreateBeatSession, RegisterContext, aside, ghosts
  <2>2. CASE NoWork(b) \/ SetUpFails(b) \/ UnregisterContext(b) \/ Park(b) \/ Retire(b)
    BY <1>1, <2>2 DEF NoWork, SetUpFails, UnregisterContext, Park, Retire, aside, ghosts
  <2> QED BY <1>2, <2>1, <2>2 DEF BeatStep
<1>3. ASSUME NEW c \in Calls, CallStep(c) PROVE BeatsKeepEntries'
  BY <1>1, <1>3 DEF CallStep, FindAgentSession, CreateAgentSession, CallEnds, RetryCall, aside,
     ghosts
<1>4. ASSUME NEW p \in Prompts, PromptStep(p) PROVE BeatsKeepEntries'
  BY <1>1, <1>4, RegisterSparesBeats DEF PromptStep, Unreachable, PromptReturns, PromptFails,
     aside, ghosts
<1>5. ASSUME NEW p \in Prompts, SomeTimerFires(p) PROVE BeatsKeepEntries'
  BY <1>1, <1>5 DEF SomeTimerFires, TimerFires
<1>6. ASSUME NEW s \in Sessions, SessionStep(s) PROVE BeatsKeepEntries'
  BY <1>1, <1>6 DEF SessionStep, ReportIdle, ReportError, WrapUp, NudgeStalled, Nudge,
     GuardRejects, aside, ghosts
<1>7. ASSUME NEW k \in Companies, CancelInFlightBeats(k) \/ BeginReset(k) \/ FinishReset(k)
      PROVE  BeatsKeepEntries'
  BY <1>1, <1>7 DEF CancelInFlightBeats, BeginReset, FinishReset, aside, ghosts
<1>8. CASE UNCHANGED vars
  BY <1>1, <1>8 DEF vars, aside, ghosts
<1> QED BY <1>2, <1>3, <1>4, <1>5, <1>6, <1>7, <1>8 DEF Next

\* A beat's entry is never replaced by that of another prompt: calls share an
\* agent's session among themselves only (llm.ts:402).
THEOREM BeatsNotReplaced == Spec => []BeatsKeepEntries
<1>1. Init => SessionsApart /\ BeatsKeepEntries
  BY DEF Init, SessionsApart, BeatsKeepEntries, NoParking, Prompts
<1>2. Spec => [](SessionsApart /\ BeatsKeepEntries)
  BY <1>1, Inductive, StepSessionsApart, StepBeatsKeepEntries, PTL DEF Spec
<1> QED BY <1>2, PTL

\* A waiting beat can rely on its timer whatever else happens in its session, and
\* on its entry unless a company was reset: WaitersAreHeard without its exception.
THEOREM BeatsAreHeard ==
    Spec => [](\A b \in Beats : stage[b] = "waiting" =>
                 /\ <<b, session[b]>> \in timers
                 /\ b \notin lost => pending[session[b]] = b)
<1>1. WaitersAreHeard /\ BeatsKeepEntries =>
        \A b \in Beats : stage[b] = "waiting" =>
          /\ <<b, session[b]>> \in timers
          /\ b \notin lost => pending[session[b]] = b
  BY Disjoint DEF WaitersAreHeard, BeatsKeepEntries, Prompts
<1> QED BY <1>1, WaitersHeard, BeatsNotReplaced, PTL
============================================================================
