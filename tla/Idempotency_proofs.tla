------------------------- MODULE Idempotency_proofs -------------------------
(***************************************************************************)
(* Every reachable state of the replay cache satisfies IInv, for any number *)
(* of retries, bodies and crashes; AtMostOnce, ReplaysAreTrue and           *)
(* StoredRepliesStay follow from it.                                        *)
(***************************************************************************)
EXTENDS Idempotency, TLAPS

\* At the start the key is free and nobody holds it (IInv of Idempotency).
LEMMA InitIInv == Init => IInv
BY IdempotencyConstants
DEF Init, IInv, TypeOK, OneHolder, Holds, EffectsMatchStages, StoredIsDone,
    ReplaysAreTrue, SilentUntilTold, NoRow, Stages, Answers

\* Every statement and handler step keeps the types of Idempotency.
LEMMA TypeStep == TypeOK /\ [Next]_idemVars => TypeOK'
<1> SUFFICES ASSUME TypeOK, [Next]_idemVars PROVE TypeOK'
  OBVIOUS
<1> USE IdempotencyConstants DEF TypeOK, Stages, Answers, Go, Tell
<1>1. ASSUME NEW r \in Request, Reserve(r) PROVE TypeOK'
  BY <1>1 DEF Reserve
<1>2. ASSUME NEW r \in Request, Hook(r) PROVE TypeOK'
  BY <1>2 DEF Hook, SelectNothing, SelectConflict, SelectPending, SelectStored,
              NoRow
<1>3. ASSUME NEW r \in Request, HookFails(r) \/ Handle(r) PROVE TypeOK'
  BY <1>3 DEF HookFails, Handle, CommitEffect, Succeed, Refuse, FailPlainly
<1>4. ASSUME NEW r \in Request, Write(r) \/ StoreFails(r) PROVE TypeOK'
  BY <1>4 DEF Write, Remember, Release, StoreFails, NoRow
<1>5. CASE Crash
  BY <1>5 DEF Crash
<1>6. CASE UNCHANGED idemVars
  BY <1>6 DEF idemVars
<1>7. QED
  BY <1>1, <1>2, <1>3, <1>4, <1>5, <1>6 DEF Next

\* The rest of IInv survives every step: one lemma per group of actions.
LEMMA HookStep ==
  ASSUME IInv, NEW r \in Request, Reserve(r) \/ Hook(r) \/ HookFails(r)
  PROVE  OneHolder' /\ EffectsMatchStages' /\ StoredIsDone' /\ ReplaysAreTrue'
<1> USE DEF IInv, TypeOK, Go, Tell, NoRow
<1>1. CASE Reserve(r)
  BY <1>1, IdempotencyConstants
  DEF Reserve, OneHolder, Holds, EffectsMatchStages, StoredIsDone, ReplaysAreTrue
<1>2. CASE SelectNothing(r)
  BY <1>2 DEF SelectNothing, OneHolder, Holds, EffectsMatchStages, StoredIsDone,
              ReplaysAreTrue
<1>3. CASE SelectConflict(r) \/ SelectPending(r) \/ HookFails(r)
  BY <1>3 DEF SelectConflict, SelectPending, HookFails, OneHolder, Holds,
              EffectsMatchStages, StoredIsDone, ReplaysAreTrue
<1>4. CASE SelectStored(r)
  BY <1>4 DEF SelectStored, OneHolder, Holds, EffectsMatchStages, StoredIsDone,
              ReplaysAreTrue
<1>5. QED
  BY <1>1, <1>2, <1>3, <1>4 DEF Hook

\* The handler's steps: only the holder of the key commits an effect.
LEMMA HandlerStep ==
  ASSUME IInv, NEW r \in Request, Handle(r)
  PROVE  OneHolder' /\ EffectsMatchStages' /\ StoredIsDone' /\ ReplaysAreTrue'
<1> USE DEF IInv, TypeOK, Go, Tell, NoRow
<1>1. CASE CommitEffect(r)
  BY <1>1 DEF CommitEffect, OneHolder, Holds, EffectsMatchStages, StoredIsDone,
              ReplaysAreTrue
<1>2. CASE Succeed(r)
  BY <1>2 DEF Succeed, OneHolder, Holds, EffectsMatchStages, StoredIsDone,
              ReplaysAreTrue
<1>3. CASE Refuse(r)
  BY <1>3 DEF Refuse, OneHolder, Holds, EffectsMatchStages, StoredIsDone,
              ReplaysAreTrue
<1>4. CASE FailPlainly(r)
  BY <1>4 DEF FailPlainly, OneHolder, Holds, EffectsMatchStages, StoredIsDone,
              ReplaysAreTrue
<1>5. QED
  BY <1>1, <1>2, <1>3, <1>4 DEF Handle

\* The writes behind a reply: a release frees the key of a request without an
\* effect, so nobody holds it afterwards.
LEMMA WriteStep ==
  ASSUME IInv, NEW r \in Request, Write(r) \/ StoreFails(r)
  PROVE  OneHolder' /\ EffectsMatchStages' /\ StoredIsDone' /\ ReplaysAreTrue'
<1> USE DEF IInv, TypeOK, Go, NoRow
<1>1. CASE Remember(r)
  BY <1>1, IdempotencyConstants
  DEF Remember, OneHolder, Holds, EffectsMatchStages, StoredIsDone, ReplaysAreTrue
<1>2. CASE Release(r)
  BY <1>2 DEF Release, OneHolder, Holds, EffectsMatchStages, StoredIsDone,
              ReplaysAreTrue
<1>3. CASE StoreFails(r)
  BY <1>3 DEF StoreFails, OneHolder, Holds, EffectsMatchStages, StoredIsDone,
              ReplaysAreTrue
<1>4. QED
  BY <1>1, <1>2, <1>3 DEF Write

\* An answer is given when its request leaves the hook or the handler.
LEMMA SilentStep == TypeOK /\ SilentUntilTold /\ [Next]_idemVars => SilentUntilTold'
<1> SUFFICES ASSUME TypeOK, SilentUntilTold, [Next]_idemVars PROVE SilentUntilTold'
  OBVIOUS
<1> USE DEF TypeOK, SilentUntilTold, Go, Tell
<1>1. ASSUME NEW r \in Request, Reserve(r) \/ Hook(r) \/ HookFails(r)
      PROVE  SilentUntilTold'
  BY <1>1 DEF Reserve, Hook, SelectNothing, SelectConflict, SelectPending,
              SelectStored, HookFails
<1>2. ASSUME NEW r \in Request, Handle(r) PROVE SilentUntilTold'
  BY <1>2 DEF Handle, CommitEffect, Succeed, Refuse, FailPlainly
<1>3. ASSUME NEW r \in Request, Write(r) \/ StoreFails(r) PROVE SilentUntilTold'
  BY <1>3 DEF Write, Remember, Release, StoreFails
<1>4. CASE Crash
  BY <1>4 DEF Crash
<1>5. CASE UNCHANGED idemVars
  BY <1>5 DEF idemVars
<1> QED
  BY <1>1, <1>2, <1>3, <1>4, <1>5 DEF Next

\* IInv is inductive.
LEMMA NextIInv == IInv /\ [Next]_idemVars => IInv'
<1> SUFFICES ASSUME IInv, [Next]_idemVars PROVE IInv'
  OBVIOUS
<1>1. TypeOK' /\ SilentUntilTold'
  BY TypeStep, SilentStep DEF IInv
<1>2. ASSUME NEW r \in Request,
             \/ Reserve(r) \/ Hook(r) \/ HookFails(r) \/ Handle(r)
             \/ Write(r) \/ StoreFails(r)
      PROVE  IInv'
  BY <1>1, <1>2, HookStep, HandlerStep, WriteStep DEF IInv
<1>3. CASE Crash
  BY <1>1, <1>3 DEF Crash, IInv, TypeOK, OneHolder, Holds, EffectsMatchStages,
                    StoredIsDone, ReplaysAreTrue
<1>4. CASE UNCHANGED idemVars
  BY <1>1, <1>4 DEF idemVars, IInv, TypeOK, OneHolder, Holds, EffectsMatchStages,
              StoredIsDone, ReplaysAreTrue
<1>5. QED
  BY <1>2, <1>3, <1>4 DEF Next

\* IInv holds in every reachable state.
THEOREM Inductive == Spec => []IInv
BY InitIInv, NextIInv, PTL DEF Spec

\* The types of the cache's state.
THEOREM TypeCorrect == Spec => []TypeOK
<1>1. IInv => TypeOK
  BY DEF IInv
<1>2. QED
  BY Inductive, <1>1, PTL

\* The effect of a call happens once, however often it is retried, unless a
\* retry ran blind (idempotency_keys.ts:23-49).
THEOREM EffectHappensOnce == Spec => []AtMostOnce
<1>1. IInv => AtMostOnce
  BY DEF IInv, TypeOK, OneHolder, Holds, AtMostOnce
<1>2. QED
  BY Inductive, <1>1, PTL

\* A replayed reply tells of an effect that happened (idempotency.ts:100-116).
THEOREM ReplaysTellTheTruth == Spec => []ReplaysAreTrue
<1>1. IInv => ReplaysAreTrue
  BY DEF IInv
<1>2. QED
  BY Inductive, <1>1, PTL

\* No delayed write disturbs a stored reply (middleware.ts:292-310).
THEOREM StoredIsFinal == Spec => StoredRepliesStay
<1>1. ASSUME IInv, [Next]_idemVars
      PROVE  [row.stored # NoRequest /\ blind = {} => row' = row]_idemVars
  <2> SUFFICES ASSUME row.stored # NoRequest, blind = {}, Next PROVE row' = row
    BY <1>1
  <2>1. row # NoRow /\ \A r \in Request : stage[r] \notin {"storing", "releasing"}
    BY <1>1 DEF IInv, TypeOK, OneHolder, Holds, StoredIsDone, NoRow
  <2>2. QED
    BY <2>1 DEF Next, Reserve, Hook, SelectNothing, SelectConflict, SelectPending,
           SelectStored, HookFails, Handle, CommitEffect, Succeed, Refuse,
           FailPlainly, Write, Remember, Release, StoreFails, Crash
<1>2. QED
  BY Inductive, <1>1, PTL DEF Spec, StoredRepliesStay

-----------------------------------------------------------------------------
(* The refinement of OnceCall: one lemma per step of it.                   *)

Words == [r \in Request |-> IF answer[r] \in {"conflict", "in_flight", "refused"}
                              THEN "denied" ELSE answer[r]]

\* An answer changes the one word of its request.
LEMMA Telling ==
  ASSUME TypeOK, NEW r \in Request, NEW a \in Answers, Tell(r, a)
  PROVE  Words' = [Words EXCEPT ![r] =
                      IF a \in {"conflict", "in_flight", "refused"} THEN "denied" ELSE a]
BY DEF TypeOK, Tell, Words

\* A refusal, a conflict and an "in flight" are only given to requests without
\* an effect (idempotency.ts:89-110, middleware.ts:292-303).
LEMMA DenialsAreTrue ==
  ASSUME IInv, NEW r \in Request,
         SelectConflict(r) \/ SelectPending(r) \/ Refuse(r)
  PROVE  Promise!Deny(r)
<1>1. /\ stage[r] \in {"selecting", "running"}
      /\ \E a \in {"conflict", "in_flight", "refused"} : Tell(r, a)
      /\ UNCHANGED <<replayOf, effects, blind>>
  BY DEF SelectConflict, SelectPending, Refuse
<1>2. answer[r] = "none" /\ r \notin effects
  BY <1>1 DEF IInv, SilentUntilTold, EffectsMatchStages
<1>3. Words' = [Words EXCEPT ![r] = "denied"]
  BY <1>1, Telling DEF IInv, Answers
<1> QED BY <1>1, <1>2, <1>3 DEF Promise!Deny, Promise!Silent, Words

\* A stored reply is replayed to a request that has no effect of its own, for
\* an effect that happened (idempotency.ts:111-117).
LEMMA ReplayIsTrue ==
  ASSUME IInv, NEW r \in Request, SelectStored(r)
  PROVE  \E s \in Request : Promise!Replay(r, s)
<1> DEFINE s == row.stored
<1>1. /\ stage[r] = "selecting" /\ s # NoRequest /\ row.hash = BodyHash[r]
      /\ Tell(r, "replay")
      /\ replayOf' = [replayOf EXCEPT ![r] = s]
      /\ UNCHANGED <<effects, blind>>
  BY DEF SelectStored
<1>2. answer[r] = "none" /\ r \notin effects
  BY <1>1 DEF IInv, SilentUntilTold, EffectsMatchStages
<1>3. s \in effects /\ s \in Request
  BY <1>1 DEF IInv, TypeOK, StoredIsDone
<1>4. BodyHash[s] = BodyHash[r] \/ blind # {}
  BY <1>1, <1>3 DEF IInv, OneHolder, Holds
<1>5. Words' = [Words EXCEPT ![r] = "replay"]
  BY <1>1, Telling DEF IInv, Answers
<1>6. Promise!Replay(r, s)
  BY <1>1, <1>2, <1>3, <1>4, <1>5 DEF Promise!Replay, Promise!Silent, Words
<1> HIDE DEF s
<1> QED BY <1>3, <1>6 DEF Promise!Replay

\* The handler's effect is the call's only one, unless somebody runs blind; its
\* "ok" follows it, its errors promise nothing.
LEMMA HandlerMaps ==
  ASSUME IInv, NEW r \in Request,
         CommitEffect(r) \/ Succeed(r) \/ FailPlainly(r) \/ HookFails(r)
  PROVE  Promise!TakeEffect(r) \/ Promise!Confirm(r) \/ Promise!Shrug(r)
<1>0. TypeOK
  BY DEF IInv
<1>1. CASE CommitEffect(r)
  <2>1. /\ stage[r] = "running" /\ effects' = effects \cup {r}
        /\ UNCHANGED <<answer, replayOf, blind>>
    BY <1>1 DEF CommitEffect
  <2>2. answer[r] = "none" /\ r \notin effects
    BY <2>1 DEF IInv, SilentUntilTold, EffectsMatchStages
  <2>3. effects = {} \/ blind # {}
    BY <2>1, <2>2 DEF IInv, TypeOK, OneHolder, Holds
  <2> QED BY <2>1, <2>2, <2>3 DEF Promise!TakeEffect, Promise!Silent
<1>2. CASE Succeed(r)
  <2>1. stage[r] = "committed" /\ Tell(r, "ok") /\ UNCHANGED <<replayOf, effects, blind>>
    BY <1>2 DEF Succeed
  <2>2. answer[r] = "none" /\ r \in effects
    BY <2>1 DEF IInv, SilentUntilTold, EffectsMatchStages
  <2>3. Words' = [Words EXCEPT ![r] = "ok"]
    BY <1>0, <2>1, Telling DEF Answers
  <2> QED BY <2>1, <2>2, <2>3 DEF Promise!Confirm, Promise!Silent, Words
<1>3. CASE FailPlainly(r) \/ HookFails(r)
  <2>1. /\ stage[r] \in {"new", "selecting", "running", "committed"}
        /\ Tell(r, "error") /\ UNCHANGED <<replayOf, effects, blind>>
    BY <1>3 DEF FailPlainly, HookFails
  <2>2. answer[r] = "none"
    BY <2>1 DEF IInv, SilentUntilTold
  <2>3. Words' = [Words EXCEPT ![r] = "error"]
    BY <1>0, <2>1, Telling DEF Answers
  <2> QED BY <2>1, <2>2, <2>3 DEF Promise!Shrug, Promise!Silent, Words
<1> QED BY <1>1, <1>2, <1>3

\* Every step of the cache is a step of the promise or leaves it alone.
LEMMA StepKeepsPromise ==
  IInv /\ [Next]_idemVars => [Promise!OnceNext]_(Promise!onceVars)
<1> SUFFICES ASSUME IInv, [Next]_idemVars
             PROVE  [Promise!OnceNext]_(Promise!onceVars)
  OBVIOUS
<1>1. ASSUME UNCHANGED <<answer, replayOf, effects, blind>>
      PROVE  UNCHANGED Promise!onceVars
  BY <1>1 DEF Promise!onceVars
<1>2. ASSUME NEW r \in Request, Reserve(r) \/ Write(r) \/ StoreFails(r)
      PROVE  UNCHANGED Promise!onceVars
  BY <1>1, <1>2 DEF Reserve, Write, Remember, Release, StoreFails
<1>3. CASE Crash \/ UNCHANGED idemVars
  BY <1>1, <1>3 DEF Crash, idemVars
<1>4. ASSUME NEW r \in Request, SelectNothing(r) PROVE Promise!OnceNext
  BY <1>4 DEF SelectNothing, Promise!Break, Promise!OnceNext
<1>5. ASSUME NEW r \in Request, SelectConflict(r) \/ SelectPending(r) \/ Refuse(r)
      PROVE  Promise!OnceNext
  BY <1>5, DenialsAreTrue DEF Promise!OnceNext
<1>6. ASSUME NEW r \in Request, SelectStored(r) PROVE Promise!OnceNext
  <2>1. \E s \in Request : Promise!Replay(r, s)
    BY <1>6, ReplayIsTrue
  <2> QED BY <2>1 DEF Promise!OnceNext
<1>7. ASSUME NEW r \in Request,
             CommitEffect(r) \/ Succeed(r) \/ FailPlainly(r) \/ HookFails(r)
      PROVE  Promise!OnceNext
  BY <1>7, HandlerMaps DEF Promise!OnceNext
<1> QED
  BY <1>2, <1>3, <1>4, <1>5, <1>6, <1>7 DEF Next, Hook, Handle

\* The replay cache implements OnceCall: one effect at most and true answers,
\* for any number of retries, bodies and crashes (idempotency.ts:87-118).
THEOREM CacheKeepsPromise == Spec => CallTakesEffectOnce
<1>1. Init => Promise!OnceInit
  BY DEF Init, Promise!OnceInit
<1> QED BY <1>1, StepKeepsPromise, Inductive, PTL DEF Spec, CallTakesEffectOnce, Promise!OnceSpec

=============================================================================
