---------------------------- MODULE Idempotency -----------------------------
(***************************************************************************)
(* The replay cache of the MCP routes (routes/internal-mcp/idempotency.ts, *)
(* repos/idempotency_keys.ts and the hooks in middleware.ts) for one key,  *)
(* that is one (company, beat, Idempotency-Key): keys share no state.      *)
(* Requests with the key are the call and its retries; the key leaves part *)
(* of the body out (a completion's summary), so bodies may differ.         *)
(*                                                                         *)
(* One SQL statement is one action.  The write that remembers or releases  *)
(* the key is not awaited: it runs some time after the reply was sent.     *)
(***************************************************************************)
EXTENDS Naturals

CONSTANTS
    Request,        \* deliveries of the call: the first one and its retries
    NoRequest,
    Hash,           \* hashes of request bodies
    BodyHash,       \* BodyHash[r]: hashBody of request r
    Faults,         \* may a Postgres call of the cache fail?
    MaxCrashes      \* bound: how often the process may crash

ASSUME IdempotencyConstants ==
    /\ BodyHash \in [Request -> Hash]
    /\ "none" \notin Hash
    /\ NoRequest \notin Request
    /\ Faults \in BOOLEAN
    /\ MaxCrashes \in Nat

VARIABLES
    row,        \* the key's row: stored is the request whose 2xx reply it
                \* keeps, NoRequest for the placeholder {pending: true}
    stage,      \* where the request is
    answer,     \* what its caller was told
    replayOf,   \* the request whose stored reply it was given
    effects,    \* requests whose handler has committed its effect
    blind,      \* ghost: requests that run without having reserved the key
    crashes

idemVars == <<row, stage, answer, replayOf, effects, blind, crashes>>

NoRow == [hash |-> "none", stored |-> NoRequest]

Stages == {"new", "selecting", "running", "committed", "storing", "releasing",
           "over"}

Answers == {"none", "ok", "replay", "conflict", "in_flight", "refused", "error"}

\* The request goes on to stage s, and its caller may be told something.
Go(r, s) == stage' = [stage EXCEPT ![r] = s]

Tell(r, a) == answer' = [answer EXCEPT ![r] = a]

-----------------------------------------------------------------------------
Init ==
    /\ row = NoRow
    /\ stage = [r \in Request |-> "new"]
    /\ answer = [r \in Request |-> "none"]
    /\ replayOf = [r \in Request |-> NoRequest]
    /\ effects = {}
    /\ blind = {}
    /\ crashes = 0

-----------------------------------------------------------------------------
(* mcpIdempotencyReplay, the hook before the handler.                      *)

\* Faulty: ON CONFLICT DO UPDATE, so that every insert returns a row.
ReserveOverwrites(r) ==
    /\ stage[r] = "new"
    /\ row' = [hash |-> BodyHash[r], stored |-> NoRequest]
    /\ Go(r, "running")
    /\ UNCHANGED <<answer, replayOf, effects, blind, crashes>>

\* INSERT ... ON CONFLICT DO NOTHING: the request reserves a free key.
Reserve(r) ==
    /\ stage[r] = "new"
    /\ IF row = NoRow
         THEN row' = [hash |-> BodyHash[r], stored |-> NoRequest] /\ Go(r, "running")
         ELSE Go(r, "selecting") /\ UNCHANGED row
    /\ UNCHANGED <<answer, replayOf, effects, blind, crashes>>

\* The SELECT after a conflict finds no row any more, which reads like a
\* reservation: the handler runs.
SelectNothing(r) ==
    /\ stage[r] = "selecting"
    /\ row = NoRow
    /\ Go(r, "running")
    /\ blind' = blind \cup {r}
    /\ UNCHANGED <<row, answer, replayOf, effects, crashes>>

SelectConflict(r) ==
    /\ stage[r] = "selecting"
    /\ row # NoRow
    /\ row.hash # BodyHash[r]
    /\ Go(r, "over")
    /\ Tell(r, "conflict")
    /\ UNCHANGED <<row, replayOf, effects, blind, crashes>>

\* Faulty: the hook's 409 is sent through cacheAndSend.
SelectPendingReleases(r) ==
    /\ stage[r] = "selecting"
    /\ row # NoRow
    /\ row.hash = BodyHash[r] /\ row.stored = NoRequest
    /\ Go(r, "releasing")
    /\ Tell(r, "in_flight")
    /\ UNCHANGED <<row, replayOf, effects, blind, crashes>>

SelectPending(r) ==
    /\ stage[r] = "selecting"
    /\ row # NoRow
    /\ row.hash = BodyHash[r] /\ row.stored = NoRequest
    /\ Go(r, "over")
    /\ Tell(r, "in_flight")
    /\ UNCHANGED <<row, replayOf, effects, blind, crashes>>

\* Faulty: the stored reply is sent whatever the body was.
SelectStoredAnyBody(r) ==
    /\ stage[r] = "selecting"
    /\ row.stored # NoRequest
    /\ Go(r, "over")
    /\ Tell(r, "replay")
    /\ replayOf' = [replayOf EXCEPT ![r] = row.stored]
    /\ UNCHANGED <<row, effects, blind, crashes>>

SelectStored(r) ==
    /\ stage[r] = "selecting"
    /\ row.stored # NoRequest
    /\ row.hash = BodyHash[r]
    /\ Go(r, "over")
    /\ Tell(r, "replay")
    /\ replayOf' = [replayOf EXCEPT ![r] = row.stored]
    /\ UNCHANGED <<row, effects, blind, crashes>>

\* The statement throws; Fastify answers 500 and the handler never runs.
HookFails(r) ==
    /\ Faults
    /\ stage[r] \in {"new", "selecting"}
    /\ Go(r, "over")
    /\ Tell(r, "error")
    /\ UNCHANGED <<row, replayOf, effects, blind, crashes>>

-----------------------------------------------------------------------------
(* The handler, and cacheSuccessfulResponse behind its reply.              *)

CommitEffect(r) ==
    /\ stage[r] = "running"
    /\ effects' = effects \cup {r}
    /\ Go(r, "committed")
    /\ UNCHANGED <<row, answer, replayOf, blind, crashes>>

\* cacheAndSend with a 2xx.
Succeed(r) ==
    /\ stage[r] = "committed"
    /\ Go(r, "storing")
    /\ Tell(r, "ok")
    /\ UNCHANGED <<row, replayOf, effects, blind, crashes>>

\* Faulty: a check that follows the effect answers with a 4xx.
RefuseLate(r) ==
    /\ stage[r] \in {"running", "committed"}
    /\ Go(r, "releasing")
    /\ Tell(r, "refused")
    /\ UNCHANGED <<row, replayOf, effects, blind, crashes>>

\* cacheAndSend with a 4xx, before the handler changed anything.
Refuse(r) ==
    /\ stage[r] = "running"
    /\ Go(r, "releasing")
    /\ Tell(r, "refused")
    /\ UNCHANGED <<row, replayOf, effects, blind, crashes>>

\* reply.send with an error, or an exception: the cache is not told.
FailPlainly(r) ==
    /\ stage[r] \in {"running", "committed"}
    /\ Go(r, "over")
    /\ Tell(r, "error")
    /\ UNCHANGED <<row, replayOf, effects, blind, crashes>>

\* Faulty: an upsert, which makes a row without a body's hash.
RememberUpserts(r) ==
    /\ stage[r] = "storing"
    /\ row' = [row EXCEPT !.stored = r]
    /\ Go(r, "over")
    /\ UNCHANGED <<answer, replayOf, effects, blind, crashes>>

\* finalizeStored updates whatever row the key has by now.
Remember(r) ==
    /\ stage[r] = "storing"
    /\ row' = IF row = NoRow THEN NoRow ELSE [row EXCEPT !.stored = r]
    /\ Go(r, "over")
    /\ UNCHANGED <<answer, replayOf, effects, blind, crashes>>

\* releaseStored deletes whatever row the key has by now.
Release(r) ==
    /\ stage[r] = "releasing"
    /\ row' = NoRow
    /\ Go(r, "over")
    /\ UNCHANGED <<answer, replayOf, effects, blind, crashes>>

\* Either write may fail; the error is audited and swallowed.
StoreFails(r) ==
    /\ Faults
    /\ stage[r] \in {"storing", "releasing"}
    /\ Go(r, "over")
    /\ UNCHANGED <<row, answer, replayOf, effects, blind, crashes>>

\* The process dies: requests under way and unwritten replies are gone.
Crash ==
    /\ crashes < MaxCrashes
    /\ crashes' = crashes + 1
    /\ stage' = [r \in Request |-> IF stage[r] = "new" THEN "new" ELSE "over"]
    /\ UNCHANGED <<row, answer, replayOf, effects, blind>>

-----------------------------------------------------------------------------
Hook(r) ==
    \/ SelectNothing(r)
    \/ SelectConflict(r)
    \/ SelectPending(r)
    \/ SelectStored(r)

Handle(r) ==
    \/ CommitEffect(r)
    \/ Succeed(r)
    \/ Refuse(r)
    \/ FailPlainly(r)

Write(r) == Remember(r) \/ Release(r)

Next ==
    \/ \E r \in Request : \/ Reserve(r)
                          \/ Hook(r)
                          \/ HookFails(r)
                          \/ Handle(r)
                          \/ Write(r)
                          \/ StoreFails(r)
    \/ Crash

Spec == Init /\ [][Next]_idemVars

\* Queries return and handlers reply; no request has to be sent.
FairSpec ==
    Spec /\ \A r \in Request : WF_idemVars(Hook(r) \/ Handle(r) \/ Write(r))

-----------------------------------------------------------------------------
(* Properties.                                                             *)

TypeOK ==
    /\ row \in [hash : Hash, stored : Request \cup {NoRequest}] \cup {NoRow}
    /\ stage \in [Request -> Stages]
    /\ answer \in [Request -> Answers]
    /\ replayOf \in [Request -> Request \cup {NoRequest}]
    /\ effects \subseteq Request
    /\ blind \subseteq Request
    /\ crashes \in Nat

\* However often a call is retried, and whatever crashes, its effect happens
\* once: unless a retry slipped between another's release and its own look at
\* the row (idempotency_keys.ts:23-49).
AtMostOnce == blind = {} => \A r, s \in effects : r = s

\* A caller is told "this was done" only of something that was done, by a
\* request with its own body (idempotency.ts:100-116).
ReplaysAreTrue ==
    \A r \in Request : replayOf[r] # NoRequest =>
        /\ replayOf[r] \in effects
        /\ blind = {} => BodyHash[replayOf[r]] = BodyHash[r]

\* A stored reply is final: no write that was under way takes it away or puts
\* another in its place (middleware.ts:292-310).
StoredRepliesStay ==
    [][row.stored # NoRequest /\ blind = {} => row' = row]_idemVars

\* The inductive invariant behind these: as long as nobody runs blind, at most
\* one request holds or has used the key, and the row is there, with its hash.
Holds(r) ==
    stage[r] \in {"running", "committed", "storing", "releasing"} \/ r \in effects

OneHolder ==
    blind = {} => /\ \A r, s \in Request : Holds(r) /\ Holds(s) => r = s
                  /\ \A r \in Request : Holds(r) => row # NoRow /\ row.hash = BodyHash[r]

EffectsMatchStages ==
    \A r \in Request :
        /\ stage[r] \in {"new", "selecting", "running", "releasing"} => r \notin effects
        /\ stage[r] \in {"committed", "storing"} => r \in effects

\* A request whose reply is stored is through, until somebody runs blind.
StoredIsDone ==
    row.stored # NoRequest =>
        row.stored \in effects /\ (blind = {} => stage[row.stored] = "over")

\* Nobody is told anything before its handler or the hook is through.
SilentUntilTold ==
    \A r \in Request :
        stage[r] \in {"new", "selecting", "running", "committed"} => answer[r] = "none"

IInv ==
    /\ TypeOK
    /\ OneHolder
    /\ EffectsMatchStages
    /\ StoredIsDone
    /\ ReplaysAreTrue
    /\ SilentUntilTold

\* The cache keeps the promise of OnceCall: to a caller, three answers mean that
\* its own request took no effect.
Promise == INSTANCE OnceCall WITH
    done   <- effects,
    word   <- [r \in Request |-> IF answer[r] \in {"conflict", "in_flight", "refused"}
                                   THEN "denied" ELSE answer[r]],
    of     <- replayOf,
    broken <- blind # {}

\* A reply, a replay and a refusal are true when they are sent, and no request
\* that was answered takes effect later, under retries with any body, lost
\* writes and crashes (idempotency.ts:87-118, middleware.ts:247-311).
CallTakesEffectOnce == Promise!OnceSpec

=============================================================================
