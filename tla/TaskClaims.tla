----------------------------- MODULE TaskClaims -----------------------------
(***************************************************************************)
(* How beats own tasks.  A beat (one wake of an agent, run-beat.ts) claims *)
(* a task with a compare-and-swap on the row's checkout_run_id, works on   *)
(* it through MCP route handlers, and gives it up by completing it, by     *)
(* blocking it, by failing (run-beat's cleanup releases its claims) or by  *)
(* dying (the stranded-run sweeper releases them).                         *)
(*                                                                         *)
(* One SQL statement, or one row-locked transaction, is one action.  Every *)
(* await between two statements of a handler is a point where any other    *)
(* beat, the sweeper or a crash may step in.  A tool call that was running *)
(* when its beat ended keeps running: nothing cancels the handler.         *)
(***************************************************************************)
EXTENDS FiniteSets, Naturals

CONSTANTS
    Task,           \* tasks of one sprint (never of kind follow_up)
    Beat,           \* beat ids; an id is used once
    Role,           \* agent roles
    AssignedRole,   \* AssignedRole[t]: the role task t is assigned to
    RoleOf,         \* RoleOf[b]: the role beat b runs as
    Deps,           \* Deps[t]: dependsOnTaskIds of t
    NoBeat,         \* SQL NULL in checkout_run_id
    NoTask,         \* a beat with no call in flight has no target
    Faults,         \* may statements fail, with the error swallowed or answered?
    MaxCrashes      \* bound: how often the process may crash

ASSUME ConstantsOK ==
    /\ AssignedRole \in [Task -> Role]
    /\ RoleOf \in [Beat -> Role]
    /\ Deps \in [Task -> SUBSET Task]
    /\ NoBeat \notin Beat
    /\ NoTask \notin Task
    /\ Faults \in BOOLEAN
    /\ MaxCrashes \in Nat

VARIABLES
    status,     \* tasks.status
    checkout,   \* tasks.checkout_run_id: the claiming beat or NoBeat
    drafts,     \* dependencies with at least one attached artifact; nobody
                \* asks for the artifacts of other tasks
    run,        \* heartbeat_runs.status of the beat's row, "none" without a row
    beat,       \* where runBeat is in its own code
    verdict,    \* scoreBeatVerdict's answer for a beat that has ended
    heard,      \* the ok tool results of the beat in the event ring buffer
    mine,       \* tasks the agent was told it claimed and has not closed since
    call,       \* the route handler running for the beat
    toRestate,  \* released ids runBeat still has to write "planned" to
    sweep,      \* the sweep in progress: rows left, and the row between its
                \* markStranded and its release
    crashes,    \* crashes so far
    raced       \* ghost: tasks written by a handler after what it had checked
                \* stopped being true, or left half written

vars == <<status, checkout, drafts, run, beat, verdict, heard, mine, call,
          toRestate, sweep, crashes, raced>>

Statuses == {"created", "planned", "in_progress", "blocked", "completed"}

Phases == {"new", "working", "releasing", "restating", "closing", "done", "dead"}

Stages == {"idle", "claim", "mirror", "gate", "dependents", "promote",
           "block", "clear"}

Idle == [at |-> "idle", task |-> NoTask, rest |-> {}]

NoSweep == [rows |-> {}, marked |-> NoBeat]

-----------------------------------------------------------------------------
(* What the handlers read.                                                 *)

\* The CAS of claimTask accepts these statuses; "ready" is never written.
Claimable == {"created", "planned", "blocked", "in_progress"}

Dependencies == UNION {Deps[t] : t \in Task}

\* A dependency lets its dependents be claimed when it is completed, or has
\* a draft to read.
SoftMet(d) == status[d] = "completed" \/ d \in drafts

DepsSoftMet(t) == \A d \in Deps[t] : SoftMet(d)

\* Faulty: the WHERE clause forgets the owner.
AllInProgress(b) == {t \in Task : checkout[t] # NoBeat /\ status[t] = "in_progress"}

\* releaseClaimsForRunDbId's WHERE clause.
HeldInProgress(b) == {t \in Task : checkout[t] = b /\ status[t] = "in_progress"}

\* The session context is registered, so the MCP middleware lets calls in.
Open(b) == beat[b] \in {"working", "releasing", "restating"}

CanCall(b) == Open(b) /\ call[b].at = "idle"

\* rejectIfNotOwner lets the call pass.
Owns(b, t) == checkout[t] = b

\* Dependents setTaskStatus promotes: created, with dependencies, all done.
Promotable == {t \in Task : /\ status[t] = "created"
                            /\ Deps[t] # {}
                            /\ \A d \in Deps[t] : status[d] = "completed"}

\* Those whose promotion the completion call of b still has before it.
Unpromoted(b) ==
    {t \in Promotable : \/ call[b].at = "dependents" /\ call[b].task \in Deps[t]
                        \/ call[b].at = "promote" /\ t \in call[b].rest}

Running == {b \in Beat : run[b] = "running"}

Note(set, cond) == IF cond THEN set ELSE {}

\* Faulty: the legacy status "ready", which no contract knows.
ReleaseTasksToReady(S) ==
    /\ checkout' = [t \in Task |-> IF t \in S THEN NoBeat ELSE checkout[t]]
    /\ status' = [t \in Task |-> IF t \in S THEN "ready" ELSE status[t]]

\* Faulty: the claim columns are left as they were.
ReleaseTasksKeepClaim(S) ==
    /\ status' = [t \in Task |-> IF t \in S THEN "planned" ELSE status[t]]
    /\ UNCHANGED checkout

\* Clear the claim of every task in S and put it back to planned.
ReleaseTasks(S) ==
    /\ checkout' = [t \in Task |-> IF t \in S THEN NoBeat ELSE checkout[t]]
    /\ status' = [t \in Task |-> IF t \in S THEN "planned" ELSE status[t]]

\* The 200 reply: an ok tool result for the verdict, and news for the agent.
\* Nobody reads either once the beat has ended.
Hear(b, result, belief) ==
    IF beat[b] = "working"
      THEN /\ heard' = [heard EXCEPT ![b] = @ \cup {result}]
           /\ mine' = [mine EXCEPT ![b] = belief]
      ELSE UNCHANGED <<heard, mine>>

\* The reply to a completion comes after two more reads, of the snapshot and
\* of the unblocked tasks; when one of them throws it is a 500.
HearClosed(b) ==
    \/ Hear(b, "closed", mine[b] \ {call[b].task})
    \/ Faults /\ UNCHANGED <<heard, mine>>

Forget(b) ==
    /\ heard' = [heard EXCEPT ![b] = {}]
    /\ mine' = [mine EXCEPT ![b] = {}]

-----------------------------------------------------------------------------
Init ==
    /\ status = [t \in Task |-> IF Deps[t] = {} THEN "planned" ELSE "created"]
    /\ checkout = [t \in Task |-> NoBeat]
    /\ drafts = {}
    /\ run = [b \in Beat |-> "none"]
    /\ beat = [b \in Beat |-> "new"]
    /\ verdict = [b \in Beat |-> "none"]
    /\ heard = [b \in Beat |-> {}]
    /\ mine = [b \in Beat |-> {}]
    /\ call = [b \in Beat |-> Idle]
    /\ toRestate = [b \in Beat |-> {}]
    /\ sweep = NoSweep
    /\ crashes = 0
    /\ raced = {}

-----------------------------------------------------------------------------
(* The beat: runBeat up to the prompt, and its finally block.              *)

\* registerSessionContext, then startHeartbeatRun.  Without the insert
\* (no agent row, or a Postgres error it swallows) the beat runs on.
BeginBeat(b) ==
    /\ beat[b] = "new"
    /\ beat' = [beat EXCEPT ![b] = "working"]
    /\ \/ run' = [run EXCEPT ![b] = "running"]
       \/ Faults /\ UNCHANGED run
    /\ UNCHANGED <<status, checkout, drafts, verdict, heard, mine, call,
                   toRestate, sweep, crashes, raced>>

\* The prompt resolved, was rejected, or hit the hard cap; scoreBeatVerdict.
\* A beat that claimed and closed nothing never passes.  Only a failed or
\* capped prompt ends while a tool call of its session is still running.
EndBeat(b) ==
    /\ beat[b] = "working"
    /\ \/ /\ verdict' = [verdict EXCEPT ![b] = "fail"]
          /\ beat' = [beat EXCEPT ![b] = "releasing"]
       \/ /\ call[b].at = "idle"
          /\ "claimed" \in heard[b] => "closed" \in heard[b]
          /\ verdict' = [verdict EXCEPT ![b] = "pass"]
          /\ beat' = [beat EXCEPT ![b] = "closing"]
    /\ Forget(b)
    /\ UNCHANGED <<status, checkout, drafts, run, call, toRestate, sweep, crashes,
                   raced>>

\* releaseClaimsForBeat of a failed beat.
ReleaseClaims(b) ==
    /\ beat[b] = "releasing"
    /\ ReleaseTasks(HeldInProgress(b))
    /\ toRestate' = [toRestate EXCEPT ![b] = HeldInProgress(b)]
    /\ beat' = [beat EXCEPT ![b] = IF HeldInProgress(b) = {} THEN "closing"
                                                             ELSE "restating"]
    /\ UNCHANGED <<drafts, run, verdict, heard, mine, call, sweep, crashes,
                   raced>>

\* The release threw: logged, and the cleanup goes on with nothing released.
ReleaseClaimsFails(b) ==
    /\ Faults
    /\ beat[b] = "releasing"
    /\ beat' = [beat EXCEPT ![b] = "closing"]
    /\ raced' = raced \cup HeldInProgress(b)
    /\ UNCHANGED <<status, checkout, drafts, run, verdict, heard, mine, call,
                   toRestate, sweep, crashes>>

\* setTaskStatus(tid, "planned") for one released id: a second write, with no
\* condition on the row, whose error is swallowed.  After the last one the
\* session is unregistered.
Restate(b, t) ==
    /\ beat[b] = "restating"
    /\ t \in toRestate[b]
    /\ toRestate' = [toRestate EXCEPT ![b] = @ \ {t}]
    /\ beat' = [beat EXCEPT ![b] = IF toRestate[b] = {t} THEN "closing" ELSE @]
    /\ \/ /\ status' = [status EXCEPT ![t] = "planned"]
          /\ raced' = raced \cup
                      Note({t}, status[t] # "planned" \/ checkout[t] # NoBeat)
       \/ Faults /\ UNCHANGED <<status, raced>>
    /\ UNCHANGED <<checkout, drafts, run, verdict, heard, mine, call, sweep,
                   crashes>>

\* finishHeartbeatRun: completed or failed, whatever the row said before; a
\* Postgres error is swallowed.
FinishRun(b) ==
    /\ beat[b] = "closing"
    /\ beat' = [beat EXCEPT ![b] = "done"]
    /\ \/ run' = [run EXCEPT ![b] =
                    CASE run[b] = "none" -> "none"
                      [] run[b] # "none" /\ verdict[b] = "pass" -> "completed"
                      [] OTHER -> "failed"]
       \/ Faults /\ UNCHANGED run
    /\ UNCHANGED <<status, checkout, drafts, verdict, heard, mine, call,
                   toRestate, sweep, crashes, raced>>

-----------------------------------------------------------------------------
(* POST /tasks/:id/claim.                                                  *)

\* The role gate and the dependency check; the CAS comes after an await.
RequestClaim(b, t) ==
    /\ CanCall(b)
    /\ RoleOf[b] = AssignedRole[t]
    /\ DepsSoftMet(t)
    /\ call' = [call EXCEPT ![b] = [at |-> "claim", task |-> t, rest |-> {}]]
    /\ UNCHANGED <<status, checkout, drafts, run, beat, verdict, heard, mine,
                   toRestate, sweep, crashes, raced>>

\* Faulty: the CAS forgets that checkout_run_id must be NULL.
ClaimWinsAnyway(b) ==
    LET t == call[b].task IN
    /\ call[b].at = "claim"
    /\ run[b] # "none"
    /\ status[t] \in Claimable
    /\ status' = [status EXCEPT ![t] = "in_progress"]
    /\ checkout' = [checkout EXCEPT ![t] = b]
    /\ call' = [call EXCEPT ![b].at = "mirror"]
    /\ raced' = raced \cup Note({t}, beat[b] # "working")
    /\ UNCHANGED <<drafts, run, beat, verdict, heard, mine, toRestate, sweep,
                   crashes>>

\* claimTask's UPDATE matches the row.  checkout_run_id references
\* heartbeat_runs, so a beat without a row cannot write it.
ClaimWins(b) ==
    LET t == call[b].task IN
    /\ call[b].at = "claim"
    /\ run[b] # "none"
    /\ status[t] \in Claimable
    /\ checkout[t] = NoBeat
    /\ status' = [status EXCEPT ![t] = "in_progress"]
    /\ checkout' = [checkout EXCEPT ![t] = b]
    /\ call' = [call EXCEPT ![b].at = "mirror"]
    /\ raced' = raced \cup Note({t}, beat[b] # "working")
    /\ UNCHANGED <<drafts, run, beat, verdict, heard, mine, toRestate, sweep,
                   crashes>>

\* Faulty: the loser of the race is told that it won.
ClaimLosesUnnoticed(b) ==
    LET t == call[b].task IN
    /\ call[b].at = "claim"
    /\ checkout[t] # NoBeat
    /\ call' = [call EXCEPT ![b] = Idle]
    /\ Hear(b, "claimed", mine[b] \cup {t})
    /\ UNCHANGED <<status, checkout, drafts, run, beat, verdict, toRestate,
                   sweep, crashes, raced>>

\* already_claimed, not_claimable, or the foreign key fails.
ClaimLoses(b) ==
    LET t == call[b].task IN
    /\ call[b].at = "claim"
    /\ \/ run[b] = "none"
       \/ status[t] \notin Claimable
       \/ checkout[t] # NoBeat
    /\ call' = [call EXCEPT ![b] = Idle]
    /\ UNCHANGED <<status, checkout, drafts, run, beat, verdict, heard, mine,
                   toRestate, sweep, crashes, raced>>

\* setTaskStatus(taskId, "in_progress") after the CAS, then the 200 reply.
MirrorClaim(b) ==
    LET t == call[b].task IN
    /\ call[b].at = "mirror"
    /\ status' = [status EXCEPT ![t] = "in_progress"]
    /\ call' = [call EXCEPT ![b] = Idle]
    /\ Hear(b, "claimed", mine[b] \cup {t})
    /\ raced' = raced \cup
                Note({t}, checkout[t] # b \/ status[t] # "in_progress")
    /\ UNCHANGED <<checkout, drafts, run, beat, verdict, toRestate, sweep,
                   crashes>>

-----------------------------------------------------------------------------
(* artifact_create on a task, and POST /tasks/:id/completion.              *)

AttachArtifact(b, t) ==
    /\ CanCall(b)
    /\ t \in Dependencies \ drafts
    /\ drafts' = drafts \cup {t}
    /\ UNCHANGED <<status, checkout, run, beat, verdict, heard, mine, call,
                   toRestate, sweep, crashes, raced>>

\* The owner check, before the completion gate (typecheck, preview probe).
RequestComplete(b, t) ==
    /\ CanCall(b)
    /\ Owns(b, t)
    /\ call' = [call EXCEPT ![b] = [at |-> "gate", task |-> t, rest |-> {}]]
    /\ UNCHANGED <<status, checkout, drafts, run, beat, verdict, heard, mine,
                   toRestate, sweep, crashes, raced>>

GateRejects(b) ==
    /\ call[b].at = "gate"
    /\ call' = [call EXCEPT ![b] = Idle]
    /\ UNCHANGED <<status, checkout, drafts, run, beat, verdict, heard, mine,
                   toRestate, sweep, crashes, raced>>

\* Faulty: the completion does not look for dependents.
CompleteAlone(b) ==
    LET t == call[b].task IN
    /\ call[b].at = "gate"
    /\ status' = [status EXCEPT ![t] = "completed"]
    /\ drafts' = drafts \cup ({t} \cap Dependencies)
    /\ call' = [call EXCEPT ![b] = Idle]
    /\ raced' = raced \cup Note({t}, checkout[t] # b)
    /\ UNCHANGED <<checkout, run, beat, verdict, heard, mine, toRestate,
                   sweep, crashes>>

\* The gate passed: the evidence is attached and the status written, without
\* a second look at the owner.  The claim columns stay as they are.
Complete(b) ==
    LET t == call[b].task IN
    /\ call[b].at = "gate"
    /\ status' = [status EXCEPT ![t] = "completed"]
    /\ drafts' = drafts \cup ({t} \cap Dependencies)
    /\ call' = [call EXCEPT ![b].at = "dependents"]
    /\ raced' = raced \cup Note({t}, checkout[t] # b)
    /\ UNCHANGED <<checkout, run, beat, verdict, heard, mine, toRestate,
                   sweep, crashes>>

\* buildSnapshotView: which dependents are ready, as of this read.
ReadDependents(b) ==
    /\ call[b].at = "dependents"
    /\ IF Promotable = {}
         THEN /\ call' = [call EXCEPT ![b] = Idle]
              /\ HearClosed(b)
         ELSE /\ call' = [call EXCEPT ![b].at = "promote", ![b].rest = Promotable]
              /\ UNCHANGED <<heard, mine>>
    /\ UNCHANGED <<status, checkout, drafts, run, beat, verdict, toRestate,
                   sweep, crashes, raced>>

\* One dependent of the snapshot is written "planned", whatever it is now.
Promote(b, d) ==
    /\ call[b].at = "promote"
    /\ d \in call[b].rest
    /\ status' = [status EXCEPT ![d] = "planned"]
    /\ IF call[b].rest = {d}
         THEN /\ call' = [call EXCEPT ![b] = Idle]
              /\ HearClosed(b)
         ELSE /\ call' = [call EXCEPT ![b].rest = @ \ {d}]
              /\ UNCHANGED <<heard, mine>>
    /\ raced' = raced \cup Note({d}, status[d] # "created")
    /\ UNCHANGED <<checkout, drafts, run, beat, verdict, toRestate, sweep,
                   crashes>>

-----------------------------------------------------------------------------
(* POST /tasks/:id/block.                                                  *)

RequestBlock(b, t) ==
    /\ CanCall(b)
    /\ Owns(b, t)
    /\ call' = [call EXCEPT ![b] = [at |-> "block", task |-> t, rest |-> {}]]
    /\ UNCHANGED <<status, checkout, drafts, run, beat, verdict, heard, mine,
                   toRestate, sweep, crashes, raced>>

\* Faulty: task_block as it was before clearClaimKeepStatus.
BlockKeepClaim(b) ==
    LET t == call[b].task IN
    /\ call[b].at = "block"
    /\ status' = [status EXCEPT ![t] = "blocked"]
    /\ call' = [call EXCEPT ![b] = Idle]
    /\ raced' = raced \cup Note({t}, checkout[t] # b)
    /\ UNCHANGED <<checkout, drafts, run, beat, verdict, heard, mine, toRestate,
                   sweep, crashes>>

Block(b) ==
    LET t == call[b].task IN
    /\ call[b].at = "block"
    /\ status' = [status EXCEPT ![t] = "blocked"]
    /\ call' = [call EXCEPT ![b].at = "clear"]
    /\ raced' = raced \cup Note({t}, checkout[t] # b)
    /\ UNCHANGED <<checkout, drafts, run, beat, verdict, heard, mine, toRestate,
                   sweep, crashes>>

\* clearClaimKeepStatus: whoever holds the claim by now.
ClearClaim(b) ==
    LET t == call[b].task IN
    /\ call[b].at = "clear"
    /\ checkout' = [checkout EXCEPT ![t] = NoBeat]
    /\ call' = [call EXCEPT ![b] = Idle]
    /\ Hear(b, "closed", mine[b] \ {t})
    /\ raced' = raced \cup Note({t}, checkout[t] # b)
    /\ UNCHANGED <<status, drafts, run, beat, verdict, toRestate, sweep,
                   crashes>>

\* Its error is swallowed: the block succeeded, the claim stays.
ClearClaimFails(b) ==
    LET t == call[b].task IN
    /\ Faults
    /\ call[b].at = "clear"
    /\ call' = [call EXCEPT ![b] = Idle]
    /\ Hear(b, "closed", mine[b] \ {t})
    /\ raced' = raced \cup {t}
    /\ UNCHANGED <<status, checkout, drafts, run, beat, verdict, toRestate,
                   sweep, crashes>>

-----------------------------------------------------------------------------
\* The next statement of the call throws and the route answers 500: what was
\* committed stays, the agent is told nothing and nobody does the rest.  Of a
\* completion that is the promotion of the dependents still before it, unless
\* another completion is on its way to them.
HandlerFails(b) ==
    /\ Faults
    /\ call[b].at \notin {"idle", "clear"}
    /\ call' = [call EXCEPT ![b] = Idle]
    /\ raced' = raced \cup
                (Unpromoted(b) \ UNION {Unpromoted(c) : c \in Beat \ {b}})
    /\ UNCHANGED <<status, checkout, drafts, run, beat, verdict, heard, mine,
                   toRestate, sweep, crashes>>

-----------------------------------------------------------------------------
(* The stranded-run sweeper.                                               *)

\* Faulty: the sweep threshold is below the hard cap of a beat.
OverdueTooSoon == {b \in Running : beat[b] # "new"}

\* Rows the periodic sweep's 30 minute threshold can have passed.  The 15
\* minute hard cap ends the prompt of a live beat first; its cleanup has none.
Overdue == {b \in Running : beat[b] \notin {"new", "working"}}

\* The periodic sweep's findStrandedRuns returns the rows that are old by now.
FindStranded(rows) ==
    /\ sweep = NoSweep
    /\ rows # {} /\ rows \subseteq Overdue
    /\ sweep' = [rows |-> rows, marked |-> NoBeat]
    /\ UNCHANGED <<status, checkout, drafts, run, beat, verdict, heard, mine, call,
                   toRestate, crashes, raced>>

\* Faulty: the row is closed and its claims are forgotten.
MarkStrandedOnly(b) ==
    /\ b \in sweep.rows
    /\ sweep.marked = NoBeat
    /\ run' = [run EXCEPT ![b] = "stranded"]
    /\ sweep' = [sweep EXCEPT !.rows = @ \ {b}]
    /\ UNCHANGED <<status, checkout, drafts, beat, verdict, heard, mine, call,
                   toRestate, crashes, raced>>

\* markStranded: by id, whatever the row says by now.
MarkStranded(b) ==
    /\ b \in sweep.rows
    /\ sweep.marked = NoBeat
    /\ run' = [run EXCEPT ![b] = "stranded"]
    /\ sweep' = [rows |-> sweep.rows \ {b}, marked |-> b]
    /\ UNCHANGED <<status, checkout, drafts, beat, verdict, heard, mine, call,
                   toRestate, crashes, raced>>

\* Faulty: the claims are looked up by the friendly beat id and none matches.
ReleaseStrandedNothing ==
    /\ sweep.marked # NoBeat
    /\ sweep' = [sweep EXCEPT !.marked = NoBeat]
    /\ UNCHANGED <<status, checkout, drafts, run, beat, verdict, heard, mine,
                   call, toRestate, crashes, raced>>

ReleaseStranded ==
    /\ sweep.marked # NoBeat
    /\ ReleaseTasks(HeldInProgress(sweep.marked))
    /\ sweep' = [sweep EXCEPT !.marked = NoBeat]
    /\ UNCHANGED <<drafts, run, beat, verdict, heard, mine, call, toRestate,
                   crashes, raced>>

\* An error ends the whole sweep; the wrapper swallows it.
SweepFails ==
    /\ Faults
    /\ sweep # NoSweep
    /\ sweep' = NoSweep
    /\ raced' = raced \cup HeldInProgress(sweep.marked)
    /\ UNCHANGED <<status, checkout, drafts, run, beat, verdict, heard, mine, call,
                   toRestate, crashes>>

-----------------------------------------------------------------------------
(* The process dies and starts again: the database is all that survives.   *)

Interrupted ==
    HeldInProgress(sweep.marked)
    \cup {t \in Task : \E b \in Beat : call[b].at = "clear" /\ call[b].task = t}
    \cup UNION {Unpromoted(b) : b \in Beat}

\* The boot sweep reads every running row before the engine starts; its marks
\* and releases are not awaited and mix with the first beats.
Crash ==
    /\ crashes < MaxCrashes
    /\ crashes' = crashes + 1
    /\ beat' = [b \in Beat |-> IF beat[b] \in {"new", "done"} THEN beat[b] ELSE "dead"]
    /\ call' = [b \in Beat |-> Idle]
    /\ heard' = [b \in Beat |-> {}]
    /\ mine' = [b \in Beat |-> {}]
    /\ toRestate' = [b \in Beat |-> {}]
    /\ sweep' = [rows |-> Running, marked |-> NoBeat]
    /\ raced' = raced \cup Interrupted
    /\ UNCHANGED <<status, checkout, drafts, run, verdict>>

-----------------------------------------------------------------------------
BeatStep(b) ==
    \/ BeginBeat(b)
    \/ EndBeat(b)
    \/ ReleaseClaims(b)
    \/ ReleaseClaimsFails(b)
    \/ \E t \in Task : Restate(b, t)
    \/ FinishRun(b)

Request(b) ==
    \E t \in Task : \/ RequestClaim(b, t)
                    \/ AttachArtifact(b, t)
                    \/ RequestComplete(b, t)
                    \/ RequestBlock(b, t)

Handler(b) ==
    \/ ClaimWins(b)
    \/ ClaimLoses(b)
    \/ MirrorClaim(b)
    \/ GateRejects(b)
    \/ Complete(b)
    \/ ReadDependents(b)
    \/ \E d \in Task : Promote(b, d)
    \/ Block(b)
    \/ ClearClaim(b)
    \/ ClearClaimFails(b)
    \/ HandlerFails(b)

Sweeper ==
    \/ \E rows \in SUBSET Overdue : FindStranded(rows)
    \/ \E b \in Beat : MarkStranded(b)
    \/ ReleaseStranded
    \/ SweepFails

Next ==
    \/ \E b \in Beat : BeatStep(b) \/ Request(b) \/ Handler(b)
    \/ Sweeper
    \/ Crash

Spec == Init /\ [][Next]_vars

\* What is bound to go on while the process lives: a prompt ends (the hard cap
\* of run-beat.ts:252-349 at the latest), the cleanup and the handlers run
\* through, because each Postgres call returns or throws, and the sweep timer
\* finds what is overdue.  The sweeper's next statement may fail again and
\* again, but not for ever.  No wake, no request and no crash has to happen.
Fairness ==
    /\ \A b \in Beat :
        /\ WF_vars(EndBeat(b) \/ FinishRun(b))
        /\ WF_vars(ReleaseClaims(b) \/ \E t \in Task : Restate(b, t))
        /\ WF_vars(Handler(b))
        /\ SF_vars(MarkStranded(b))
    /\ WF_vars(ReleaseStranded)
    /\ WF_vars(FindStranded(Overdue))

FairSpec == Spec /\ Fairness

-----------------------------------------------------------------------------
(* Properties.                                                             *)

TypeOK ==
    /\ status \in [Task -> Statuses]
    /\ checkout \in [Task -> Beat \cup {NoBeat}]
    /\ drafts \subseteq Dependencies
    /\ run \in [Beat -> {"none", "running", "completed", "failed", "stranded"}]
    /\ beat \in [Beat -> Phases]
    /\ verdict \in [Beat -> {"none", "pass", "fail"}]
    /\ heard \in [Beat -> SUBSET {"claimed", "closed"}]
    /\ mine \in [Beat -> SUBSET Task]
    /\ call \in [Beat -> [at : Stages, task : Task \cup {NoTask}, rest : SUBSET Task]]
    /\ \A b \in Beat : call[b].at # "idle" => call[b].task \in Task
    /\ toRestate \in [Beat -> SUBSET Task]
    /\ sweep \in [rows : SUBSET Beat, marked : Beat \cup {NoBeat}]
    /\ crashes \in Nat
    /\ raced \subseteq Task

\* Work on offer is free: a created or planned task nobody wrote out of turn
\* has no claim left on it, so the CAS can match (claim.ts:74).
OfferedIsFree ==
    \A t \in Task \ raced : status[t] \in {"created", "planned"} => checkout[t] = NoBeat

\* Somebody will free what b claimed: b itself, still at work or about to
\* release, or the sweeper, when b is dead and its row is not yet swept.
AnsweredFor(b) ==
    \/ beat[b] \in {"working", "releasing"}
    \/ beat[b] = "dead" /\ (run[b] = "running" \/ sweep.marked = b)

\* No failed or dead beat abandons a task in progress: whoever claimed it and
\* did not pass still answers for it (run-beat.ts:456, stranded-run-sweeper.ts:64).
\* The claims of a beat that passed are the exception the code makes: they
\* survive it on purpose (run-beat.ts:433), and no code frees them.
ClaimsAnsweredFor ==
    \A t \in Task \ raced : status[t] = "in_progress" =>
        /\ checkout[t] \in Beat
        /\ verdict[checkout[t]] # "pass" => AnsweredFor(checkout[t])

\* A blocked task can be claimed again as soon as its block call is over
\* (claim.ts:92).
BlockedIsReclaimable ==
    \A t \in Task \ raced :
        status[t] = "blocked" =>
            \/ checkout[t] = NoBeat
            \/ checkout[t] \in Beat /\ call[checkout[t]].at = "clear"
                                    /\ call[checkout[t]].task = t

\* What the inductive invariant IInv adds to these: run rows keep up with
\* their beats, the sweeper has only rows of beats that ended, a holder
\* whose row is closed is being released or has passed, and a block call that
\* still has to clear its own claim finds the task blocked.
RowsFollowBeats ==
    \A b \in Beat : /\ beat[b] = "new" => run[b] = "none"
                    /\ beat[b] = "working" => run[b] \in {"none", "running"}
                    /\ beat[b] \in {"new", "working"} => verdict[b] = "none"

SweptHaveEnded ==
    \A b \in Beat : b \in sweep.rows \/ b = sweep.marked => beat[b] \notin {"new", "working"}

HoldersAccountable ==
    \A t \in Task \ raced : status[t] = "in_progress" =>
        LET b == checkout[t] IN
        /\ b \in Beat
        /\ \/ verdict[b] = "pass"
           \/ beat[b] = "working" /\ run[b] = "running"
           \/ beat[b] \in {"releasing", "dead"} /\ (run[b] = "running" \/ sweep.marked = b)

ClearsBlocked ==
    \A b \in Beat : LET t == call[b].task IN
        call[b].at = "clear" /\ t \notin raced /\ checkout[t] = b => status[t] = "blocked"

\* What two agents at work both believe they hold was written out of turn:
\* the CAS, the releases and the sweeper alone never produce two workers.
OneWorkerPerTask ==
    \A b, c \in Beat :
        beat[b] = "working" /\ beat[c] = "working" /\ b # c
            => mine[b] \cap mine[c] \subseteq raced

\* A working agent holds what it believes it holds.
BeliefIsTrue ==
    \A b \in Beat : \A t \in mine[b] \ raced :
        beat[b] = "working" => checkout[t] = b

\* A ready dependent is forgotten only when a call fails: when all dependencies
\* of a created task are completed, the completion call of one of them is still
\* on its way to promote it (mutations.ts:402), whichever order the completions
\* committed in, or the last one that was died or threw on the way.
DependentsPromoted ==
    \A t \in Promotable \ raced : \E b \in Beat : t \in Unpromoted(b)

\* Only an agent at work believes anything: a beat starts with an empty mind.
OnlyWorkersBelieve == \A b \in Beat : beat[b] # "working" => mine[b] = {}

IInv ==
    /\ TypeOK
    /\ RowsFollowBeats
    /\ SweptHaveEnded
    /\ ClearsBlocked
    /\ HoldersAccountable
    /\ OfferedIsFree
    /\ BlockedIsReclaimable
    /\ OnlyWorkersBelieve
    /\ BeliefIsTrue
    /\ DependentsPromoted

\* The claim of a live beat at work is taken away by its own calls or by
\* another beat's late block call only: never by a claim, a sweep or another
\* beat's cleanup.
WorkingClaimsRespected ==
    [][\A b \in Beat, t \in Task :
           beat[b] = "working" /\ beat'[b] = "working"
           /\ checkout[t] = b /\ checkout'[t] # b
               => \E c \in Beat : /\ call[c].at = "clear" /\ call[c].task = t
                                  /\ c = b \/ t \in raced']_vars

\* The claim columns are the lock that ClaimLock promises: a block call is
\* under way from its status write to its clear, and a beat has ended once its
\* prompt is over.
Lock == INSTANCE ClaimLock WITH
    holder   <- checkout,
    ended    <- {b \in Beat : beat[b] \notin {"new", "working"}},
    yielding <- {t \in Task : \E b \in Beat : call[b].at = "clear" /\ call[b].task = t}

\* Every step on the task table is a step of the lock or leaves it alone:
\* claims never change hands directly and live beats are never swept
\* (claim.ts:54-77, 169-193).
ClaimsAreALock == Lock!LockSpec

\* A claim in progress whose beat failed or died comes back: the cleanup or
\* the sweeper frees it (run-beat.ts:456, stranded-run-sweeper.ts:9).
AbandonedClaimsReturn ==
    \A t \in Task, b \in Beat :
        t \in HeldInProgress(b) /\ (beat[b] = "dead" \/ verdict[b] = "fail")
            ~> t \notin HeldInProgress(b) \/ t \in raced

\* A task whose dependencies are all completed is put on offer, unless the last
\* promotion on its way to it is cut short (mutations.ts:402-444).
ReadyGetsOffered ==
    \A t \in Task : t \in Promotable ~> t \notin Promotable \/ t \in raced

=============================================================================
