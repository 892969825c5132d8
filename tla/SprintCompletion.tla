------------------------- MODULE SprintCompletion -------------------------
(***************************************************************************)
(* How a sprint is created, completed and deleted (sprints/proposals.ts,   *)
(* sprints/lifecycle.ts, routes/internal-mcp/sprints.routes.ts,            *)
(* routes/sprints.routes.ts).                                              *)
(*                                                                         *)
(* sprint_create checks that the current sprint of the company is over,    *)
(* then writes the sprint, the company's pointer, the tasks and the status *)
(* one statement after the other, while agents already work.  A sprint is  *)
(* finalized by checkSprintCompletion, which one gate of the process lets  *)
(* through for one caller at a time, whatever the company, or by the       *)
(* finalize route, which passes no gate.  A finalization takes minutes: it *)
(* deploys the product between its decision and its status write.  The     *)
(* board deletes a sprint, whatever its state, and clears the pointer      *)
(* after that.  And a task that finds a parent row missing has the rows of *)
(* its company and its sprint written back as they once were.              *)
(*                                                                         *)
(* Of a task only this counts: whether its row exists and whether its      *)
(* status is terminal; TaskClaims has the rest.  Only implementation tasks *)
(* are modelled, the others do not hold a sprint open.                     *)
(***************************************************************************)
EXTENDS Naturals

CONSTANTS
    Companies,
    NoCompany,
    Sprints,     \* one per call of sprint_create
    NoSprint,
    CompanyOf,   \* the company of a sprint
    Tasks,
    SprintOf,    \* the sprint of a task
    Deps,        \* dependsOnTaskIds
    Added,       \* tasks that come by POST /tasks, the others are sprint_create's
    Gate,        \* the place behind sprintCompletionGate
    Routes,      \* finalize calls that can be under way at once
    Deletable,   \* bound: sprints the board may delete
    MaxFaults,   \* bound: statements that throw
    MaxCrashes,  \* bound: restarts of the process
    MaxStale     \* bound: rows written back

Lanes == {Gate} \cup Routes

ASSUME Apart == Gate \notin Routes /\ NoSprint \notin Sprints /\ NoCompany \notin Companies
ASSUME Shapes ==
    /\ CompanyOf \in [Sprints -> Companies]
    /\ SprintOf \in [Tasks -> Sprints]
    /\ Deps \in [Tasks -> SUBSET Tasks]
    /\ Added \in SUBSET Tasks
ASSUME Bounds == MaxFaults \in Nat /\ MaxCrashes \in Nat /\ MaxStale \in Nat

VARIABLES
    stage,       \* where the sprint_create of a sprint is
    rest,        \* tasks it has yet to insert, or to promote
    sprint,      \* sprints.status; "none" before the row, "deleted" after it
    current,     \* companies.current_sprint_id
    task,        \* "none", "open" or "done" (terminal)
    lane,        \* the finalizations under way
    erase,       \* where the deletion of a sprint is
    faults,
    crashes,
    stale,
    closed,      \* ghost: sprints that were set to completed
    reclosed,    \* ghost: sprints to which that happened again
    mistagged,   \* ghost: sprints whose snapshot went under another's number
    twins,       \* ghost: companies where two sprint_create were past the guard
    doubled,     \* ghost: sprints closed while another finalization had them in hand
    reactivated, \* ghost: completed or deleted sprints that were written back
    strayed,     \* ghost: companies whose pointer a clear or an old row has moved
    outside,     \* ghost: sprints a finalization took up when not current
    late,        \* ghost: tasks added behind the back of a finalization
    reopened     \* ghost: tasks written open when they were done

creators == <<stage, rest>>
rows == <<sprint, current, task>>
bounds == <<faults, crashes, stale>>
flips == <<closed, reclosed, mistagged, doubled, outside>>
bystanders == <<twins, reactivated, strayed, late, reopened>>
ghosts == <<flips, bystanders>>
vars == <<creators, rows, lane, erase, bounds, ghosts>>

Stages == {"new", "guarded", "recorded", "pointed", "inserting", "promoting",
           "activating", "made", "failed"}
Statuses == {"none", "planning", "executing", "completed", "deleted"}
Steps == {"idle", "rows", "tasks", "deploying", "closing", "announcing"}

\* company: whose sprint it is about; sprint: NoSprint until it is known;
\* ripe: the sprints whose tasks it saw to be through.
Lane == [at : Steps, company : Companies \cup {NoCompany},
         sprint : Sprints \cup {NoSprint}, ripe : SUBSET Sprints]
NoLane == [at |-> "idle", company |-> NoCompany, sprint |-> NoSprint, ripe |-> {}]

---------------------------------------------------------------------------
(* What the snapshots show. *)

TasksIn(s) == {t \in Tasks : SprintOf[t] = s /\ task[t] # "none"}

\* The tasks of one call of sprint_create.
Batch(s) == {t \in Tasks \ Added : SprintOf[t] = s}

\* It has yet to insert t.
Ahead(s, t) ==
    \/ stage[s] \in {"new", "guarded", "recorded", "pointed"}
    \/ stage[s] = "inserting" /\ t \in rest[s]

\* Faulty: one finished task will do.
SomeThrough(l, k) ==
    {s \in Sprints : CompanyOf[s] = k /\ \E t \in TasksIn(s) : task[t] = "done"}

\* Sprints of k without an open task.  The check behind the gate wants at least
\* one task, the route does not.
Through(l, k) ==
    {s \in Sprints : /\ CompanyOf[s] = k
                     /\ \A t \in TasksIn(s) : task[t] = "done"
                     /\ l = Gate => TasksIn(s) # {}}

\* l saw s not completed and may still set it to completed.
InHand(l, s) == lane[l].sprint = s /\ lane[l].at \in {"rows", "deploying", "closing"}

\* A finalization that does not look again has seen s through, or s is over.
Decided(s) == sprint[s] = "completed" \/ \E l \in Lanes : s \in lane[l].ripe

Init ==
    /\ stage = [s \in Sprints |-> "new"]
    /\ rest = [s \in Sprints |-> {}]
    /\ sprint = [s \in Sprints |-> "none"]
    /\ current = [k \in Companies |-> NoSprint]
    /\ task = [t \in Tasks |-> "none"]
    /\ lane = [l \in Lanes |-> NoLane]
    /\ erase = [s \in Sprints |-> "idle"]
    /\ faults = 0
    /\ crashes = 0
    /\ stale = 0
    /\ closed = {}
    /\ reclosed = {}
    /\ mistagged = {}
    /\ twins = {}
    /\ doubled = {}
    /\ reactivated = {}
    /\ strayed = {}
    /\ outside = {}
    /\ late = {}
    /\ reopened = {}

---------------------------------------------------------------------------
(* sprint_create: createSprintWithTasks, one statement after the other. *)

\* Another call for the company is between its guard and the new pointer.
Rivals(s) == {u \in Sprints \ {s} : CompanyOf[u] = CompanyOf[s] /\ stage[u] \in {"guarded", "recorded"}}

\* Faulty: only an executing sprint is in the way.
NothingExecutes(k) == current[k] # NoSprint => sprint[current[k]] # "executing"

\* Faulty: a sprint whose tasks are through is not in the way.
NothingOpen(k) == current[k] # NoSprint => current[k] \in Through(Gate, k)

\* Completed, or deleted: the snapshot does not show a sprint without a row.
NothingActive(k) == current[k] # NoSprint => sprint[current[k]] \in {"completed", "deleted"}

Guard(s) ==
    LET k == CompanyOf[s] IN
    /\ stage[s] = "new"
    /\ NothingActive(k)
    /\ stage' = [stage EXCEPT ![s] = "guarded"]
    /\ twins' = IF Rivals(s) = {} THEN twins ELSE twins \cup {k}
    /\ UNCHANGED <<rest, rows, lane, erase, bounds, flips, reactivated, strayed, late, reopened>>

Record(s) ==
    /\ stage[s] = "guarded"
    /\ stage' = [stage EXCEPT ![s] = "recorded"]
    /\ sprint' = [sprint EXCEPT ![s] = "planning"]
    /\ UNCHANGED <<rest, current, task, lane, erase, bounds, ghosts>>

Point(s) ==
    /\ stage[s] = "recorded"
    /\ stage' = [stage EXCEPT ![s] = "pointed"]
    /\ current' = [current EXCEPT ![CompanyOf[s]] = s]
    /\ UNCHANGED <<rest, sprint, task, lane, erase, bounds, ghosts>>

\* The sprint's row is written, whatever has become of it.
Write(s, status) ==
    /\ sprint' = [sprint EXCEPT ![s] = status]
    /\ reactivated' = IF sprint[s] \in {"completed", "deleted"} \ {status}
                      THEN reactivated \cup {s} ELSE reactivated

\* persistSprint: the row of Record once more.
Persist(s) ==
    /\ stage[s] = "pointed"
    /\ stage' = [stage EXCEPT ![s] = "inserting"]
    /\ rest' = [rest EXCEPT ![s] = Batch(s)]
    /\ Write(s, "planning")
    /\ UNCHANGED <<current, task, lane, erase, bounds, flips, twins, strayed, late, reopened>>

\* persistTask, in topological order.  Its errors are swallowed, that of a
\* deleted sprint with them.
Insert(s, t) ==
    /\ stage[s] = "inserting"
    /\ t \in rest[s]
    /\ Deps[t] \cap rest[s] = {}
    /\ rest' = [rest EXCEPT ![s] = @ \ {t}]
    /\ \/ /\ sprint[s] # "deleted"
          /\ task' = [task EXCEPT ![t] = "open"]
          /\ late' = IF Decided(s) THEN late \cup {t} ELSE late
          /\ UNCHANGED bounds
       \/ sprint[s] = "deleted" /\ UNCHANGED <<task, late, bounds>>
       \/ /\ faults < MaxFaults
          /\ faults' = faults + 1
          /\ UNCHANGED <<task, late, crashes, stale>>
    /\ UNCHANGED <<stage, sprint, current, lane, erase, flips, twins, reactivated, strayed, reopened>>

\* The tasks without dependencies are promoted next, as they were when they
\* were built.
Inserted(s) ==
    /\ stage[s] = "inserting"
    /\ rest[s] = {}
    /\ stage' = [stage EXCEPT ![s] = "promoting"]
    /\ rest' = [rest EXCEPT ![s] = {t \in Batch(s) : Deps[t] = {}}]
    /\ UNCHANGED <<rows, lane, erase, bounds, ghosts>>

\* A task's status is written whatever it has become since.
WriteOpen(t) ==
    /\ task' = [task EXCEPT ![t] = "open"]
    /\ reopened' = IF task[t] = "done" THEN reopened \cup {t} ELSE reopened

Promote(s, t) ==
    /\ stage[s] = "promoting"
    /\ t \in rest[s]
    /\ rest' = [rest EXCEPT ![s] = @ \ {t}]
    /\ IF task[t] = "none" THEN UNCHANGED <<task, reopened>> ELSE WriteOpen(t)
    /\ UNCHANGED <<stage, sprint, current, lane, erase, bounds, flips, twins, reactivated, strayed, late>>

Promoted(s) ==
    /\ stage[s] = "promoting"
    /\ rest[s] = {}
    /\ stage' = [stage EXCEPT ![s] = "activating"]
    /\ UNCHANGED <<rest, rows, lane, erase, bounds, ghosts>>

\* updateSprint makes no row.
Activate(s) ==
    /\ stage[s] = "activating"
    /\ stage' = [stage EXCEPT ![s] = "made"]
    /\ IF sprint[s] = "deleted" THEN UNCHANGED <<sprint, reactivated>> ELSE Write(s, "executing")
    /\ UNCHANGED <<rest, current, task, lane, erase, bounds, flips, twins, strayed, late, reopened>>

\* A statement throws: what is written stays.
CreateFails(s) ==
    /\ faults < MaxFaults
    /\ stage[s] \in Stages \ {"new", "made", "failed"}
    /\ faults' = faults + 1
    /\ stage' = [stage EXCEPT ![s] = "failed"]
    /\ rest' = [rest EXCEPT ![s] = {}]
    /\ UNCHANGED <<rows, lane, erase, crashes, stale, ghosts>>

---------------------------------------------------------------------------
(* The work itself. *)

\* A task becomes completed, cancelled or failed.
Finish(t) ==
    /\ task[t] = "open"
    /\ task' = [task EXCEPT ![t] = "done"]
    /\ UNCHANGED <<creators, sprint, current, lane, erase, bounds, ghosts>>

\* Late writes of TaskClaims: a block call after the completion, a cleanup's
\* second write, a stale promotion.
Reopen(t) ==
    /\ task[t] = "done"
    /\ WriteOpen(t)
    /\ UNCHANGED <<creators, sprint, current, lane, erase, bounds, flips, twins, reactivated, strayed, late>>

\* POST /tasks, whatever the status of its sprint, or the last write of the
\* healing below: a task comes back to the sprint that was deleted under it.
AddTask(t) ==
    LET s == SprintOf[t] IN
    /\ t \in Added \/ (s \in reactivated /\ ~Ahead(s, t))
    /\ task[t] = "none"
    /\ sprint[s] \notin {"none", "deleted"}
    /\ task' = [task EXCEPT ![t] = "open"]
    /\ late' = IF Decided(s) THEN late \cup {t} ELSE late
    /\ UNCHANGED <<creators, sprint, current, lane, erase, bounds, flips, twins, reactivated, strayed, reopened>>

---------------------------------------------------------------------------
(* checkSprintCompletion, the finalize route, finalizeSprintCompletion. *)

\* The queries of a snapshot run side by side, the tasks before or after the
\* pointer and the sprints.  s: the sprint that is asked for, as these show it.
Missing(s) == s = NoSprint \/ sprint[s] \in {"none", "completed", "deleted"}

TakeUp(l, s, at, ripe) ==
    /\ lane' = [lane EXCEPT ![l] = [at |-> at, company |-> CompanyOf[s], sprint |-> s, ripe |-> ripe]]
    /\ outside' = IF s = current[CompanyOf[s]] THEN outside ELSE outside \cup {s}

\* Faulty: a completed sprint is not in the way.
RowsFirstAnyway(l, s) ==
    /\ s # NoSprint
    /\ TakeUp(l, s, "rows", {})

RowsFirst(l, s) ==
    /\ ~Missing(s)
    /\ TakeUp(l, s, "rows", {})

TasksFirst(l, k, seen) ==
    /\ lane' = [lane EXCEPT ![l] = [at |-> "tasks", company |-> k, sprint |-> NoSprint, ripe |-> seen]]
    /\ UNCHANGED outside

\* A terminal transition, the start of a CEO beat or an approved board review
\* asks for a check.  It is dropped when the gate is taken.
StartCheck(k) ==
    /\ lane[Gate].at = "idle"
    /\ RowsFirst(Gate, current[k]) \/ TasksFirst(Gate, k, Through(Gate, k))
    /\ UNCHANGED <<creators, rows, erase, bounds, closed, reclosed, mistagged, doubled, bystanders>>

\* The CEO asks for sprint s.
StartRoute(r, s) ==
    /\ lane[r].at = "idle"
    /\ \/ RowsFirst(r, s)
       \/ s \in Through(r, CompanyOf[s]) /\ TasksFirst(r, CompanyOf[s], {s})
    /\ UNCHANGED <<creators, rows, erase, bounds, closed, reclosed, mistagged, doubled, bystanders>>

GiveUp(l) == lane' = [lane EXCEPT ![l] = NoLane]

ReadTasks(l) ==
    LET s == lane[l].sprint IN
    /\ lane[l].at = "rows"
    /\ IF s \in Through(l, CompanyOf[s])
       THEN lane' = [lane EXCEPT ![l].at = "deploying", ![l].ripe = {s}]
       ELSE GiveUp(l)
    /\ UNCHANGED <<creators, rows, erase, bounds, ghosts>>

ReadRows(l) ==
    /\ lane[l].at = "tasks"
    /\ \E s \in Sprints \cup {NoSprint} :
          /\ IF l = Gate THEN s = current[lane[l].company] ELSE s \in lane[l].ripe
          /\ IF Missing(s) \/ s \notin lane[l].ripe
             THEN GiveUp(l) /\ UNCHANGED outside
             ELSE TakeUp(l, s, "deploying", {s})
    /\ UNCHANGED <<creators, rows, erase, bounds, closed, reclosed, mistagged, doubled, bystanders>>

\* finalizeSprintCompletion looks once more whether there is the sprint.
Gone(l) ==
    /\ lane[l].at = "deploying"
    /\ sprint[lane[l].sprint] = "deleted"
    /\ GiveUp(l)
    /\ UNCHANGED <<creators, rows, erase, bounds, ghosts>>

\* The preview and the deployment, whose errors are swallowed, are over;
\* tagCurrentSprintSnapshot reads the number afresh.
Tag(l) ==
    LET s == lane[l].sprint IN
    /\ lane[l].at = "deploying"
    /\ lane' = [lane EXCEPT ![l].at = "closing"]
    /\ mistagged' = IF current[CompanyOf[s]] = s THEN mistagged ELSE mistagged \cup {s}
    /\ UNCHANGED <<creators, rows, erase, bounds, closed, reclosed, doubled, outside, bystanders>>

\* updateSprint: whatever the status is by now, unless the row is gone.
Close(l) ==
    LET s == lane[l].sprint IN
    /\ lane[l].at = "closing"
    /\ lane' = [lane EXCEPT ![l] = [NoLane EXCEPT !.at = "announcing"]]
    /\ IF sprint[s] = "deleted"
       THEN UNCHANGED <<sprint, closed, reclosed, doubled>>
       ELSE /\ sprint' = [sprint EXCEPT ![s] = "completed"]
            /\ closed' = closed \cup {s}
            /\ reclosed' = IF s \in closed THEN reclosed \cup {s} ELSE reclosed
            /\ doubled' = IF \E m \in Lanes \ {l} : InHand(m, s)
                          THEN doubled \cup {s} ELSE doubled
    /\ UNCHANGED <<creators, current, task, erase, bounds, mistagged, outside, bystanders>>

\* The CEO's announcement and wake-up; the gate is free again.
Announce(l) ==
    /\ lane[l].at = "announcing"
    /\ lane' = [lane EXCEPT ![l] = NoLane]
    /\ UNCHANGED <<creators, rows, erase, bounds, ghosts>>

\* Faulty: the gate stays taken when the body throws.
FinalizeFailsStuck(l) ==
    /\ faults < MaxFaults
    /\ lane[l].at # "idle"
    /\ faults' = faults + 1
    /\ lane' = [lane EXCEPT ![l] = [NoLane EXCEPT !.at = "stuck"]]
    /\ UNCHANGED <<creators, rows, erase, crashes, stale, ghosts>>

\* A snapshot or the status write throws; the gate is freed all the same.
FinalizeFails(l) ==
    /\ faults < MaxFaults
    /\ lane[l].at # "idle"
    /\ faults' = faults + 1
    /\ lane' = [lane EXCEPT ![l] = NoLane]
    /\ UNCHANGED <<creators, rows, erase, crashes, stale, ghosts>>

---------------------------------------------------------------------------
(* DELETE /api/sprints/:sprintId, and the rows that are written back. *)

\* The foreign key detaches the tasks.
Delete(s) ==
    /\ s \in Deletable
    /\ erase[s] = "idle"
    /\ sprint[s] \notin {"none", "deleted"}
    /\ erase' = [erase EXCEPT ![s] = "deleted"]
    /\ sprint' = [sprint EXCEPT ![s] = "deleted"]
    /\ task' = [t \in Tasks |-> IF SprintOf[t] = s THEN "none" ELSE task[t]]
    /\ UNCHANGED <<creators, current, lane, bounds, ghosts>>

SeePointer(s) ==
    /\ erase[s] = "deleted"
    /\ erase' = [erase EXCEPT ![s] = IF current[CompanyOf[s]] = s THEN "clearing" ELSE "idle"]
    /\ UNCHANGED <<creators, rows, lane, bounds, ghosts>>

\* A pointer that has moved on meanwhile is cleared all the same.
ClearPointer(s) ==
    LET k == CompanyOf[s] IN
    /\ erase[s] = "clearing"
    /\ erase' = [erase EXCEPT ![s] = "idle"]
    /\ current' = [current EXCEPT ![k] = NoSprint]
    /\ strayed' = IF current[k] \in {s, NoSprint} THEN strayed ELSE strayed \cup {k}
    /\ UNCHANGED <<creators, sprint, task, lane, bounds, flips, twins, reactivated, late, reopened>>

DeleteFails(s) ==
    /\ faults < MaxFaults
    /\ erase[s] # "idle"
    /\ faults' = faults + 1
    /\ erase' = [erase EXCEPT ![s] = "idle"]
    /\ UNCHANGED <<creators, rows, lane, crashes, stale, ghosts>>

\* A task is written whose sprint or parent has no row.  The company is written
\* back as it was read, with a pointer it had some time.
RestoreCompany(k) ==
    /\ stale < MaxStale
    /\ stale' = stale + 1
    /\ \E s \in Sprints \cup {NoSprint} :
          /\ s # NoSprint =>
                CompanyOf[s] = k /\ stage[s] \notin {"new", "guarded", "recorded"}
          /\ s # current[k]
          /\ current' = [current EXCEPT ![k] = s]
    /\ strayed' = strayed \cup {k}
    /\ UNCHANGED <<creators, sprint, task, lane, erase, faults, crashes,
                   flips, twins, reactivated, late, reopened>>

\* So is the sprint, with a status it had some time.  The tasks that are open
\* when it is completed that way came behind the back of its finalization.
RestoreSprint(s, status) ==
    /\ stale < MaxStale
    /\ stale' = stale + 1
    /\ sprint[s] \notin {"none", status}
    /\ status = "executing" => stage[s] = "made"
    /\ status = "completed" => s \in closed
    /\ Write(s, status)
    /\ late' = IF status = "completed" THEN late \cup TasksIn(s) ELSE late
    /\ UNCHANGED <<creators, current, task, lane, erase, faults, crashes,
                   flips, twins, strayed, reopened>>

\* The process restarts: calls under way are gone, the gate is a new one.
Crash ==
    /\ crashes < MaxCrashes
    /\ crashes' = crashes + 1
    /\ lane' = [l \in Lanes |-> NoLane]
    /\ stage' = [s \in Sprints |-> IF stage[s] \in {"new", "made"} THEN stage[s] ELSE "failed"]
    /\ rest' = [s \in Sprints |-> {}]
    /\ erase' = [s \in Sprints |-> "idle"]
    /\ UNCHANGED <<rows, faults, stale, ghosts>>

CreateStep(s) ==
    \/ Guard(s) \/ Record(s) \/ Point(s) \/ Persist(s)
    \/ \E t \in Tasks : Insert(s, t) \/ Promote(s, t)
    \/ Inserted(s) \/ Promoted(s) \/ Activate(s) \/ CreateFails(s)

FinalizeStep(l) ==
    ReadRows(l) \/ ReadTasks(l) \/ Gone(l) \/ Tag(l) \/ Close(l) \/ Announce(l)

DeleteStep(s) ==
    Delete(s) \/ SeePointer(s) \/ ClearPointer(s) \/ DeleteFails(s)

Next ==
    \/ \E s \in Sprints : CreateStep(s)
    \/ \E t \in Tasks : Finish(t) \/ Reopen(t) \/ AddTask(t)
    \/ \E k \in Companies : StartCheck(k) \/ RestoreCompany(k)
    \/ \E s \in Sprints : DeleteStep(s)
    \/ \E s \in Sprints, status \in {"planning", "executing", "completed"} :
          RestoreSprint(s, status)
    \/ \E r \in Routes, s \in Sprints : StartRoute(r, s)
    \/ \E l \in Lanes : FinalizeStep(l) \/ FinalizeFails(l)
    \/ Crash

Spec == Init /\ [][Next]_vars

\* sprintNeedsCeoAttention: the current sprint waits to be finalized.
Unfinalized(k) ==
    LET s == current[k] IN
    /\ ~Missing(s)
    /\ s \in Through(Gate, k)

\* A check under way goes on.  The scheduler wakes the CEO again and again
\* while his sprint waits, and his beat's check finds the gate free some time.
FairSpec ==
    /\ Spec
    /\ WF_vars(FinalizeStep(Gate))
    /\ \A k \in Companies : SF_vars(Unfinalized(k) /\ StartCheck(k))

---------------------------------------------------------------------------
(* Properties. *)

TypeOK ==
    /\ stage \in [Sprints -> Stages]
    /\ rest \in [Sprints -> SUBSET Tasks]
    /\ sprint \in [Sprints -> Statuses]
    /\ current \in [Companies -> Sprints \cup {NoSprint}]
    /\ task \in [Tasks -> {"none", "open", "done"}]
    /\ lane \in [Lanes -> Lane]
    /\ erase \in [Sprints -> {"idle", "deleted", "clearing"}]
    /\ faults \in 0 .. MaxFaults
    /\ crashes \in 0 .. MaxCrashes
    /\ stale \in 0 .. MaxStale
    /\ closed \in SUBSET Sprints
    /\ reclosed \in SUBSET Sprints
    /\ mistagged \in SUBSET Sprints
    /\ twins \in SUBSET Companies
    /\ doubled \in SUBSET Sprints
    /\ reactivated \in SUBSET Sprints
    /\ strayed \in SUBSET Companies
    /\ outside \in SUBSET Sprints
    /\ late \in SUBSET Tasks
    /\ reopened \in SUBSET Tasks

\* The pointer reached s: its sprint_create did not fail before that.
Pointed(s) == stage[s] \in {"pointed", "inserting", "promoting", "activating", "made"}

\* The guard of sprint_create keeps its promise: a sprint that is set up and
\* neither completed nor deleted is the current one, so a company has no two of
\* them.  The exceptions are two calls past the guard at once, a completed or
\* deleted sprint that was written back, and a pointer that a deletion cleared
\* too late or an old row of the company moved (proposals.ts:102).
ActiveIsCurrent ==
    \A s \in Sprints :
        Pointed(s) /\ sprint[s] \in {"planning", "executing"}
        /\ s \notin reactivated /\ CompanyOf[s] \notin twins \cup strayed
            => current[CompanyOf[s]] = s

\* A sprint is set to completed, deployed and announced once, whoever asks for
\* checks and however often, unless a finalization by the route ran beside
\* another one or the sprint was written back (lifecycle.ts:60).
CompletedOnce == reclosed \subseteq doubled \cup reactivated

\* The snapshot is tagged with the number of the sprint it is of, although the
\* number is read again after a deployment of minutes: until the sprint is
\* closed, only its deletion lets the pointer go on.  Sprints that were deleted,
\* written back, finalized twice at once or out of turn, and companies with
\* twins or a strayed pointer, are not promised that (lifecycle.ts:297).
TagIsOwn ==
    \A s \in mistagged :
        \/ s \in outside \cup doubled \cup reactivated
        \/ sprint[s] = "deleted"
        \/ CompanyOf[s] \in twins \cup strayed

\* A completed sprint has no open task but those that came or were reopened
\* behind the back of its finalization (lifecycle.ts:75).
CompletedIsDone ==
    \A s \in Sprints : sprint[s] = "completed" =>
        \A t \in TasksIn(s) : task[t] = "open" => t \in late \cup reopened

\* The companies with twins or a strayed pointer, or with a sprint that was
\* written back, finalized beside another finalization, or taken up when it was
\* not the current one.
Excused ==
    twins \cup strayed \cup {CompanyOf[s] : s \in reactivated \cup doubled \cup outside}

\* What the company sees of all this: its current sprint and their statuses.
Turns == INSTANCE SprintTurns WITH life <- sprint, turn <- current, excused <- Excused

\* Sprints take turns: the pointer moves from a completed or deleted sprint to an
\* open one, or is cleared of a deleted one, only the current sprint is completed,
\* and a completed or deleted one stays so, whatever calls, checks, deletions,
\* failures and restarts overlap, but in excused companies
\* (proposals.ts:102-231, lifecycle.ts:60-109, 303-310, sprints.routes.ts:35-45).
SprintsTakeTurns == Turns!TurnsSpec

---------------------------------------------------------------------------
(* The inductive invariant of SprintCompletion_proofs. *)

\* Rows and pointers as far as a sprint_create has come; its batch is inserted
\* task by task.
RowsFollowStages ==
    /\ \A s \in Sprints :
          /\ stage[s] \in {"new", "guarded"} => sprint[s] = "none"
          /\ stage[s] = "recorded" \/ Pointed(s) => sprint[s] # "none"
          /\ rest[s] \subseteq Batch(s)
          /\ \A t \in Batch(s) : Ahead(s, t) => task[t] = "none"
    /\ \A k \in Companies : current[k] # NoSprint =>
          /\ CompanyOf[current[k]] = k
          /\ stage[current[k]] \notin {"new", "guarded", "recorded"}

\* Behind the guard a call is alone, and the current sprint is over.
GuardStillHolds ==
    \A s \in Sprints :
        stage[s] \in {"guarded", "recorded"} /\ CompanyOf[s] \notin twins \cup strayed =>
            /\ Rivals(s) = {}
            /\ LET c == current[CompanyOf[s]] IN
                 c # NoSprint => sprint[c] \in {"completed", "deleted"} \/ c \in reactivated

\* A sprint whose deletion is under way is gone, unless it was written back.
ErasedStaysErased ==
    \A s \in Sprints : erase[s] # "idle" => sprint[s] = "deleted" \/ s \in reactivated

ClosedStaysClosed ==
    \A s \in Sprints :
        /\ sprint[s] = "completed" => s \in closed
        /\ s \in closed => sprint[s] \in {"completed", "deleted"} \/ s \in reactivated

\* What a finalization has in hand is a row, not closed, and current.
InHandIsFresh ==
    \A l \in Lanes, s \in Sprints : InHand(l, s) =>
        /\ sprint[s] # "none"
        /\ s \in closed => s \in doubled \cup reactivated
        /\ \/ s = current[CompanyOf[s]]
           \/ s \in outside \cup doubled \cup reactivated
           \/ sprint[s] = "deleted"
           \/ CompanyOf[s] \in twins \cup strayed

\* What it saw to be through still is.
RipeStaysThrough ==
    \A l \in Lanes :
        /\ lane[l].at \in {"rows", "deploying", "closing"} => lane[l].sprint # NoSprint
        /\ lane[l].at \in {"deploying", "closing"} => lane[l].sprint \in lane[l].ripe
        /\ \A s \in lane[l].ripe : \A t \in TasksIn(s) :
              task[t] = "open" => t \in late \cup reopened

IInv ==
    /\ TypeOK
    /\ RowsFollowStages
    /\ GuardStillHolds
    /\ ErasedStaysErased
    /\ ClosedStaysClosed
    /\ InHandIsFresh
    /\ RipeStaysThrough
    /\ ActiveIsCurrent
    /\ CompletedOnce
    /\ TagIsOwn
    /\ CompletedIsDone

\* With IInv, what SprintsTakeTurns rests on: only the last step of sprint_create
\* makes a sprint executing, and who completes it before the pointer reached it
\* has taken it up out of turn.
CreationOrder ==
    \A s \in Sprints :
        /\ stage[s] \in {"recorded", "pointed", "inserting", "promoting", "activating"} =>
              sprint[s] # "executing"
        /\ stage[s] = "recorded" /\ sprint[s] = "completed" => CompanyOf[s] \in Excused

---------------------------------------------------------------------------
\* A sprint whose tasks are all terminal is completed, though checks are
\* dropped at a taken gate, finalizations fail and the process restarts: the
\* CEO is woken for it (lifecycle.ts:143), and a thrown error frees the gate.
DoneSprintsClose ==
    \A k \in Companies : Unfinalized(k) ~> ~Unfinalized(k)

===========================================================================
