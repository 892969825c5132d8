------------------------------ MODULE TaskRow ------------------------------
(***************************************************************************)
(* Who writes the row of a task, and how (persistence/mutations/tasks.ts,  *)
(* routes/internal-mcp/task-persistence.ts, db repos/tasks).               *)
(*                                                                         *)
(* updateTask reads and writes the whole row in a transaction that holds   *)
(* its lock.  persistTask, the "barrier" some handlers end with, reads and *)
(* writes the whole row in two statements.  The claim columns are written  *)
(* by statements of their own and by nobody else: an update that puts the  *)
(* task back on offer leaves them as they are.  Some handlers do not wait  *)
(* for their own updateTask before they run the barrier.                   *)
(*                                                                         *)
(* Left out: the updates that end a task for another reason (failed by     *)
(* workspace/watchdog.ts or heartbeats/event-bridge.ts, cancelled by a     *)
(* meeting), which are updateTask calls like those of a completion.        *)
(*                                                                         *)
(* One task.  Of its columns only the status and the claim count; what the *)
(* handlers put into the others is the set of the calls whose update the   *)
(* row shows.  TaskClaims has who may claim and complete what.             *)
(***************************************************************************)
EXTENDS Naturals

CONSTANTS
    Calls,    \* calls of the routes of one task
    Kind,     \* what a call does
    NoCall,
    Faults    \* whether statements may throw

\* append: results, commands, heartbeat, preview-url; verify: verification and
\* hydration; plan: the cleanup's restate of a task it released, the promotion of
\* a dependent, what meetings and sprint proposals do to a task that exists.
Kinds == {"create", "append", "patch", "verify", "claim", "complete", "block", "plan"}

ASSUME Shapes == Kind \in [Calls -> Kinds] /\ NoCall \notin Calls /\ Faults \in BOOLEAN

VARIABLES
    row,      \* status and body columns
    holder,   \* checkout_run_id: the claim call that won
    lock,     \* whose transaction holds the row's lock
    at,       \* where the handler of a call is
    tx,       \* where its updateTask is
    base,     \* what its updateTask read
    seen,     \* what its barrier read
    overrun,  \* ghost: updates that came between a read and a write without lock
    exposed   \* ghost: claims that stayed on a task when it was put on offer

vars == <<row, holder, lock, at, tx, base, seen, overrun, exposed>>

\* "open": created or planned.
Statuses == {"none", "open", "blocked", "in_progress", "completed"}
Row == [status : Statuses, marks : SUBSET Calls]
NoRow == [status |-> "none", marks |-> {}]
Places == {"idle", "inserting", "cas", "awaiting", "clear", "barrier", "write",
           "answered", "refused"}
TxStates == {"none", "due", "locked", "done", "failed"}

Init ==
    /\ row \in {NoRow, [NoRow EXCEPT !.status = "open"]}
    /\ holder = NoCall
    /\ lock = NoCall
    /\ at = [c \in Calls |-> "idle"]
    /\ tx = [c \in Calls |-> "none"]
    /\ base = [c \in Calls |-> NoRow]
    /\ seen = [c \in Calls |-> NoRow]
    /\ overrun = {}
    /\ exposed = {}

---------------------------------------------------------------------------
\* Handlers about to write what they read, or made up, some time ago.
Stale == {d \in Calls : at[d] \in {"inserting", "write"}}

\* The update of c reaches the row now.
Lands(c) == overrun' = IF Stale \ {c} = {} /\ at[c] # "write" THEN overrun ELSE overrun \cup {c}

\* Whose claim is on the row.
Holding == {holder} \ {NoCall}

\* A statement on the row waits for its lock.
Unlocked == lock = NoCall

GoTo(c, place) == at' = [at EXCEPT ![c] = place]

---------------------------------------------------------------------------
(* Handlers, up to their updateTask. *)

\* findTask, and for a completion and a block the owner check.
Finds(c) ==
    CASE Kind[c] = "create" -> row.status = "none"
      [] Kind[c] \in {"complete", "block"} -> holder # NoCall
      [] OTHER -> row.status # "none"

\* findTask answers null when its query throws: readTaskHybrid swallows the error.
\* The owner check throws out of the handler.
Refuse(c) ==
    /\ at[c] = "idle"
    /\ ~Finds(c) \/ (Faults /\ Kind[c] # "create")
    /\ GoTo(c, "refused")
    /\ UNCHANGED <<row, holder, lock, tx, base, seen, overrun, exposed>>

\* The same null makes a creation take an existing id for a free one: whatever the
\* row shows by now its insert will not.
MissedCreate(c) ==
    /\ Faults
    /\ at[c] = "idle"
    /\ Kind[c] = "create"
    /\ row.status # "none"
    /\ GoTo(c, "inserting")
    /\ overrun' = overrun \cup {d \in Calls : tx[d] = "done"} \cup Holding
    /\ UNCHANGED <<row, holder, lock, tx, base, seen, exposed>>

Start(c) ==
    /\ at[c] = "idle"
    /\ Finds(c)
    /\ CASE Kind[c] = "create" -> GoTo(c, "inserting") /\ UNCHANGED tx
         [] Kind[c] = "claim" -> GoTo(c, "cas") /\ UNCHANGED tx
         [] Kind[c] = "verify" -> GoTo(c, "barrier") /\ tx' = [tx EXCEPT ![c] = "due"]
         [] OTHER -> GoTo(c, "awaiting") /\ tx' = [tx EXCEPT ![c] = "due"]
    /\ UNCHANGED <<row, holder, lock, base, seen, overrun, exposed>>

\* upsertTask of a new task, over the row if there is one; its artifacts are attached in rows of their own.
Insert(c) ==
    /\ at[c] = "inserting"
    /\ Unlocked
    /\ row' = [status |-> "open", marks |-> {c}]
    /\ GoTo(c, "barrier")
    /\ tx' = [tx EXCEPT ![c] = "done"]
    /\ Lands(c)
    /\ UNCHANGED <<holder, lock, base, seen, exposed>>

\* claimTask: one UPDATE with its conditions.
Claim(c) ==
    /\ at[c] = "cas"
    /\ Unlocked
    /\ IF holder = NoCall /\ row.status # "completed"
       THEN /\ holder' = c
            /\ row' = [row EXCEPT !.status = "in_progress"]
            /\ GoTo(c, "awaiting")
            /\ tx' = [tx EXCEPT ![c] = "due"]
            /\ Lands(c)
       ELSE /\ GoTo(c, "refused")
            /\ UNCHANGED <<row, holder, tx, overrun>>
    /\ UNCHANGED <<lock, base, seen, exposed>>

\* The run of the claim ends or is swept: releaseClaimsForRunDbId.
Release ==
    /\ Unlocked
    /\ holder # NoCall
    /\ row.status = "in_progress"
    /\ holder' = NoCall
    /\ row' = [row EXCEPT !.status = "open"]
    /\ UNCHANGED <<lock, at, tx, base, seen, overrun, exposed>>

---------------------------------------------------------------------------
(* updateTask: a transaction that begins with lockForUpdate. *)

\* Faulty: the updater returns the fields it sets, without the rest of the task.
UpdatedPartly(c, r) == [marks |-> r.marks \cup {c}]

\* The updater of c.
Updated(c, r) ==
    [status |-> CASE Kind[c] = "claim" -> "in_progress"
                  [] Kind[c] = "complete" -> "completed"
                  [] Kind[c] = "block" -> "blocked"
                  [] Kind[c] = "plan" -> "open"
                  [] OTHER -> r.status,
     marks |-> r.marks \cup {c}]

\* Faulty: the row is read without its lock.
TxReadUnlocked(c) ==
    /\ tx[c] = "due"
    /\ tx' = [tx EXCEPT ![c] = "locked"]
    /\ base' = [base EXCEPT ![c] = row]
    /\ UNCHANGED <<row, holder, lock, at, seen, overrun, exposed>>

TxRead(c) ==
    /\ tx[c] = "due"
    /\ Unlocked
    /\ lock' = c
    /\ tx' = [tx EXCEPT ![c] = "locked"]
    /\ base' = [base EXCEPT ![c] = row]
    /\ UNCHANGED <<row, holder, at, seen, overrun, exposed>>

TxCommit(c) ==
    /\ tx[c] = "locked"
    /\ row' = Updated(c, base[c])
    /\ lock' = NoCall
    /\ tx' = [tx EXCEPT ![c] = "done"]
    /\ base' = [base EXCEPT ![c] = NoRow]
    /\ Lands(c)
    /\ exposed' = IF Kind[c] = "plan" THEN exposed \cup Holding ELSE exposed
    /\ UNCHANGED <<holder, at, seen>>

\* Faulty: the transaction is left open.
TxFailsOpen(c) ==
    /\ Faults
    /\ tx[c] \in {"due", "locked"}
    /\ tx' = [tx EXCEPT ![c] = "failed"]
    /\ base' = [base EXCEPT ![c] = NoRow]
    /\ UNCHANGED <<row, holder, lock, at, seen, overrun, exposed>>

\* A statement throws and the transaction is rolled back.
TxFails(c) ==
    /\ Faults
    /\ tx[c] \in {"due", "locked"}
    /\ tx' = [tx EXCEPT ![c] = "failed"]
    /\ lock' = IF lock = c THEN NoCall ELSE lock
    /\ base' = [base EXCEPT ![c] = NoRow]
    /\ UNCHANGED <<row, holder, at, seen, overrun, exposed>>

---------------------------------------------------------------------------
(* Handlers, after the updateTask they awaited. *)

\* Faulty: a block answers without clearing the claim.
AwaitedKeepsClaim(c) ==
    /\ at[c] = "awaiting"
    /\ tx[c] \in {"done", "failed"}
    /\ GoTo(c, IF tx[c] = "done" /\ Kind[c] = "patch" THEN "barrier" ELSE "answered")
    /\ UNCHANGED <<row, holder, lock, tx, base, seen, overrun, exposed>>

\* A failed append is reported, not thrown: its route answers all the same.
Awaited(c) ==
    /\ at[c] = "awaiting"
    /\ tx[c] \in {"done", "failed"}
    /\ GoTo(c, CASE Kind[c] = "append" -> "answered"
                 [] Kind[c] # "append" /\ tx[c] = "failed" -> "refused"
                 [] Kind[c] = "patch" /\ tx[c] = "done" -> "barrier"
                 [] Kind[c] = "block" /\ tx[c] = "done" -> "clear"
                 [] OTHER -> "answered")
    /\ UNCHANGED <<row, holder, lock, tx, base, seen, overrun, exposed>>

\* clearClaimKeepStatus: whoever holds the claim by now.
Clear(c) ==
    /\ at[c] = "clear"
    /\ Unlocked
    /\ holder' = NoCall
    /\ GoTo(c, "answered")
    /\ UNCHANGED <<row, lock, tx, base, seen, overrun, exposed>>

\* persistTask: findByIdHydrated takes no lock.
BarrierRead(c) ==
    /\ at[c] = "barrier"
    /\ seen' = [seen EXCEPT ![c] = row]
    /\ GoTo(c, "write")
    /\ UNCHANGED <<row, holder, lock, tx, base, overrun, exposed>>

\* upsertTask: every column taskToInsert names; not the claim columns.
BarrierWrite(c) ==
    /\ at[c] = "write"
    /\ Unlocked
    /\ row' = seen[c]
    /\ seen' = [seen EXCEPT ![c] = NoRow]
    /\ GoTo(c, "answered")
    /\ UNCHANGED <<holder, lock, tx, base, overrun, exposed>>

\* A statement of the handler throws: the insert, the claim, the reads of a
\* completion that promotes and of a barrier throw out of it, the errors of a
\* barrier's write and of a clear are swallowed.
HandlerFails(c) ==
    /\ Faults
    /\ \/ at[c] \in {"inserting", "cas", "barrier"} /\ GoTo(c, "refused")
       \/ Kind[c] = "complete" /\ at[c] = "awaiting" /\ tx[c] = "done" /\ GoTo(c, "refused")
       \/ at[c] \in {"write", "clear"} /\ GoTo(c, "answered")
    /\ seen' = [seen EXCEPT ![c] = NoRow]
    /\ exposed' = IF at[c] = "clear" THEN exposed \cup Holding ELSE exposed
    /\ UNCHANGED <<row, holder, lock, tx, base, overrun>>

Handler(c) ==
    \/ Insert(c) \/ Claim(c) \/ Awaited(c) \/ Clear(c)
    \/ BarrierRead(c) \/ BarrierWrite(c)

Transaction(c) == TxRead(c) \/ TxCommit(c)

Next ==
    \/ \E c \in Calls :
          \/ Refuse(c) \/ MissedCreate(c) \/ Start(c)
          \/ Handler(c) \/ HandlerFails(c) \/ Transaction(c) \/ TxFails(c)
    \/ Release

Spec == Init /\ [][Next]_vars

\* Queries return or throw; whoever waits for a lock that stays free gets it.
FairSpec ==
    /\ Spec
    /\ \A c \in Calls : WF_vars(Handler(c) \/ Transaction(c))

---------------------------------------------------------------------------
(* Properties. *)

TypeOK ==
    /\ row \in Row
    /\ holder \in Calls \cup {NoCall}
    /\ lock \in Calls \cup {NoCall}
    /\ at \in [Calls -> Places]
    /\ tx \in [Calls -> TxStates]
    /\ base \in [Calls -> Row]
    /\ seen \in [Calls -> Row]
    /\ overrun \in SUBSET Calls
    /\ exposed \in SUBSET Calls

\* No committed update is lost, however many transactions, claims, releases and
\* barriers overlap, unless it was committed while a handler, its own perhaps,
\* was between the read and the write of a barrier, or about to insert the task,
\* or before a creation whose look at the row failed (mutations/tasks.ts:29,
\* task-persistence.ts:47, :64).
UpdatesStick ==
    \A c \in Calls : tx[c] = "done" => c \in row.marks \cup overrun

\* A block whose status is on the row and that is still going to clear the claim.
Clearing(c) == Kind[c] = "block" /\ (at[c] = "clear" \/ (at[c] = "awaiting" /\ tx[c] = "done"))

\* Nobody holds r, if it is on offer, without having been overrun or exposed, or
\* being about to lose the claim to a block.
Offers(r) ==
    /\ holder # NoCall /\ r.status = "open" => holder \in overrun \cup exposed
    /\ holder # NoCall /\ r.status = "blocked" =>
          holder \in overrun \cup exposed \/ \E c \in Calls : Clearing(c)

\* A task on offer has no holder: a claim that was won is never back on offer but
\* on the way of a block, unless a barrier or a creation was under way when it was
\* won or mirrored, an update planned the task while it was held, or the clear of
\* a block failed.  Such a task could not be claimed or released any more
\* (tasks.routes.ts:409, :632, claim.ts:54, :92-106).
ClaimsStick == Offers(row)

\* What of this the routes see: no lock, no transaction.
Serial == INSTANCE SerialRow WITH
    applied <- {c \in Calls : tx[c] = "done"},
    copy    <- seen

\* Updates serialise: the row changes as if every updateTask were one step on the
\* row as it is when it commits, once if it is done and never if it failed, and a
\* barrier writes back nothing but the copy it read (mutations/tasks.ts:29-50,
\* task-persistence.ts:64-69).
UpdatesSerialise == Serial!RowSpec

\* A call whose handler began is answered, although it waits for the lock of
\* the row, behind its own transaction too.
CallsReturn ==
    \A c \in Calls : at[c] # "idle" ~> at[c] \in {"answered", "refused"}

---------------------------------------------------------------------------
(* The inductive invariant of TaskRow_proofs. *)

\* Whoever holds the lock has read the row as it is.
LockHolds ==
    \A c \in Calls : /\ tx[c] = "locked" => lock = c /\ base[c] = row
                     /\ lock = c => tx[c] = "locked"

\* A task that does not exist has no updates and no claim.
NothingYet == row.status = "none" => holder = NoCall /\ \A c \in Calls : tx[c] = "none"

\* What is about to be written shows every update but the overrun ones.
StaleKnows ==
    \A d \in Calls :
        /\ at[d] = "write" =>
              /\ seen[d].status # "none"
              /\ \A c \in Calls : tx[c] = "done" => c \in seen[d].marks \cup overrun
              /\ Offers(seen[d])
        /\ at[d] = "inserting" =>
              /\ \A c \in Calls : tx[c] = "done" => c \in overrun
              /\ holder # NoCall => holder \in overrun
        /\ at[d] \in {"barrier", "cas", "awaiting"} => row.status # "none"
        /\ at[d] = "clear" => Kind[d] = "block" /\ tx[d] = "done"
        /\ Kind[d] = "block" /\ tx[d] \in {"due", "locked"} => at[d] = "awaiting"
        /\ at[d] \in {"idle", "inserting", "cas"} => tx[d] = "none"

IInv ==
    /\ TypeOK
    /\ LockHolds
    /\ NothingYet
    /\ StaleKnows
    /\ UpdatesStick
    /\ ClaimsStick

===========================================================================
