----------------------------- MODULE ClaimLock ------------------------------
(***************************************************************************)
(* What the claim columns of the task table promise: a lock per task with  *)
(* at most one holder.  A claim goes only to a free task.  The claims of a *)
(* beat that still runs are given up one at a time, by a block call under  *)
(* way on that task; the others, several at once, only after it has ended. *)
(***************************************************************************)
CONSTANTS Task, Beat, NoBeat

VARIABLES
    holder,     \* the beat that holds the task, or NoBeat
    ended,      \* beats whose prompt is over
    yielding    \* tasks with a block call under way

lockVars == <<holder, ended, yielding>>

LockInit ==
    /\ holder = [t \in Task |-> NoBeat]
    /\ ended = {}
    /\ yielding = {}

Acquire(b, t) ==
    /\ holder[t] = NoBeat
    /\ holder' = [holder EXCEPT ![t] = b]
    /\ UNCHANGED <<ended, yielding>>

\* A block call starts on t, which may not be its caller's any more.
Announce(t) ==
    /\ yielding' = yielding \cup {t}
    /\ UNCHANGED <<holder, ended>>

\* A block call frees its task; another one may still be under way on it.
Yield(t) ==
    /\ t \in yielding
    /\ holder' = [holder EXCEPT ![t] = NoBeat]
    /\ yielding' \in {yielding, yielding \ {t}}
    /\ UNCHANGED ended

\* Block calls that end without freeing their task.
Withdraw ==
    /\ yielding' \in SUBSET yielding
    /\ UNCHANGED <<holder, ended>>

\* Prompts end: one, or all of them when the process dies.
End(bs) ==
    /\ ended' = ended \cup bs
    /\ yielding' \in SUBSET yielding
    /\ UNCHANGED holder

\* The claims of a beat that has ended are freed.
Reclaim(b, ts) ==
    /\ b \in ended
    /\ \A t \in ts : holder[t] = b
    /\ holder' = [t \in Task |-> IF t \in ts THEN NoBeat ELSE holder[t]]
    /\ UNCHANGED <<ended, yielding>>

LockNext ==
    \/ \E b \in Beat, t \in Task : Acquire(b, t)
    \/ \E t \in Task : Announce(t) \/ Yield(t)
    \/ Withdraw
    \/ \E bs \in SUBSET Beat : End(bs)
    \/ \E b \in Beat, ts \in SUBSET Task : Reclaim(b, ts)

LockSpec == LockInit /\ [][LockNext]_lockVars

=============================================================================
