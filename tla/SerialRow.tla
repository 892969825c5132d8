----------------------------- MODULE SerialRow ------------------------------
(***************************************************************************)
(* What the routes may rely on when they change the row of a task: an      *)
(* updateTask is one step, it starts from the row as it is at that moment, *)
(* takes effect once or not at all, and leaves everything else in the row  *)
(* as it was.  Neither locks nor transactions appear.  Only two kinds of   *)
(* writes do not start from the row as it is: the insert of the task, and  *)
(* a barrier, which writes back a copy of the whole row.                   *)
(***************************************************************************)
CONSTANTS Calls, NoCall, Kind

VARIABLES
    row,        \* status, and the calls whose update it shows
    holder,     \* who has the claim
    applied,    \* calls whose update took effect
    copy        \* copy[c]: the row as the barrier of c read it

rowVars == <<row, holder, applied, copy>>

NoCopy == [status |-> "none", marks |-> {}]

RowInit ==
    /\ row \in {NoCopy, [NoCopy EXCEPT !.status = "open"]}
    /\ holder = NoCall
    /\ applied = {}
    /\ copy = [c \in Calls |-> NoCopy]

Create(c) ==
    /\ c \notin applied
    /\ row' = [status |-> "open", marks |-> {c}]
    /\ applied' = applied \cup {c}
    /\ UNCHANGED <<holder, copy>>

\* What the update of c makes of a status.
Becomes(c, status) ==
    CASE Kind[c] = "claim" -> "in_progress"
      [] Kind[c] = "complete" -> "completed"
      [] Kind[c] = "block" -> "blocked"
      [] Kind[c] = "plan" -> "open"
      [] OTHER -> status

Update(c) ==
    /\ c \notin applied
    /\ row.status # "none"
    /\ row' = [status |-> Becomes(c, row.status), marks |-> row.marks \cup {c}]
    /\ applied' = applied \cup {c}
    /\ UNCHANGED <<holder, copy>>

Take(c) ==
    /\ holder = NoCall
    /\ row.status \notin {"none", "completed"}
    /\ holder' = c
    /\ row' = [row EXCEPT !.status = "in_progress"]
    /\ UNCHANGED <<applied, copy>>

GiveBack ==
    /\ holder # NoCall
    /\ row.status = "in_progress"
    /\ holder' = NoCall
    /\ row' = [row EXCEPT !.status = "open"]
    /\ UNCHANGED <<applied, copy>>

\* A block clears the claim after its update, whoever has it.
Unclaim(c) ==
    /\ Kind[c] = "block"
    /\ c \in applied
    /\ holder' = NoCall
    /\ UNCHANGED <<row, applied, copy>>

Copy(c) ==
    /\ row.status # "none"
    /\ copy' = [copy EXCEPT ![c] = row]
    /\ UNCHANGED <<row, holder, applied>>

WriteBack(c) ==
    /\ copy[c] # NoCopy
    /\ row' = copy[c]
    /\ copy' = [copy EXCEPT ![c] = NoCopy]
    /\ UNCHANGED <<holder, applied>>

Discard(c) ==
    /\ copy' = [copy EXCEPT ![c] = NoCopy]
    /\ UNCHANGED <<row, holder, applied>>

RowNext ==
    \/ \E c \in Calls :
          \/ Create(c) \/ Update(c) \/ Take(c) \/ Unclaim(c)
          \/ Copy(c) \/ WriteBack(c) \/ Discard(c)
    \/ GiveBack

RowSpec == RowInit /\ [][RowNext]_rowVars

=============================================================================
