---------------------------- MODULE SprintTurns ----------------------------
(***************************************************************************)
(* How the sprints of a company succeed one another.  A sprint is opened,  *)
(* becomes the company's current one when the one before it is completed   *)
(* or dropped, begins, and is completed while it is the current one, for   *)
(* good.  It can be dropped any time, and a company can be left without a  *)
(* current sprint then.  There are no statements, calls, tasks or          *)
(* finalizations.  A company can be excused, by what overlapping calls do  *)
(* to it: then its sprints may go out of turn, but each is still opened    *)
(* once.                                                                   *)
(***************************************************************************)
CONSTANTS Companies, Sprints, NoSprint, CompanyOf

VARIABLES
    life,       \* life[s]: "none", "planning", "executing", "completed" or "deleted"
    turn,       \* turn[k]: the current sprint of k
    excused     \* companies that no longer keep to the order

turnVars == <<life, turn, excused>>

TurnsInit ==
    /\ life = [s \in Sprints |-> "none"]
    /\ turn = [k \in Companies |-> NoSprint]
    /\ excused = {}

IsOpen(s) == life[s] \in {"planning", "executing"}

\* Nothing is in the way of k's next sprint.
Over(k) == turn[k] # NoSprint => life[turn[k]] \in {"completed", "deleted"}

Becomes(s, status) == life' = [life EXCEPT ![s] = status]

Open(s) ==
    /\ life[s] = "none"
    /\ Becomes(s, "planning")
    /\ UNCHANGED <<turn, excused>>

Advance(s) ==
    /\ life[s] # "none"
    /\ (life[s] # "completed" /\ Over(CompanyOf[s])) \/ CompanyOf[s] \in excused
    /\ turn' = [turn EXCEPT ![CompanyOf[s]] = s]
    /\ UNCHANGED <<life, excused>>

\* An old row of it can take that back.
Begin(s) ==
    /\ IsOpen(s)
    /\ Becomes(s, "planning") \/ Becomes(s, "executing")
    /\ UNCHANGED <<turn, excused>>

Complete(s) ==
    /\ IsOpen(s)
    /\ turn[CompanyOf[s]] = s \/ CompanyOf[s] \in excused
    /\ Becomes(s, "completed")
    /\ excused' \in {excused, excused \cup {CompanyOf[s]}}
    /\ UNCHANGED turn

Drop(s) ==
    /\ life[s] \notin {"none", "deleted"}
    /\ Becomes(s, "deleted")
    /\ UNCHANGED <<turn, excused>>

\* A completed or dropped sprint is written back: that excuses its company.
Revive(s) ==
    /\ life[s] \in {"completed", "deleted"}
    /\ \E status \in {"planning", "executing", "completed"} : Becomes(s, status)
    /\ excused' = excused \cup {CompanyOf[s]}
    /\ UNCHANGED turn

\* The pointer is taken off a dropped sprint.
Vacate(k) ==
    /\ Over(k) \/ k \in excused
    /\ turn' = [turn EXCEPT ![k] = NoSprint]
    /\ UNCHANGED <<life, excused>>

\* The pointer is moved otherwise: that excuses the company.
Stray(k) ==
    /\ \E s \in Sprints \cup {NoSprint} : turn' = [turn EXCEPT ![k] = s]
    /\ excused' = excused \cup {k}
    /\ UNCHANGED life

Excuse(k) ==
    /\ UNCHANGED <<life, turn>>
    /\ excused' \in {excused, excused \cup {k}}

TurnsNext ==
    \/ \E k \in Companies : Excuse(k) \/ Vacate(k) \/ Stray(k)
    \/ \E s \in Sprints : Open(s) \/ Advance(s) \/ Begin(s) \/ Complete(s) \/ Drop(s) \/ Revive(s)

TurnsSpec == TurnsInit /\ [][TurnsNext]_turnVars

=============================================================================
