---------------------------- MODULE MCTaskClaims ----------------------------
(* Small instances of TaskClaims: two tasks of one role, the second waiting *)
(* for the first, and two or three beats.                                   *)
EXTENDS TaskClaims, TLC

CONSTANTS t1, t2, t3, b1, b2

MCTask == {t1, t2}
MCRole == {"developer"}
MCAssignedRole == [t \in Task |-> "developer"]
MCRoleOf == [b \in Beat |-> "developer"]
MCDeps == [t \in Task |-> IF t = t2 THEN {t1} ELSE {}]
MCNoDeps == [t \in Task |-> {}]

\* Two tasks of two roles, each with its own beat, and a third one that waits
\* for both; no beat of its role wakes.
MCTeam == {"developer", "ui_designer", "tester"}
MCTeamAssigned ==
    [t \in Task |-> CASE t = t1 -> "developer" [] t = t2 -> "ui_designer" [] OTHER -> "tester"]
MCTeamRoleOf == [b \in Beat |-> IF b = b1 THEN "developer" ELSE "ui_designer"]
MCJoin == [t \in Task |-> IF t = t3 THEN {t1, t2} ELSE {}]

\* The two roles of the team are alike: their beats change places together
\* with their tasks.
OwnTask(b) == IF b = b1 THEN t1 ELSE t2

TeamSymmetry ==
    {f \in Permutations(Beat \cup {t1, t2}) :
        \A b \in Beat : f[b] \in Beat /\ f[OwnTask(b)] = OwnTask(f[b])}

\* Beats of one role are interchangeable.
BeatSymmetry == Permutations(Beat)

\* The safety properties exempt raced tasks, and a task stays raced: states
\* in which every task is raced satisfy them, and so do all that follow.
SomeTaskInOrder == raced # Task

\* The same for the one task that has dependencies.
JoinInOrder == t3 \notin raced
=============================================================================
