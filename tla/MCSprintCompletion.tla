------------------------- MODULE MCSprintCompletion -------------------------
(* A company that creates two sprints of a task each, the first of which     *)
(* gets a late one, and a neighbour with a sprint of one task.               *)
EXTENDS SprintCompletion, FiniteSets, TLC

CONSTANTS k1, k2, s1, s2, s3, t1, t2, t3, t4, t5

MCCompanyOf == [s \in Sprints |-> IF s = s3 THEN k2 ELSE k1]
MCSprintOf == [t \in Tasks |-> IF t \in {t1, t2, t5} THEN s1 ELSE IF t = t3 THEN s2 ELSE s3]
MCDeps == [t \in Tasks |-> IF t = t2 THEN {t1} ELSE {}]

\* What the properties exempt stays exempt: one exemption at a time is followed
\* up, two are not.  A sprint is deleted before it is closed, and only what the
\* deletion brings about is followed up, beside a check behind the gate.
\* The two sprints are alike but for the late task: the first one comes first,
\* and the route is called for it.
OneExemption ==
    /\ Cardinality(twins \cup strayed) + Cardinality(doubled \cup reactivated \cup outside)
           + Cardinality(late \cup reopened) + stale <= 1
    /\ faults + crashes <= 1
    /\ stage[s1] = "new" => stage[s2] = "new"
    /\ \A r \in Routes : lane[r].sprint # s2 /\ s2 \notin lane[r].ripe
    /\ \A s \in Sprints : sprint[s] = "deleted" =>
          /\ twins \cup doubled \cup outside \cup late \cup reopened = {}
          /\ s \notin closed
          /\ \A r \in Routes : lane[r].at = "idle"

\* A deleted sprint that was written back is not followed up.
NoRevival == reactivated = {}

=============================================================================
