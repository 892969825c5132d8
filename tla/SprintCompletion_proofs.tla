---------------------- MODULE SprintCompletion_proofs ----------------------
(***************************************************************************)
(* IInv of SprintCompletion is an invariant, for all companies, sprints,   *)
(* tasks and route calls: one lemma per action, one step per conjunct of   *)
(* IInv.  At the end, SprintCompletion implements SprintTurns.             *)
(***************************************************************************)
EXTENDS SprintCompletion, TLAPS

LEMMA GuardKeeps ==
    ASSUME IInv, NEW s \in Sprints, Guard(s) PROVE IInv'
<1>0. /\ TypeOK /\ RowsFollowStages /\ GuardStillHolds /\ ErasedStaysErased /\ ClosedStaysClosed
      /\ InHandIsFresh /\ RipeStaysThrough /\ ActiveIsCurrent
      /\ CompletedOnce /\ TagIsOwn /\ CompletedIsDone
  BY DEF IInv
<1>1. TypeOK'
  BY <1>0, Shapes DEF Guard, TypeOK, Stages, rows, bounds, flips
<1>2. RowsFollowStages'
  BY <1>0 DEF Guard, RowsFollowStages, Ahead, Pointed, rows
<1>3. GuardStillHolds'
  BY <1>0 DEF Guard, NothingActive, GuardStillHolds, Rivals, rows
<1>4. ClosedStaysClosed'
  BY <1>0 DEF Guard, ClosedStaysClosed, rows, flips
<1>5. InHandIsFresh'
  BY <1>0 DEF Guard, InHandIsFresh, InHand, rows, flips
<1>6. RipeStaysThrough'
  BY <1>0 DEF Guard, RipeStaysThrough, TasksIn, rows
<1>7. ActiveIsCurrent'
  BY <1>0 DEF Guard, ActiveIsCurrent, Pointed, rows
<1>8. CompletedOnce'
  BY <1>0 DEF Guard, CompletedOnce, flips
<1>9. TagIsOwn'
  BY <1>0 DEF Guard, TagIsOwn, rows, flips
<1>10. CompletedIsDone'
  BY <1>0 DEF Guard, CompletedIsDone, TasksIn, rows
<1>11. ErasedStaysErased'
  BY <1>0 DEF Guard, ErasedStaysErased, rows, ghosts, flips, bystanders
<1> QED BY <1>1, <1>2, <1>3, <1>4, <1>5, <1>6, <1>7, <1>8, <1>9, <1>10, <1>11 DEF IInv

LEMMA RecordKeeps ==
    ASSUME IInv, NEW s \in Sprints, Record(s) PROVE IInv'
<1>0. /\ TypeOK /\ RowsFollowStages /\ GuardStillHolds /\ ErasedStaysErased /\ ClosedStaysClosed
      /\ InHandIsFresh /\ RipeStaysThrough /\ ActiveIsCurrent
      /\ CompletedOnce /\ TagIsOwn /\ CompletedIsDone
  BY DEF IInv
<1>1. TypeOK'
  BY <1>0 DEF Record, TypeOK, Stages, Statuses, bounds, flips, ghosts, bystanders
<1>2. RowsFollowStages'
  BY <1>0 DEF Record, TypeOK, RowsFollowStages, Ahead, Pointed
<1>3. GuardStillHolds'
  BY <1>0 DEF Record, GuardStillHolds, RowsFollowStages, Rivals, ghosts, bystanders
<1>4. ClosedStaysClosed'
  BY <1>0 DEF Record, ClosedStaysClosed, RowsFollowStages, flips, ghosts, bystanders
<1>5. InHandIsFresh'
  BY <1>0 DEF Record, TypeOK, RowsFollowStages, InHandIsFresh, InHand, flips, ghosts, bystanders
<1>6. RipeStaysThrough'
  BY <1>0 DEF Record, RipeStaysThrough, TasksIn, ghosts, bystanders
<1>7. ActiveIsCurrent'
  BY <1>0 DEF Record, ActiveIsCurrent, Pointed, ghosts, bystanders
<1>8. CompletedOnce'
  BY <1>0 DEF Record, CompletedOnce, flips, ghosts, bystanders
<1>9. TagIsOwn'
  BY <1>0 DEF Record, TypeOK, RowsFollowStages, TagIsOwn, flips, ghosts, bystanders
<1>10. CompletedIsDone'
  BY <1>0 DEF Record, CompletedIsDone, TasksIn, ghosts, bystanders
<1>11. ErasedStaysErased'
  BY <1>0 DEF Record, TypeOK, RowsFollowStages, ErasedStaysErased, rows, ghosts, flips, bystanders
<1> QED BY <1>1, <1>2, <1>3, <1>4, <1>5, <1>6, <1>7, <1>8, <1>9, <1>10, <1>11 DEF IInv

LEMMA PointKeeps ==
    ASSUME IInv, NEW s \in Sprints, Point(s) PROVE IInv'
<1>0. /\ TypeOK /\ RowsFollowStages /\ GuardStillHolds /\ ErasedStaysErased /\ ClosedStaysClosed
      /\ InHandIsFresh /\ RipeStaysThrough /\ ActiveIsCurrent
      /\ CompletedOnce /\ TagIsOwn /\ CompletedIsDone
  BY DEF IInv
<1>1. TypeOK'
  BY <1>0 DEF Point, TypeOK, Stages, bounds, flips, ghosts, bystanders
<1>2. RowsFollowStages'
  BY <1>0 DEF Point, TypeOK, RowsFollowStages, Ahead, Pointed
<1>3. GuardStillHolds'
  BY <1>0 DEF Point, TypeOK, GuardStillHolds, Rivals, ghosts, bystanders
<1>4. ClosedStaysClosed'
  BY <1>0 DEF Point, ClosedStaysClosed, flips, ghosts, bystanders
<1>5. InHandIsFresh'
  <2> SUFFICES ASSUME NEW l \in Lanes, NEW u \in Sprints, InHand(l, u)'
               PROVE /\ (sprint[u] # "none")'
                     /\ (u \in closed => u \in doubled \cup reactivated)'
                     /\ (\/ u = current[CompanyOf[u]]
                         \/ u \in outside \cup doubled \cup reactivated
                         \/ sprint[u] = "deleted"
                         \/ CompanyOf[u] \in twins \cup strayed)'
    BY DEF InHandIsFresh
  <2>1. InHand(l, u)
    BY DEF Point, InHand
  <2>2. /\ sprint[u] # "none"
        /\ u \in closed => u \in doubled \cup reactivated
        /\ \/ u = current[CompanyOf[u]]
           \/ u \in outside \cup doubled \cup reactivated
           \/ sprint[u] = "deleted"
           \/ CompanyOf[u] \in twins \cup strayed
    BY <1>0, <2>1 DEF InHandIsFresh
  <2> DEFINE Passed == /\ u = current[CompanyOf[u]] /\ CompanyOf[u] = CompanyOf[s]
                       /\ CompanyOf[u] \notin twins \cup strayed
  <2>3. CASE Passed
    <3>1. sprint[u] \in {"completed", "deleted"} \/ u \in reactivated
      BY <1>0, <2>3, Apart DEF GuardStillHolds, Point
    <3>2. u \in doubled \cup reactivated \/ sprint[u] = "deleted"
      BY <1>0, <2>2, <3>1 DEF ClosedStaysClosed
    <3> QED BY <2>2, <3>2 DEF Point, ghosts, flips, bystanders
  <2>4. CASE ~Passed
    BY <1>0, <2>2, <2>4 DEF Point, ghosts, flips, bystanders
  <2> QED BY <2>3, <2>4
<1>6. RipeStaysThrough'
  BY <1>0 DEF Point, RipeStaysThrough, TasksIn, ghosts, bystanders
<1>7. ActiveIsCurrent'
  BY <1>0, Apart, Shapes DEF Point, GuardStillHolds, TypeOK, ActiveIsCurrent, Pointed, ghosts,
     bystanders
<1>8. CompletedOnce'
  BY <1>0 DEF Point, CompletedOnce, flips, ghosts, bystanders
<1>9. TagIsOwn'
  BY <1>0 DEF Point, TagIsOwn, rows, flips, ghosts, bystanders
<1>10. CompletedIsDone'
  BY <1>0 DEF Point, CompletedIsDone, TasksIn, ghosts, bystanders
<1>11. ErasedStaysErased'
  BY <1>0 DEF Point, ErasedStaysErased, rows, ghosts, flips, bystanders
<1> QED BY <1>1, <1>2, <1>3, <1>4, <1>5, <1>6, <1>7, <1>8, <1>9, <1>10, <1>11 DEF IInv

LEMMA PersistKeeps ==
    ASSUME IInv, NEW s \in Sprints, Persist(s) PROVE IInv'
<1>0. /\ TypeOK /\ RowsFollowStages /\ GuardStillHolds /\ ErasedStaysErased /\ ClosedStaysClosed
      /\ InHandIsFresh /\ RipeStaysThrough /\ ActiveIsCurrent
      /\ CompletedOnce /\ TagIsOwn /\ CompletedIsDone
  BY DEF IInv
<1>a. /\ sprint' \in [Sprints -> Statuses] /\ reactivated' \subseteq Sprints
      /\ \A u \in Sprints \ {s} : sprint'[u] = sprint[u]
      /\ sprint'[s] = "planning"
      /\ reactivated \subseteq reactivated' /\ reactivated' \subseteq reactivated \cup {s}
      /\ sprint[s] \in {"completed", "deleted"} \ {sprint'[s]} => s \in reactivated'
  BY <1>0 DEF Persist, Write, TypeOK, Statuses
<1>1. TypeOK'
  <2>1. rest' \in [Sprints -> SUBSET Tasks]
    BY <1>0, <1>a DEF Persist, TypeOK, Batch
  <2>2. stage' \in [Sprints -> Stages]
    BY <1>0, <1>a DEF Persist, Stages, TypeOK
  <2> QED BY <1>0, <1>a, <2>1, <2>2, <2>2 DEF Persist, TypeOK, bounds, flips
<1>2. RowsFollowStages'
  BY <1>0, <1>a DEF Persist, RowsFollowStages, Ahead, Pointed
<1>3. GuardStillHolds'
  BY <1>0, <1>a, Shapes, Apart DEF Persist, TypeOK, GuardStillHolds, Rivals
<1>4. ClosedStaysClosed'
  BY <1>0, <1>a DEF Persist, ClosedStaysClosed, flips
<1>5. InHandIsFresh'
  BY <1>0, <1>a DEF Persist, InHandIsFresh, InHand, flips
<1>6. RipeStaysThrough'
  BY <1>0, <1>a DEF Persist, RipeStaysThrough, TasksIn
<1>7. ActiveIsCurrent'
  BY <1>0, <1>a DEF Persist, TypeOK, Statuses, ActiveIsCurrent, RowsFollowStages, Pointed
<1>8. CompletedOnce'
  BY <1>0, <1>a DEF Persist, CompletedOnce, flips
<1>9. TagIsOwn'
  BY <1>0, <1>a DEF Persist, TypeOK, TagIsOwn, rows, flips
<1>10. CompletedIsDone'
  BY <1>0, <1>a DEF Persist, CompletedIsDone, TasksIn
<1>11. ErasedStaysErased'
  BY <1>0, <1>a DEF Persist, ErasedStaysErased, rows, ghosts, flips, bystanders
<1> QED BY <1>1, <1>2, <1>3, <1>4, <1>5, <1>6, <1>7, <1>8, <1>9, <1>10, <1>11 DEF IInv

LEMMA InsertKeeps ==
    ASSUME IInv, NEW s \in Sprints, NEW t \in Tasks, Insert(s, t) PROVE IInv'
<1>0. /\ TypeOK /\ RowsFollowStages /\ GuardStillHolds /\ ErasedStaysErased /\ ClosedStaysClosed
      /\ InHandIsFresh /\ RipeStaysThrough /\ ActiveIsCurrent
      /\ CompletedOnce /\ TagIsOwn /\ CompletedIsDone
  BY DEF IInv
<1>1. TypeOK'
  BY <1>0, Bounds DEF Insert, TypeOK, bounds, flips
<1>2. RowsFollowStages'
  BY <1>0 DEF Insert, TypeOK, RowsFollowStages, Ahead, Pointed, Batch
<1>3. GuardStillHolds'
  BY <1>0 DEF Insert, GuardStillHolds, Rivals
<1>4. ClosedStaysClosed'
  BY <1>0 DEF Insert, ClosedStaysClosed, flips
<1>5. InHandIsFresh'
  BY <1>0 DEF Insert, InHandIsFresh, InHand, flips
<1>6. RipeStaysThrough'
  <2>1. CASE UNCHANGED task /\ UNCHANGED late
    BY <1>0, <2>1 DEF Insert, RipeStaysThrough, TasksIn
  <2>2. CASE task' = [task EXCEPT ![t] = "open"] /\ late' = IF Decided(s) THEN late \cup {t} ELSE late
    <3>1. SprintOf[t] = s /\ task[t] = "none"
      BY <1>0 DEF Insert, RowsFollowStages, Batch, Ahead
    <3> QED BY <1>0, <2>2, <3>1 DEF Insert, Decided, RipeStaysThrough, TasksIn
  <2> QED BY <2>1, <2>2 DEF Insert
<1>7. ActiveIsCurrent'
  BY <1>0 DEF Insert, ActiveIsCurrent, Pointed
<1>8. CompletedOnce'
  BY <1>0 DEF Insert, CompletedOnce, flips
<1>9. TagIsOwn'
  BY <1>0 DEF Insert, TagIsOwn, rows, flips
<1>10. CompletedIsDone'
  <2>1. CASE UNCHANGED task /\ UNCHANGED late
    BY <1>0, <2>1 DEF Insert, CompletedIsDone, TasksIn
  <2>2. CASE task' = [task EXCEPT ![t] = "open"] /\ late' = IF Decided(s) THEN late \cup {t} ELSE late
    <3>1. SprintOf[t] = s /\ task[t] = "none"
      BY <1>0 DEF Insert, RowsFollowStages, Batch, Ahead
    <3> QED BY <1>0, <2>2, <3>1 DEF Insert, Decided, CompletedIsDone, TasksIn
  <2> QED BY <2>1, <2>2 DEF Insert
<1>11. ErasedStaysErased'
  BY <1>0 DEF Insert, ErasedStaysErased, rows, ghosts, flips, bystanders
<1> QED BY <1>1, <1>2, <1>3, <1>4, <1>5, <1>6, <1>7, <1>8, <1>9, <1>10, <1>11 DEF IInv

LEMMA InsertedKeeps ==
    ASSUME IInv, NEW s \in Sprints, Inserted(s) PROVE IInv'
<1>0. /\ TypeOK /\ RowsFollowStages /\ GuardStillHolds /\ ErasedStaysErased /\ ClosedStaysClosed
      /\ InHandIsFresh /\ RipeStaysThrough /\ ActiveIsCurrent
      /\ CompletedOnce /\ TagIsOwn /\ CompletedIsDone
  BY DEF IInv
<1>1. TypeOK'
  <2>1. rest' \in [Sprints -> SUBSET Tasks]
    BY <1>0 DEF Inserted, TypeOK, Batch
  <2>2. stage' \in [Sprints -> Stages]
    BY <1>0 DEF Inserted, Stages, TypeOK
  <2> QED BY <1>0, <2>1, <2>2 DEF Inserted, TypeOK, rows, bounds, ghosts, flips, bystanders
<1>2. RowsFollowStages'
  BY <1>0 DEF Inserted, TypeOK, RowsFollowStages, Ahead, Pointed, rows
<1>3. GuardStillHolds'
  BY <1>0 DEF Inserted, GuardStillHolds, Rivals, rows, ghosts, bystanders
<1>4. ClosedStaysClosed'
  BY <1>0 DEF Inserted, ClosedStaysClosed, rows, flips, ghosts, bystanders
<1>5. InHandIsFresh'
  BY <1>0 DEF Inserted, InHandIsFresh, InHand, rows, flips, ghosts, bystanders
<1>6. RipeStaysThrough'
  BY <1>0 DEF Inserted, RipeStaysThrough, TasksIn, rows, ghosts, bystanders
<1>7. ActiveIsCurrent'
  BY <1>0 DEF Inserted, ActiveIsCurrent, Pointed, rows, ghosts, bystanders
<1>8. CompletedOnce'
  BY <1>0 DEF Inserted, CompletedOnce, flips, ghosts, bystanders
<1>9. TagIsOwn'
  BY <1>0 DEF Inserted, TagIsOwn, rows, flips, ghosts, bystanders
<1>10. CompletedIsDone'
  BY <1>0 DEF Inserted, CompletedIsDone, TasksIn, rows, ghosts, bystanders
<1>11. ErasedStaysErased'
  BY <1>0 DEF Inserted, ErasedStaysErased, rows, ghosts, flips, bystanders
<1> QED BY <1>1, <1>2, <1>3, <1>4, <1>5, <1>6, <1>7, <1>8, <1>9, <1>10, <1>11 DEF IInv

LEMMA PromoteKeeps ==
    ASSUME IInv, NEW s \in Sprints, NEW t \in Tasks, Promote(s, t) PROVE IInv'
<1>0. /\ TypeOK /\ RowsFollowStages /\ GuardStillHolds /\ ErasedStaysErased /\ ClosedStaysClosed
      /\ InHandIsFresh /\ RipeStaysThrough /\ ActiveIsCurrent
      /\ CompletedOnce /\ TagIsOwn /\ CompletedIsDone
  BY DEF IInv
<1>1. TypeOK'
  BY <1>0 DEF Promote, WriteOpen, TypeOK, bounds, flips
<1>2. RowsFollowStages'
  BY <1>0 DEF Promote, WriteOpen, TypeOK, RowsFollowStages, Ahead, Pointed, Batch
<1>3. GuardStillHolds'
  BY <1>0 DEF Promote, GuardStillHolds, Rivals
<1>4. ClosedStaysClosed'
  BY <1>0 DEF Promote, ClosedStaysClosed, flips
<1>5. InHandIsFresh'
  BY <1>0 DEF Promote, InHandIsFresh, InHand, flips
<1>6. RipeStaysThrough'
  BY <1>0 DEF Promote, WriteOpen, TypeOK, RipeStaysThrough, TasksIn
<1>7. ActiveIsCurrent'
  BY <1>0 DEF Promote, ActiveIsCurrent, Pointed
<1>8. CompletedOnce'
  BY <1>0 DEF Promote, CompletedOnce, flips
<1>9. TagIsOwn'
  BY <1>0 DEF Promote, TagIsOwn, rows, flips
<1>10. CompletedIsDone'
  BY <1>0 DEF Promote, WriteOpen, TypeOK, CompletedIsDone, TasksIn
<1>11. ErasedStaysErased'
  BY <1>0 DEF Promote, ErasedStaysErased, rows, ghosts, flips, bystanders
<1> QED BY <1>1, <1>2, <1>3, <1>4, <1>5, <1>6, <1>7, <1>8, <1>9, <1>10, <1>11 DEF IInv

LEMMA PromotedKeeps ==
    ASSUME IInv, NEW s \in Sprints, Promoted(s) PROVE IInv'
<1>0. /\ TypeOK /\ RowsFollowStages /\ GuardStillHolds /\ ErasedStaysErased /\ ClosedStaysClosed
      /\ InHandIsFresh /\ RipeStaysThrough /\ ActiveIsCurrent
      /\ CompletedOnce /\ TagIsOwn /\ CompletedIsDone
  BY DEF IInv
<1>1. TypeOK'
  BY <1>0 DEF Promoted, TypeOK, Stages, rows, bounds, flips, ghosts, bystanders
<1>2. RowsFollowStages'
  BY <1>0 DEF Promoted, RowsFollowStages, Ahead, Pointed, rows
<1>3. GuardStillHolds'
  BY <1>0 DEF Promoted, GuardStillHolds, Rivals, rows, ghosts, bystanders
<1>4. ClosedStaysClosed'
  BY <1>0 DEF Promoted, ClosedStaysClosed, rows, flips, ghosts, bystanders
<1>5. InHandIsFresh'
  BY <1>0 DEF Promoted, InHandIsFresh, InHand, rows, flips, ghosts, bystanders
<1>6. RipeStaysThrough'
  BY <1>0 DEF Promoted, RipeStaysThrough, TasksIn, rows, ghosts, bystanders
<1>7. ActiveIsCurrent'
  BY <1>0 DEF Promoted, ActiveIsCurrent, Pointed, rows, ghosts, bystanders
<1>8. CompletedOnce'
  BY <1>0 DEF Promoted, CompletedOnce, flips, ghosts, bystanders
<1>9. TagIsOwn'
  BY <1>0 DEF Promoted, TagIsOwn, rows, flips, ghosts, bystanders
<1>10. CompletedIsDone'
  BY <1>0 DEF Promoted, CompletedIsDone, TasksIn, rows, ghosts, bystanders
<1>11. ErasedStaysErased'
  BY <1>0 DEF Promoted, ErasedStaysErased, rows, ghosts, flips, bystanders
<1> QED BY <1>1, <1>2, <1>3, <1>4, <1>5, <1>6, <1>7, <1>8, <1>9, <1>10, <1>11 DEF IInv

LEMMA ActivateKeeps ==
    ASSUME IInv, NEW s \in Sprints, Activate(s) PROVE IInv'
<1>0. /\ TypeOK /\ RowsFollowStages /\ GuardStillHolds /\ ErasedStaysErased /\ ClosedStaysClosed
      /\ InHandIsFresh /\ RipeStaysThrough /\ ActiveIsCurrent
      /\ CompletedOnce /\ TagIsOwn /\ CompletedIsDone
  BY DEF IInv
<1>a. /\ sprint' \in [Sprints -> Statuses] /\ reactivated' \subseteq Sprints
      /\ \A u \in Sprints \ {s} : sprint'[u] = sprint[u]
      /\ sprint'[s] = IF sprint[s] = "deleted" THEN "deleted" ELSE "executing"
      /\ reactivated \subseteq reactivated' /\ reactivated' \subseteq reactivated \cup {s}
      /\ sprint[s] \in {"completed", "deleted"} \ {sprint'[s]} => s \in reactivated'
  BY <1>0 DEF Activate, Write, TypeOK, Statuses
<1>1. TypeOK'
  BY <1>0, <1>a DEF Activate, TypeOK, Stages, bounds, flips
<1>2. RowsFollowStages'
  BY <1>0, <1>a DEF Activate, RowsFollowStages, Ahead, Pointed
<1>3. GuardStillHolds'
  BY <1>0, <1>a, Shapes, Apart DEF Activate, TypeOK, GuardStillHolds, Rivals
<1>4. ClosedStaysClosed'
  BY <1>0, <1>a DEF Activate, ClosedStaysClosed, flips
<1>5. InHandIsFresh'
  BY <1>0, <1>a DEF Activate, InHandIsFresh, InHand, flips
<1>6. RipeStaysThrough'
  BY <1>0, <1>a DEF Activate, RipeStaysThrough, TasksIn
<1>7. ActiveIsCurrent'
  BY <1>0, <1>a DEF Activate, TypeOK, Statuses, ActiveIsCurrent, RowsFollowStages, Pointed
<1>8. CompletedOnce'
  BY <1>0, <1>a DEF Activate, CompletedOnce, flips
<1>9. TagIsOwn'
  BY <1>0, <1>a DEF Activate, TypeOK, TagIsOwn, rows, flips
<1>10. CompletedIsDone'
  BY <1>0, <1>a DEF Activate, CompletedIsDone, TasksIn
<1>11. ErasedStaysErased'
  BY <1>0, <1>a DEF Activate, ErasedStaysErased, rows, ghosts, flips, bystanders
<1> QED BY <1>1, <1>2, <1>3, <1>4, <1>5, <1>6, <1>7, <1>8, <1>9, <1>10, <1>11 DEF IInv

LEMMA CreateFailsKeeps ==
    ASSUME IInv, NEW s \in Sprints, CreateFails(s) PROVE IInv'
<1>0. /\ TypeOK /\ RowsFollowStages /\ GuardStillHolds /\ ErasedStaysErased /\ ClosedStaysClosed
      /\ InHandIsFresh /\ RipeStaysThrough /\ ActiveIsCurrent
      /\ CompletedOnce /\ TagIsOwn /\ CompletedIsDone
  BY DEF IInv
<1>1. TypeOK'
  BY <1>0, Bounds DEF CreateFails, TypeOK, Stages, rows, flips, ghosts, bystanders
<1>2. RowsFollowStages'
  BY <1>0 DEF CreateFails, RowsFollowStages, Ahead, Pointed, rows
<1>3. GuardStillHolds'
  BY <1>0 DEF CreateFails, GuardStillHolds, Rivals, rows, ghosts, bystanders
<1>4. ClosedStaysClosed'
  BY <1>0 DEF CreateFails, ClosedStaysClosed, rows, flips, ghosts, bystanders
<1>5. InHandIsFresh'
  BY <1>0 DEF CreateFails, InHandIsFresh, InHand, rows, flips, ghosts, bystanders
<1>6. RipeStaysThrough'
  BY <1>0 DEF CreateFails, RipeStaysThrough, TasksIn, rows, ghosts, bystanders
<1>7. ActiveIsCurrent'
  BY <1>0 DEF CreateFails, ActiveIsCurrent, Pointed, rows, ghosts, bystanders
<1>8. CompletedOnce'
  BY <1>0 DEF CreateFails, CompletedOnce, flips, ghosts, bystanders
<1>9. TagIsOwn'
  BY <1>0 DEF CreateFails, TagIsOwn, rows, flips, ghosts, bystanders
<1>10. CompletedIsDone'
  BY <1>0 DEF CreateFails, CompletedIsDone, TasksIn, rows, ghosts, bystanders
<1>11. ErasedStaysErased'
  BY <1>0 DEF CreateFails, ErasedStaysErased, rows, ghosts, flips, bystanders
<1> QED BY <1>1, <1>2, <1>3, <1>4, <1>5, <1>6, <1>7, <1>8, <1>9, <1>10, <1>11 DEF IInv

LEMMA FinishKeeps ==
    ASSUME IInv, NEW t \in Tasks, Finish(t) PROVE IInv'
<1>0. /\ TypeOK /\ RowsFollowStages /\ GuardStillHolds /\ ErasedStaysErased /\ ClosedStaysClosed
      /\ InHandIsFresh /\ RipeStaysThrough /\ ActiveIsCurrent
      /\ CompletedOnce /\ TagIsOwn /\ CompletedIsDone
  BY DEF IInv
<1>1. TypeOK'
  BY <1>0 DEF Finish, TypeOK, creators, bounds, flips, ghosts, bystanders
<1>2. RowsFollowStages'
  BY <1>0 DEF Finish, RowsFollowStages, Ahead, Pointed, creators
<1>3. GuardStillHolds'
  BY <1>0 DEF Finish, GuardStillHolds, Rivals, creators, ghosts, bystanders
<1>4. ClosedStaysClosed'
  BY <1>0 DEF Finish, ClosedStaysClosed, flips, ghosts, bystanders
<1>5. InHandIsFresh'
  BY <1>0 DEF Finish, InHandIsFresh, InHand, flips, ghosts, bystanders
<1>6. RipeStaysThrough'
  BY <1>0 DEF Finish, RipeStaysThrough, TasksIn, ghosts, bystanders
<1>7. ActiveIsCurrent'
  BY <1>0 DEF Finish, ActiveIsCurrent, Pointed, creators, ghosts, bystanders
<1>8. CompletedOnce'
  BY <1>0 DEF Finish, CompletedOnce, flips, ghosts, bystanders
<1>9. TagIsOwn'
  BY <1>0 DEF Finish, TagIsOwn, rows, flips, ghosts, bystanders
<1>10. CompletedIsDone'
  BY <1>0 DEF Finish, CompletedIsDone, TasksIn, ghosts, bystanders
<1>11. ErasedStaysErased'
  BY <1>0 DEF Finish, ErasedStaysErased, rows, ghosts, flips, bystanders
<1> QED BY <1>1, <1>2, <1>3, <1>4, <1>5, <1>6, <1>7, <1>8, <1>9, <1>10, <1>11 DEF IInv

LEMMA ReopenKeeps ==
    ASSUME IInv, NEW t \in Tasks, Reopen(t) PROVE IInv'
<1>0. /\ TypeOK /\ RowsFollowStages /\ GuardStillHolds /\ ErasedStaysErased /\ ClosedStaysClosed
      /\ InHandIsFresh /\ RipeStaysThrough /\ ActiveIsCurrent
      /\ CompletedOnce /\ TagIsOwn /\ CompletedIsDone
  BY DEF IInv
<1>1. TypeOK'
  BY <1>0 DEF Reopen, WriteOpen, TypeOK, creators, bounds, flips
<1>2. RowsFollowStages'
  BY <1>0 DEF Reopen, WriteOpen, RowsFollowStages, Ahead, Pointed, creators
<1>3. GuardStillHolds'
  BY <1>0 DEF Reopen, GuardStillHolds, Rivals, creators
<1>4. ClosedStaysClosed'
  BY <1>0 DEF Reopen, ClosedStaysClosed, flips
<1>5. InHandIsFresh'
  BY <1>0 DEF Reopen, InHandIsFresh, InHand, flips
<1>6. RipeStaysThrough'
  BY <1>0 DEF Reopen, WriteOpen, RipeStaysThrough, TasksIn
<1>7. ActiveIsCurrent'
  BY <1>0 DEF Reopen, ActiveIsCurrent, Pointed, creators
<1>8. CompletedOnce'
  BY <1>0 DEF Reopen, CompletedOnce, flips
<1>9. TagIsOwn'
  BY <1>0 DEF Reopen, TagIsOwn, rows, flips
<1>10. CompletedIsDone'
  BY <1>0 DEF Reopen, WriteOpen, CompletedIsDone, TasksIn
<1>11. ErasedStaysErased'
  BY <1>0 DEF Reopen, ErasedStaysErased, rows, ghosts, flips, bystanders
<1> QED BY <1>1, <1>2, <1>3, <1>4, <1>5, <1>6, <1>7, <1>8, <1>9, <1>10, <1>11 DEF IInv

LEMMA AddTaskKeeps ==
    ASSUME IInv, NEW t \in Tasks, AddTask(t) PROVE IInv'
<1>0. /\ TypeOK /\ RowsFollowStages /\ GuardStillHolds /\ ErasedStaysErased /\ ClosedStaysClosed
      /\ InHandIsFresh /\ RipeStaysThrough /\ ActiveIsCurrent
      /\ CompletedOnce /\ TagIsOwn /\ CompletedIsDone
  BY DEF IInv
<1>1. TypeOK'
  BY <1>0 DEF AddTask, TypeOK, creators, bounds, flips
<1>2. RowsFollowStages'
  BY <1>0 DEF AddTask, RowsFollowStages, Ahead, Pointed, Batch, creators
<1>3. GuardStillHolds'
  BY <1>0 DEF AddTask, GuardStillHolds, Rivals, creators
<1>4. ClosedStaysClosed'
  BY <1>0 DEF AddTask, ClosedStaysClosed, flips
<1>5. InHandIsFresh'
  BY <1>0 DEF AddTask, InHandIsFresh, InHand, flips
<1>6. RipeStaysThrough'
  BY <1>0 DEF AddTask, Decided, RipeStaysThrough, TasksIn
<1>7. ActiveIsCurrent'
  BY <1>0 DEF AddTask, ActiveIsCurrent, Pointed, creators
<1>8. CompletedOnce'
  BY <1>0 DEF AddTask, CompletedOnce, flips
<1>9. TagIsOwn'
  BY <1>0 DEF AddTask, TagIsOwn, rows, flips
<1>10. CompletedIsDone'
  BY <1>0 DEF AddTask, Decided, CompletedIsDone, TasksIn
<1>11. ErasedStaysErased'
  BY <1>0 DEF AddTask, ErasedStaysErased, rows, ghosts, flips, bystanders
<1> QED BY <1>1, <1>2, <1>3, <1>4, <1>5, <1>6, <1>7, <1>8, <1>9, <1>10, <1>11 DEF IInv

LEMMA StartCheckKeeps ==
    ASSUME IInv, NEW k \in Companies, StartCheck(k) PROVE IInv'
<1>0. /\ TypeOK /\ RowsFollowStages /\ GuardStillHolds /\ ErasedStaysErased /\ ClosedStaysClosed
      /\ InHandIsFresh /\ RipeStaysThrough /\ ActiveIsCurrent
      /\ CompletedOnce /\ TagIsOwn /\ CompletedIsDone
  BY DEF IInv
<1>1. TypeOK'
  BY <1>0, Shapes DEF StartCheck, RowsFirst, TasksFirst, TakeUp, Missing, Through, TypeOK, Lanes,
     Steps, Lane, creators, rows, bounds, bystanders
<1>2. RowsFollowStages'
  BY <1>0 DEF StartCheck, RowsFollowStages, Ahead, Pointed, creators, rows
<1>3. GuardStillHolds'
  BY <1>0 DEF StartCheck, GuardStillHolds, Rivals, creators, rows, bystanders
<1>4. ClosedStaysClosed'
  BY <1>0 DEF StartCheck, ClosedStaysClosed, rows, bystanders
<1>5. InHandIsFresh'
  BY <1>0 DEF StartCheck, RowsFirst, TasksFirst, TakeUp, Missing, TypeOK, InHandIsFresh, InHand,
     ClosedStaysClosed, rows, bystanders
<1>6. RipeStaysThrough'
  BY <1>0 DEF StartCheck, RowsFirst, TasksFirst, TakeUp, Missing, Through, TypeOK,
     RipeStaysThrough, TasksIn, Steps, rows, bystanders
<1>7. ActiveIsCurrent'
  BY <1>0 DEF StartCheck, ActiveIsCurrent, Pointed, creators, rows, bystanders
<1>8. CompletedOnce'
  BY <1>0 DEF StartCheck, CompletedOnce, bystanders
<1>9. TagIsOwn'
  BY <1>0 DEF StartCheck, RowsFirst, TasksFirst, TakeUp, TagIsOwn, rows, bystanders
<1>10. CompletedIsDone'
  BY <1>0 DEF StartCheck, CompletedIsDone, TasksIn, rows, bystanders
<1>11. ErasedStaysErased'
  BY <1>0 DEF StartCheck, ErasedStaysErased, rows, ghosts, flips, bystanders
<1> QED BY <1>1, <1>2, <1>3, <1>4, <1>5, <1>6, <1>7, <1>8, <1>9, <1>10, <1>11 DEF IInv

LEMMA StartRouteKeeps ==
    ASSUME IInv, NEW r \in Routes, NEW s \in Sprints, StartRoute(r, s) PROVE IInv'
<1>0. /\ TypeOK /\ RowsFollowStages /\ GuardStillHolds /\ ErasedStaysErased /\ ClosedStaysClosed
      /\ InHandIsFresh /\ RipeStaysThrough /\ ActiveIsCurrent
      /\ CompletedOnce /\ TagIsOwn /\ CompletedIsDone
  BY DEF IInv
<1>1. TypeOK'
  BY <1>0, Apart, Shapes DEF StartRoute, RowsFirst, TasksFirst, TakeUp, Missing, TypeOK, Lanes,
     Steps, Lane, creators, rows, bounds, bystanders
<1>2. RowsFollowStages'
  BY <1>0 DEF StartRoute, RowsFollowStages, Ahead, Pointed, creators, rows
<1>3. GuardStillHolds'
  BY <1>0 DEF StartRoute, GuardStillHolds, Rivals, creators, rows, bystanders
<1>4. ClosedStaysClosed'
  BY <1>0 DEF StartRoute, ClosedStaysClosed, rows, bystanders
<1>5. InHandIsFresh'
  BY <1>0, Apart DEF StartRoute, RowsFirst, TasksFirst, TakeUp, Missing, TypeOK, InHandIsFresh,
     InHand, ClosedStaysClosed, rows, bystanders
<1>6. RipeStaysThrough'
  BY <1>0, Apart DEF StartRoute, RowsFirst, TasksFirst, TakeUp, Through, TypeOK, RipeStaysThrough,
     TasksIn, Steps, rows, bystanders
<1>7. ActiveIsCurrent'
  BY <1>0 DEF StartRoute, ActiveIsCurrent, Pointed, creators, rows, bystanders
<1>8. CompletedOnce'
  BY <1>0 DEF StartRoute, CompletedOnce, bystanders
<1>9. TagIsOwn'
  BY <1>0 DEF StartRoute, RowsFirst, TasksFirst, TakeUp, TagIsOwn, rows, bystanders
<1>10. CompletedIsDone'
  BY <1>0 DEF StartRoute, CompletedIsDone, TasksIn, rows, bystanders
<1>11. ErasedStaysErased'
  BY <1>0 DEF StartRoute, ErasedStaysErased, rows, ghosts, flips, bystanders
<1> QED BY <1>1, <1>2, <1>3, <1>4, <1>5, <1>6, <1>7, <1>8, <1>9, <1>10, <1>11 DEF IInv

LEMMA ReadRowsKeeps ==
    ASSUME IInv, NEW l \in Lanes, ReadRows(l) PROVE IInv'
<1>0. /\ TypeOK /\ RowsFollowStages /\ GuardStillHolds /\ ErasedStaysErased /\ ClosedStaysClosed
      /\ InHandIsFresh /\ RipeStaysThrough /\ ActiveIsCurrent
      /\ CompletedOnce /\ TagIsOwn /\ CompletedIsDone
  BY DEF IInv
<1>1. TypeOK'
  BY <1>0, Shapes DEF ReadRows, TakeUp, GiveUp, TypeOK, Steps, Lane, NoLane, creators, rows,
     bounds, bystanders
<1>2. RowsFollowStages'
  BY <1>0 DEF ReadRows, RowsFollowStages, Ahead, Pointed, creators, rows
<1>3. GuardStillHolds'
  BY <1>0 DEF ReadRows, GuardStillHolds, Rivals, creators, rows, bystanders
<1>4. ClosedStaysClosed'
  BY <1>0 DEF ReadRows, ClosedStaysClosed, rows, bystanders
<1>5. InHandIsFresh'
  BY <1>0 DEF ReadRows, TakeUp, Missing, GiveUp, TypeOK, InHandIsFresh, InHand, ClosedStaysClosed,
     NoLane, rows, bystanders
<1>6. RipeStaysThrough'
  BY <1>0 DEF ReadRows, TakeUp, Missing, GiveUp, TypeOK, RipeStaysThrough, TasksIn, NoLane, rows,
     bystanders
<1>7. ActiveIsCurrent'
  BY <1>0 DEF ReadRows, ActiveIsCurrent, Pointed, creators, rows, bystanders
<1>8. CompletedOnce'
  BY <1>0 DEF ReadRows, CompletedOnce, bystanders
<1>9. TagIsOwn'
  BY <1>0 DEF ReadRows, TakeUp, TagIsOwn, rows, bystanders
<1>10. CompletedIsDone'
  BY <1>0 DEF ReadRows, CompletedIsDone, TasksIn, rows, bystanders
<1>11. ErasedStaysErased'
  BY <1>0 DEF ReadRows, ErasedStaysErased, rows, ghosts, flips, bystanders
<1> QED BY <1>1, <1>2, <1>3, <1>4, <1>5, <1>6, <1>7, <1>8, <1>9, <1>10, <1>11 DEF IInv

LEMMA ReadTasksKeeps ==
    ASSUME IInv, NEW l \in Lanes, ReadTasks(l) PROVE IInv'
<1>0. /\ TypeOK /\ RowsFollowStages /\ GuardStillHolds /\ ErasedStaysErased /\ ClosedStaysClosed
      /\ InHandIsFresh /\ RipeStaysThrough /\ ActiveIsCurrent
      /\ CompletedOnce /\ TagIsOwn /\ CompletedIsDone
  BY DEF IInv
<1>a. lane[l].sprint \in Sprints
  BY <1>0 DEF ReadTasks, TypeOK, Lane, RipeStaysThrough
<1>1. TypeOK'
  <2>a. lane[l] \in Lane
    BY <1>0 DEF TypeOK
  <2>b. [lane[l] EXCEPT !.at = "deploying", !.ripe = {lane[l].sprint}] \in Lane
    BY <1>a, <2>a DEF Lane, Steps
  <2>c. NoLane \in Lane
    BY DEF Lane, NoLane, Steps
  <2>1. [lane[l] EXCEPT !.at = "deploying", !.ripe = {lane[l].sprint}] \in Lane /\ NoLane \in Lane
    BY <2>b, <2>c
  <2>2. lane' \in [Lanes -> Lane]
    BY <1>0, <2>1 DEF ReadTasks, GiveUp, TypeOK
  <2> QED BY <1>0, <2>2 DEF ReadTasks, TypeOK, creators, rows, bounds, ghosts, flips, bystanders
<1>2. RowsFollowStages'
  BY <1>0, <1>a DEF ReadTasks, RowsFollowStages, Ahead, Pointed, creators, rows
<1>3. GuardStillHolds'
  BY <1>0, <1>a DEF ReadTasks, GuardStillHolds, Rivals, creators, rows, ghosts, bystanders
<1>4. ClosedStaysClosed'
  BY <1>0, <1>a DEF ReadTasks, ClosedStaysClosed, rows, flips, ghosts, bystanders
<1>5. InHandIsFresh'
  <2>1. ASSUME NEW m \in Lanes, NEW u \in Sprints, InHand(m, u)' PROVE InHand(m, u)
    <3>1. CASE m # l
      BY <1>0, <2>1, <3>1 DEF ReadTasks, GiveUp, InHand, TypeOK
    <3>2. CASE m = l /\ GiveUp(l)
      BY <1>0, <2>1, <3>2 DEF GiveUp, InHand, NoLane
    <3>3. CASE m = l /\ lane' = [lane EXCEPT ![l].at = "deploying", ![l].ripe = {lane[l].sprint}]
      <4>1. lane[l] \in Lane /\ lane[l].at = "rows"
        BY <1>0 DEF TypeOK, ReadTasks
      <4>2. lane'[l].sprint = lane[l].sprint
        BY <1>0, <3>3, <4>1 DEF TypeOK, Lane
      <4> QED BY <2>1, <3>3, <4>1, <4>2 DEF InHand
    <3> QED BY <3>1, <3>2, <3>3 DEF ReadTasks
  <2> QED BY <1>0, <2>1 DEF ReadTasks, InHandIsFresh, rows, ghosts, flips, bystanders
<1>6. RipeStaysThrough'
  BY <1>0, <1>a DEF ReadTasks, GiveUp, TypeOK, RipeStaysThrough, TasksIn, NoLane, Lane, rows,
     ghosts, bystanders
<1>7. ActiveIsCurrent'
  BY <1>0, <1>a DEF ReadTasks, ActiveIsCurrent, Pointed, creators, rows, ghosts, bystanders
<1>8. CompletedOnce'
  BY <1>0, <1>a DEF ReadTasks, CompletedOnce, flips, ghosts, bystanders
<1>9. TagIsOwn'
  BY <1>0, <1>a DEF ReadTasks, TagIsOwn, rows, flips, ghosts, bystanders
<1>10. CompletedIsDone'
  BY <1>0, <1>a DEF ReadTasks, CompletedIsDone, TasksIn, rows, ghosts, bystanders
<1>11. ErasedStaysErased'
  BY <1>0, <1>a DEF ReadTasks, ErasedStaysErased, rows, ghosts, flips, bystanders
<1> QED BY <1>1, <1>2, <1>3, <1>4, <1>5, <1>6, <1>7, <1>8, <1>9, <1>10, <1>11 DEF IInv

LEMMA TagKeeps ==
    ASSUME IInv, NEW l \in Lanes, Tag(l) PROVE IInv'
<1>0. /\ TypeOK /\ RowsFollowStages /\ GuardStillHolds /\ ErasedStaysErased /\ ClosedStaysClosed
      /\ InHandIsFresh /\ RipeStaysThrough /\ ActiveIsCurrent
      /\ CompletedOnce /\ TagIsOwn /\ CompletedIsDone
  BY DEF IInv
<1>a. lane[l].sprint \in Sprints
  BY <1>0 DEF Tag, TypeOK, Lane, RipeStaysThrough
<1>1. TypeOK'
  <2>1. [lane[l] EXCEPT !.at = "closing"] \in Lane
    BY <1>0, <1>a DEF TypeOK, Lane, NoLane, Steps
  <2>2. lane' \in [Lanes -> Lane]
    BY <1>0, <2>1 DEF Tag, TypeOK
  <2>3. mistagged' \in SUBSET Sprints
    BY <1>0, <1>a DEF Tag, TypeOK
  <2> QED BY <1>0, <2>2, <2>3 DEF Tag, TypeOK, creators, rows, bounds, bystanders
<1>2. RowsFollowStages'
  BY <1>0, <1>a DEF Tag, RowsFollowStages, Ahead, Pointed, creators, rows
<1>3. GuardStillHolds'
  BY <1>0, <1>a DEF Tag, GuardStillHolds, Rivals, creators, rows, bystanders
<1>4. ClosedStaysClosed'
  BY <1>0, <1>a DEF Tag, ClosedStaysClosed, rows, bystanders
<1>5. InHandIsFresh'
  BY <1>0, <1>a DEF Tag, InHandIsFresh, InHand, rows, bystanders
<1>6. RipeStaysThrough'
  BY <1>0, <1>a DEF Tag, RipeStaysThrough, TasksIn, rows, bystanders
<1>7. ActiveIsCurrent'
  BY <1>0, <1>a DEF Tag, ActiveIsCurrent, Pointed, creators, rows, bystanders
<1>8. CompletedOnce'
  BY <1>0, <1>a DEF Tag, CompletedOnce, bystanders
<1>9. TagIsOwn'
  <2>1. InHand(l, lane[l].sprint)
    BY DEF Tag, InHand
  <2> QED BY <1>0, <1>a, <2>1 DEF Tag, TagIsOwn, InHandIsFresh, rows, bystanders
<1>10. CompletedIsDone'
  BY <1>0, <1>a DEF Tag, CompletedIsDone, TasksIn, rows, bystanders
<1>11. ErasedStaysErased'
  BY <1>0, <1>a DEF Tag, ErasedStaysErased, rows, ghosts, flips, bystanders
<1> QED BY <1>1, <1>2, <1>3, <1>4, <1>5, <1>6, <1>7, <1>8, <1>9, <1>10, <1>11 DEF IInv

LEMMA CloseKeeps ==
    ASSUME IInv, NEW l \in Lanes, Close(l) PROVE IInv'
<1>0. /\ TypeOK /\ RowsFollowStages /\ GuardStillHolds /\ ErasedStaysErased /\ ClosedStaysClosed
      /\ InHandIsFresh /\ RipeStaysThrough /\ ActiveIsCurrent
      /\ CompletedOnce /\ TagIsOwn /\ CompletedIsDone
  BY DEF IInv
<1> DEFINE s == lane[l].sprint
<1>a. s \in Sprints /\ InHand(l, s) /\ s \in lane[l].ripe
  BY <1>0 DEF Close, InHand, TypeOK, Lane, RipeStaysThrough
<1>b. /\ sprint' \in [Sprints -> Statuses]
      /\ \A u \in Sprints \ {s} : sprint'[u] = sprint[u]
      /\ sprint'[s] = IF sprint[s] = "deleted" THEN "deleted" ELSE "completed"
  BY <1>0, <1>a DEF Close, TypeOK, Statuses
<1>c. /\ closed' = IF sprint[s] = "deleted" THEN closed ELSE closed \cup {s}
      /\ reclosed' \in {reclosed, reclosed \cup ({s} \cap closed)}
      /\ doubled' \in {doubled, doubled \cup {s}}
      /\ sprint[s] # "deleted" /\ (\E m \in Lanes \ {l} : InHand(m, s)) => s \in doubled'
  BY DEF Close
<1>d. /\ lane' = [lane EXCEPT ![l] = [NoLane EXCEPT !.at = "announcing"]]
      /\ UNCHANGED <<creators, current, task, erase, bounds, mistagged, outside, bystanders>>
  BY DEF Close
<1> HIDE DEF s
<1>1. TypeOK'
  <2>1. [NoLane EXCEPT !.at = "announcing"] \in Lane
    BY DEF Lane, NoLane, Steps
  <2>2. lane' \in [Lanes -> Lane]
    BY <1>0, <1>d, <2>1 DEF TypeOK
  <2>3. closed' \in SUBSET Sprints /\ reclosed' \in SUBSET Sprints /\ doubled' \in SUBSET Sprints
    BY <1>0, <1>a, <1>c DEF TypeOK
  <2> QED BY <1>0, <1>b, <1>d, <2>2, <2>3 DEF TypeOK, creators, bounds, bystanders
<1>2. RowsFollowStages'
  <2>1. sprint[s] # "none"
    BY <1>0, <1>a DEF InHandIsFresh
  <2> QED BY <1>0, <1>a, <1>b, <1>d, <2>1 DEF RowsFollowStages, Ahead, Pointed, creators
<1>3. GuardStillHolds'
  BY <1>0, <1>b, <1>d, Shapes, Apart DEF TypeOK, GuardStillHolds, Rivals, creators, bystanders
<1>4. ClosedStaysClosed'
  BY <1>0, <1>a, <1>b, <1>c, <1>d DEF TypeOK, ClosedStaysClosed, bystanders
<1>5. InHandIsFresh'
  <2>1. ASSUME NEW m \in Lanes, NEW u \in Sprints, InHand(m, u)' PROVE m # l /\ InHand(m, u)
    BY <1>0, <1>d, <2>1 DEF TypeOK, InHand
  <2> QED BY <1>0, <1>a, <1>b, <1>c, <1>d, <2>1 DEF InHandIsFresh, bystanders
<1>6. RipeStaysThrough'
  BY <1>0, <1>d DEF RipeStaysThrough, TasksIn, NoLane, bystanders
<1>7. ActiveIsCurrent'
  BY <1>0, <1>b, <1>d DEF ActiveIsCurrent, Pointed, creators, bystanders
<1>8. CompletedOnce'
  BY <1>0, <1>a, <1>c, <1>d DEF CompletedOnce, InHandIsFresh, bystanders
<1>9. TagIsOwn'
  BY <1>0, <1>b, <1>c, <1>d DEF TypeOK, TagIsOwn, bystanders
<1>10. CompletedIsDone'
  BY <1>0, <1>a, <1>b, <1>d DEF CompletedIsDone, RipeStaysThrough, TasksIn, bystanders
<1>11. ErasedStaysErased'
  BY <1>0, <1>b, <1>d DEF ErasedStaysErased, bystanders
<1> QED BY <1>1, <1>2, <1>3, <1>4, <1>5, <1>6, <1>7, <1>8, <1>9, <1>10, <1>11 DEF IInv

LEMMA AnnounceKeeps ==
    ASSUME IInv, NEW l \in Lanes, Announce(l) PROVE IInv'
<1>0. /\ TypeOK /\ RowsFollowStages /\ GuardStillHolds /\ ErasedStaysErased /\ ClosedStaysClosed
      /\ InHandIsFresh /\ RipeStaysThrough /\ ActiveIsCurrent
      /\ CompletedOnce /\ TagIsOwn /\ CompletedIsDone
  BY DEF IInv
<1>1. TypeOK'
  BY <1>0 DEF Announce, TypeOK, Steps, Lane, NoLane, creators, rows, bounds, flips, ghosts,
     bystanders
<1>2. RowsFollowStages'
  BY <1>0 DEF Announce, RowsFollowStages, Ahead, Pointed, creators, rows
<1>3. GuardStillHolds'
  BY <1>0 DEF Announce, GuardStillHolds, Rivals, creators, rows, ghosts, bystanders
<1>4. ClosedStaysClosed'
  BY <1>0 DEF Announce, ClosedStaysClosed, rows, flips, ghosts, bystanders
<1>5. InHandIsFresh'
  BY <1>0 DEF Announce, InHandIsFresh, InHand, NoLane, rows, flips, ghosts, bystanders
<1>6. RipeStaysThrough'
  BY <1>0 DEF Announce, RipeStaysThrough, TasksIn, NoLane, rows, ghosts, bystanders
<1>7. ActiveIsCurrent'
  BY <1>0 DEF Announce, ActiveIsCurrent, Pointed, creators, rows, ghosts, bystanders
<1>8. CompletedOnce'
  BY <1>0 DEF Announce, CompletedOnce, flips, ghosts, bystanders
<1>9. TagIsOwn'
  BY <1>0 DEF Announce, TagIsOwn, rows, flips, ghosts, bystanders
<1>10. CompletedIsDone'
  BY <1>0 DEF Announce, CompletedIsDone, TasksIn, rows, ghosts, bystanders
<1>11. ErasedStaysErased'
  BY <1>0 DEF Announce, ErasedStaysErased, rows, ghosts, flips, bystanders
<1> QED BY <1>1, <1>2, <1>3, <1>4, <1>5, <1>6, <1>7, <1>8, <1>9, <1>10, <1>11 DEF IInv

LEMMA FinalizeFailsKeeps ==
    ASSUME IInv, NEW l \in Lanes, FinalizeFails(l) PROVE IInv'
<1>0. /\ TypeOK /\ RowsFollowStages /\ GuardStillHolds /\ ErasedStaysErased /\ ClosedStaysClosed
      /\ InHandIsFresh /\ RipeStaysThrough /\ ActiveIsCurrent
      /\ CompletedOnce /\ TagIsOwn /\ CompletedIsDone
  BY DEF IInv
<1>1. TypeOK'
  BY <1>0, Bounds DEF FinalizeFails, TypeOK, Steps, Lane, NoLane, creators, rows, flips, ghosts,
     bystanders
<1>2. RowsFollowStages'
  BY <1>0 DEF FinalizeFails, RowsFollowStages, Ahead, Pointed, creators, rows
<1>3. GuardStillHolds'
  BY <1>0 DEF FinalizeFails, GuardStillHolds, Rivals, creators, rows, ghosts, bystanders
<1>4. ClosedStaysClosed'
  BY <1>0 DEF FinalizeFails, ClosedStaysClosed, rows, flips, ghosts, bystanders
<1>5. InHandIsFresh'
  BY <1>0 DEF FinalizeFails, InHandIsFresh, InHand, NoLane, rows, flips, ghosts, bystanders
<1>6. RipeStaysThrough'
  BY <1>0 DEF FinalizeFails, RipeStaysThrough, TasksIn, NoLane, rows, ghosts, bystanders
<1>7. ActiveIsCurrent'
  BY <1>0 DEF FinalizeFails, ActiveIsCurrent, Pointed, creators, rows, ghosts, bystanders
<1>8. CompletedOnce'
  BY <1>0 DEF FinalizeFails, CompletedOnce, flips, ghosts, bystanders
<1>9. TagIsOwn'
  BY <1>0 DEF FinalizeFails, TagIsOwn, rows, flips, ghosts, bystanders
<1>10. CompletedIsDone'
  BY <1>0 DEF FinalizeFails, CompletedIsDone, TasksIn, rows, ghosts, bystanders
<1>11. ErasedStaysErased'
  BY <1>0 DEF FinalizeFails, ErasedStaysErased, rows, ghosts, flips, bystanders
<1> QED BY <1>1, <1>2, <1>3, <1>4, <1>5, <1>6, <1>7, <1>8, <1>9, <1>10, <1>11 DEF IInv

LEMMA GoneKeeps ==
    ASSUME IInv, NEW l \in Lanes, Gone(l) PROVE IInv'
<1>0. /\ TypeOK /\ RowsFollowStages /\ GuardStillHolds /\ ErasedStaysErased /\ ClosedStaysClosed
      /\ InHandIsFresh /\ RipeStaysThrough /\ ActiveIsCurrent
      /\ CompletedOnce /\ TagIsOwn /\ CompletedIsDone
  BY DEF IInv
<1>1. TypeOK'
  BY <1>0, Bounds, Shapes DEF Gone, GiveUp, TypeOK, Statuses, Steps, Lane, NoLane, creators,
     rows, bounds, ghosts, flips, bystanders
<1>2. RowsFollowStages'
  BY <1>0, Shapes DEF Gone, GiveUp, RowsFollowStages, TypeOK, Ahead, Pointed, Batch, creators, rows
<1>3. GuardStillHolds'
  BY <1>0 DEF Gone, GiveUp, GuardStillHolds, TypeOK, RowsFollowStages, Rivals, creators, rows,
     ghosts, bystanders
<1>4. ClosedStaysClosed'
  BY <1>0 DEF Gone, GiveUp, ClosedStaysClosed, TypeOK, rows, ghosts, flips, bystanders
<1>5. InHandIsFresh'
  BY <1>0 DEF Gone, GiveUp, InHandIsFresh, TypeOK, InHand, NoLane, ErasedStaysErased, rows,
     ghosts, flips, bystanders
<1>6. RipeStaysThrough'
  BY <1>0 DEF Gone, GiveUp, RipeStaysThrough, TypeOK, TasksIn, NoLane, rows, ghosts, bystanders
<1>7. ActiveIsCurrent'
  BY <1>0 DEF Gone, GiveUp, ActiveIsCurrent, TypeOK, ErasedStaysErased, Pointed, creators,
     rows, ghosts, bystanders
<1>8. CompletedOnce'
  BY <1>0 DEF Gone, GiveUp, CompletedOnce, ghosts, flips, bystanders
<1>9. TagIsOwn'
  BY <1>0 DEF Gone, GiveUp, TagIsOwn, TypeOK, rows, ghosts, flips, bystanders
<1>10. CompletedIsDone'
  BY <1>0 DEF Gone, GiveUp, CompletedIsDone, TypeOK, TasksIn, rows, ghosts, bystanders
<1>11. ErasedStaysErased'
  BY <1>0 DEF Gone, GiveUp, ErasedStaysErased, TypeOK, rows, ghosts, bystanders
<1> QED BY <1>1, <1>2, <1>3, <1>4, <1>5, <1>6, <1>7, <1>8, <1>9, <1>10, <1>11 DEF IInv

LEMMA DeleteKeeps ==
    ASSUME IInv, NEW s \in Sprints, Delete(s) PROVE IInv'
<1>0. /\ TypeOK /\ RowsFollowStages /\ GuardStillHolds /\ ErasedStaysErased /\ ClosedStaysClosed
      /\ InHandIsFresh /\ RipeStaysThrough /\ ActiveIsCurrent
      /\ CompletedOnce /\ TagIsOwn /\ CompletedIsDone
  BY DEF IInv
<1>1. TypeOK'
  BY <1>0, Bounds, Shapes DEF Delete, TypeOK, Statuses, Steps, Lane, NoLane, creators, rows,
     bounds, ghosts, flips, bystanders
<1>2. RowsFollowStages'
  BY <1>0, Shapes DEF Delete, RowsFollowStages, TypeOK, Ahead, Pointed, Batch, creators, rows
<1>3. GuardStillHolds'
  BY <1>0 DEF Delete, GuardStillHolds, TypeOK, RowsFollowStages, Rivals, creators, rows,
     ghosts, bystanders
<1>4. ClosedStaysClosed'
  BY <1>0 DEF Delete, ClosedStaysClosed, TypeOK, rows, ghosts, flips, bystanders
<1>5. InHandIsFresh'
  BY <1>0 DEF Delete, InHandIsFresh, TypeOK, InHand, NoLane, ErasedStaysErased, rows, ghosts,
     flips, bystanders
<1>6. RipeStaysThrough'
  BY <1>0 DEF Delete, RipeStaysThrough, TypeOK, TasksIn, NoLane, rows, ghosts, bystanders
<1>7. ActiveIsCurrent'
  BY <1>0 DEF Delete, ActiveIsCurrent, TypeOK, ErasedStaysErased, Pointed, creators, rows,
     ghosts, bystanders
<1>8. CompletedOnce'
  BY <1>0 DEF Delete, CompletedOnce, ghosts, flips, bystanders
<1>9. TagIsOwn'
  BY <1>0 DEF Delete, TagIsOwn, TypeOK, rows, ghosts, flips, bystanders
<1>10. CompletedIsDone'
  BY <1>0 DEF Delete, CompletedIsDone, TypeOK, TasksIn, rows, ghosts, bystanders
<1>11. ErasedStaysErased'
  BY <1>0 DEF Delete, ErasedStaysErased, TypeOK, rows, ghosts, bystanders
<1> QED BY <1>1, <1>2, <1>3, <1>4, <1>5, <1>6, <1>7, <1>8, <1>9, <1>10, <1>11 DEF IInv

LEMMA SeePointerKeeps ==
    ASSUME IInv, NEW s \in Sprints, SeePointer(s) PROVE IInv'
<1>0. /\ TypeOK /\ RowsFollowStages /\ GuardStillHolds /\ ErasedStaysErased /\ ClosedStaysClosed
      /\ InHandIsFresh /\ RipeStaysThrough /\ ActiveIsCurrent
      /\ CompletedOnce /\ TagIsOwn /\ CompletedIsDone
  BY DEF IInv
<1>1. TypeOK'
  BY <1>0, Bounds, Shapes DEF SeePointer, TypeOK, Statuses, Steps, Lane, NoLane, creators,
     rows, bounds, ghosts, flips, bystanders
<1>2. RowsFollowStages'
  BY <1>0, Shapes DEF SeePointer, RowsFollowStages, TypeOK, Ahead, Pointed, Batch, creators, rows
<1>3. GuardStillHolds'
  BY <1>0 DEF SeePointer, GuardStillHolds, TypeOK, RowsFollowStages, Rivals, creators, rows,
     ghosts, bystanders
<1>4. ClosedStaysClosed'
  BY <1>0 DEF SeePointer, ClosedStaysClosed, TypeOK, rows, ghosts, flips, bystanders
<1>5. InHandIsFresh'
  BY <1>0 DEF SeePointer, InHandIsFresh, TypeOK, InHand, NoLane, ErasedStaysErased, rows,
     ghosts, flips, bystanders
<1>6. RipeStaysThrough'
  BY <1>0 DEF SeePointer, RipeStaysThrough, TypeOK, TasksIn, NoLane, rows, ghosts, bystanders
<1>7. ActiveIsCurrent'
  BY <1>0 DEF SeePointer, ActiveIsCurrent, TypeOK, ErasedStaysErased, Pointed, creators, rows,
     ghosts, bystanders
<1>8. CompletedOnce'
  BY <1>0 DEF SeePointer, CompletedOnce, ghosts, flips, bystanders
<1>9. TagIsOwn'
  BY <1>0 DEF SeePointer, TagIsOwn, TypeOK, rows, ghosts, flips, bystanders
<1>10. CompletedIsDone'
  BY <1>0 DEF SeePointer, CompletedIsDone, TypeOK, TasksIn, rows, ghosts, bystanders
<1>11. ErasedStaysErased'
  BY <1>0 DEF SeePointer, ErasedStaysErased, TypeOK, rows, ghosts, bystanders
<1> QED BY <1>1, <1>2, <1>3, <1>4, <1>5, <1>6, <1>7, <1>8, <1>9, <1>10, <1>11 DEF IInv

LEMMA ClearPointerKeeps ==
    ASSUME IInv, NEW s \in Sprints, ClearPointer(s) PROVE IInv'
<1>0. /\ TypeOK /\ RowsFollowStages /\ GuardStillHolds /\ ErasedStaysErased /\ ClosedStaysClosed
      /\ InHandIsFresh /\ RipeStaysThrough /\ ActiveIsCurrent
      /\ CompletedOnce /\ TagIsOwn /\ CompletedIsDone
  BY DEF IInv
<1>1. TypeOK'
  BY <1>0, Bounds, Shapes DEF ClearPointer, TypeOK, Statuses, Steps, Lane, NoLane, creators,
     rows, bounds, ghosts, flips, bystanders
<1>2. RowsFollowStages'
  BY <1>0, Shapes DEF ClearPointer, RowsFollowStages, TypeOK, Ahead, Pointed, Batch, creators, rows
<1>3. GuardStillHolds'
  BY <1>0 DEF ClearPointer, GuardStillHolds, TypeOK, RowsFollowStages, Rivals, creators, rows,
     ghosts, bystanders
<1>4. ClosedStaysClosed'
  BY <1>0 DEF ClearPointer, ClosedStaysClosed, TypeOK, rows, ghosts, flips, bystanders
<1>5. InHandIsFresh'
  BY <1>0 DEF ClearPointer, InHandIsFresh, TypeOK, InHand, NoLane, ErasedStaysErased, rows,
     ghosts, flips, bystanders
<1>6. RipeStaysThrough'
  BY <1>0 DEF ClearPointer, RipeStaysThrough, TypeOK, TasksIn, NoLane, rows, ghosts, bystanders
<1>7. ActiveIsCurrent'
  BY <1>0 DEF ClearPointer, ActiveIsCurrent, TypeOK, ErasedStaysErased, Pointed, creators,
     rows, ghosts, bystanders
<1>8. CompletedOnce'
  BY <1>0 DEF ClearPointer, CompletedOnce, ghosts, flips, bystanders
<1>9. TagIsOwn'
  BY <1>0 DEF ClearPointer, TagIsOwn, TypeOK, rows, ghosts, flips, bystanders
<1>10. CompletedIsDone'
  BY <1>0 DEF ClearPointer, CompletedIsDone, TypeOK, TasksIn, rows, ghosts, bystanders
<1>11. ErasedStaysErased'
  BY <1>0 DEF ClearPointer, ErasedStaysErased, TypeOK, rows, ghosts, bystanders
<1> QED BY <1>1, <1>2, <1>3, <1>4, <1>5, <1>6, <1>7, <1>8, <1>9, <1>10, <1>11 DEF IInv

LEMMA DeleteFailsKeeps ==
    ASSUME IInv, NEW s \in Sprints, DeleteFails(s) PROVE IInv'
<1>0. /\ TypeOK /\ RowsFollowStages /\ GuardStillHolds /\ ErasedStaysErased /\ ClosedStaysClosed
      /\ InHandIsFresh /\ RipeStaysThrough /\ ActiveIsCurrent
      /\ CompletedOnce /\ TagIsOwn /\ CompletedIsDone
  BY DEF IInv
<1>1. TypeOK'
  BY <1>0, Bounds, Shapes DEF DeleteFails, TypeOK, Statuses, Steps, Lane, NoLane, creators,
     rows, bounds, ghosts, flips, bystanders
<1>2. RowsFollowStages'
  BY <1>0, Shapes DEF DeleteFails, RowsFollowStages, TypeOK, Ahead, Pointed, Batch, creators, rows
<1>3. GuardStillHolds'
  BY <1>0 DEF DeleteFails, GuardStillHolds, TypeOK, RowsFollowStages, Rivals, creators, rows,
     ghosts, bystanders
<1>4. ClosedStaysClosed'
  BY <1>0 DEF DeleteFails, ClosedStaysClosed, TypeOK, rows, ghosts, flips, bystanders
<1>5. InHandIsFresh'
  BY <1>0 DEF DeleteFails, InHandIsFresh, TypeOK, InHand, NoLane, ErasedStaysErased, rows,
     ghosts, flips, bystanders
<1>6. RipeStaysThrough'
  BY <1>0 DEF DeleteFails, RipeStaysThrough, TypeOK, TasksIn, NoLane, rows, ghosts, bystanders
<1>7. ActiveIsCurrent'
  BY <1>0 DEF DeleteFails, ActiveIsCurrent, TypeOK, ErasedStaysErased, Pointed, creators,
     rows, ghosts, bystanders
<1>8. CompletedOnce'
  BY <1>0 DEF DeleteFails, CompletedOnce, ghosts, flips, bystanders
<1>9. TagIsOwn'
  BY <1>0 DEF DeleteFails, TagIsOwn, TypeOK, rows, ghosts, flips, bystanders
<1>10. CompletedIsDone'
  BY <1>0 DEF DeleteFails, CompletedIsDone, TypeOK, TasksIn, rows, ghosts, bystanders
<1>11. ErasedStaysErased'
  BY <1>0 DEF DeleteFails, ErasedStaysErased, TypeOK, rows, ghosts, bystanders
<1> QED BY <1>1, <1>2, <1>3, <1>4, <1>5, <1>6, <1>7, <1>8, <1>9, <1>10, <1>11 DEF IInv

LEMMA RestoreCompanyKeeps ==
    ASSUME IInv, NEW k \in Companies, RestoreCompany(k) PROVE IInv'
<1>0. /\ TypeOK /\ RowsFollowStages /\ GuardStillHolds /\ ErasedStaysErased /\ ClosedStaysClosed
      /\ InHandIsFresh /\ RipeStaysThrough /\ ActiveIsCurrent
      /\ CompletedOnce /\ TagIsOwn /\ CompletedIsDone
  BY DEF IInv
<1>1. TypeOK'
  BY <1>0, Bounds, Shapes DEF RestoreCompany, TypeOK, Statuses, Steps, Lane, NoLane, creators,
     rows, bounds, ghosts, flips, bystanders
<1>2. RowsFollowStages'
  BY <1>0, Shapes DEF RestoreCompany, RowsFollowStages, TypeOK, Ahead, Pointed, Batch,
     creators, rows
<1>3. GuardStillHolds'
  BY <1>0 DEF RestoreCompany, GuardStillHolds, TypeOK, RowsFollowStages, Rivals, creators,
     rows, ghosts, bystanders
<1>4. ClosedStaysClosed'
  BY <1>0 DEF RestoreCompany, ClosedStaysClosed, TypeOK, rows, ghosts, flips, bystanders
<1>5. InHandIsFresh'
  BY <1>0 DEF RestoreCompany, InHandIsFresh, TypeOK, InHand, NoLane, ErasedStaysErased, rows,
     ghosts, flips, bystanders
<1>6. RipeStaysThrough'
  BY <1>0 DEF RestoreCompany, RipeStaysThrough, TypeOK, TasksIn, NoLane, rows, ghosts, bystanders
<1>7. ActiveIsCurrent'
  BY <1>0 DEF RestoreCompany, ActiveIsCurrent, TypeOK, ErasedStaysErased, Pointed, creators,
     rows, ghosts, bystanders
<1>8. CompletedOnce'
  BY <1>0 DEF RestoreCompany, CompletedOnce, ghosts, flips, bystanders
<1>9. TagIsOwn'
  BY <1>0 DEF RestoreCompany, TagIsOwn, TypeOK, rows, ghosts, flips, bystanders
<1>10. CompletedIsDone'
  BY <1>0 DEF RestoreCompany, CompletedIsDone, TypeOK, TasksIn, rows, ghosts, bystanders
<1>11. ErasedStaysErased'
  BY <1>0 DEF RestoreCompany, ErasedStaysErased, TypeOK, rows, ghosts, bystanders
<1> QED BY <1>1, <1>2, <1>3, <1>4, <1>5, <1>6, <1>7, <1>8, <1>9, <1>10, <1>11 DEF IInv

LEMMA RestoreSprintKeeps ==
    ASSUME IInv, NEW s \in Sprints, NEW status \in {"planning", "executing", "completed"},
           RestoreSprint(s, status) PROVE IInv'
<1>0. /\ TypeOK /\ RowsFollowStages /\ GuardStillHolds /\ ErasedStaysErased /\ ClosedStaysClosed
      /\ InHandIsFresh /\ RipeStaysThrough /\ ActiveIsCurrent
      /\ CompletedOnce /\ TagIsOwn /\ CompletedIsDone
  BY DEF IInv
<1>a. /\ sprint' \in [Sprints -> Statuses] /\ reactivated' \subseteq Sprints
      /\ \A u \in Sprints \ {s} : sprint'[u] = sprint[u]
      /\ sprint'[s] = status
      /\ reactivated \subseteq reactivated' /\ reactivated' \subseteq reactivated \cup {s}
      /\ sprint[s] \in {"completed", "deleted"} \ {sprint'[s]} => s \in reactivated'
  BY <1>0 DEF RestoreSprint, Write, TypeOK, Statuses
<1>1. TypeOK'
  <2>1. late' \in SUBSET Tasks /\ stale' \in 0 .. MaxStale
    BY <1>0, Bounds DEF RestoreSprint, TypeOK, TasksIn
  <2> QED BY <1>0, <1>a, <2>1 DEF RestoreSprint, TypeOK, creators, flips
<1>2. RowsFollowStages'
  BY <1>0, <1>a, Shapes DEF RestoreSprint, RowsFollowStages, TypeOK, Ahead, Pointed, Batch,
     creators, rows
<1>3. GuardStillHolds'
  BY <1>0, <1>a, Shapes, Apart DEF RestoreSprint, GuardStillHolds, TypeOK, RowsFollowStages,
     Rivals, creators, rows, ghosts, bystanders
<1>4. ClosedStaysClosed'
  BY <1>0, <1>a DEF RestoreSprint, ClosedStaysClosed, TypeOK, rows, ghosts, flips, bystanders
<1>5. InHandIsFresh'
  BY <1>0, <1>a DEF RestoreSprint, InHandIsFresh, TypeOK, InHand, NoLane, ErasedStaysErased,
     rows, ghosts, flips, bystanders
<1>6. RipeStaysThrough'
  BY <1>0, <1>a DEF RestoreSprint, RipeStaysThrough, TypeOK, TasksIn, NoLane, rows, ghosts,
     bystanders
<1>7. ActiveIsCurrent'
  BY <1>0, <1>a DEF RestoreSprint, ActiveIsCurrent, TypeOK, Statuses, ErasedStaysErased,
     Pointed, creators, rows, ghosts, bystanders
<1>8. CompletedOnce'
  BY <1>0, <1>a DEF RestoreSprint, CompletedOnce, ghosts, flips, bystanders
<1>9. TagIsOwn'
  BY <1>0, <1>a DEF RestoreSprint, TagIsOwn, TypeOK, rows, ghosts, flips, bystanders
<1>10. CompletedIsDone'
  BY <1>0, <1>a DEF RestoreSprint, CompletedIsDone, TypeOK, TasksIn, rows, ghosts, bystanders
<1>11. ErasedStaysErased'
  BY <1>0, <1>a DEF RestoreSprint, ErasedStaysErased, TypeOK, rows, ghosts, bystanders
<1> QED BY <1>1, <1>2, <1>3, <1>4, <1>5, <1>6, <1>7, <1>8, <1>9, <1>10, <1>11 DEF IInv

LEMMA CrashKeeps ==
    ASSUME IInv, Crash PROVE IInv'
<1>0. /\ TypeOK /\ RowsFollowStages /\ GuardStillHolds /\ ErasedStaysErased /\ ClosedStaysClosed
      /\ InHandIsFresh /\ RipeStaysThrough /\ ActiveIsCurrent
      /\ CompletedOnce /\ TagIsOwn /\ CompletedIsDone
  BY DEF IInv
<1>1. TypeOK'
  BY <1>0, Bounds DEF Crash, TypeOK, Stages, Steps, Lane, NoLane, rows, flips, ghosts, bystanders
<1>2. RowsFollowStages'
  BY <1>0 DEF Crash, TypeOK, RowsFollowStages, Ahead, Pointed, rows
<1>3. GuardStillHolds'
  BY <1>0 DEF Crash, GuardStillHolds
<1>4. ClosedStaysClosed'
  BY <1>0 DEF Crash, ClosedStaysClosed, rows, flips, ghosts, bystanders
<1>5. InHandIsFresh'
  BY <1>0 DEF Crash, InHandIsFresh, InHand, NoLane
<1>6. RipeStaysThrough'
  BY <1>0 DEF Crash, RipeStaysThrough, NoLane
<1>7. ActiveIsCurrent'
  BY <1>0 DEF Crash, ActiveIsCurrent, Pointed, rows, ghosts, bystanders
<1>8. CompletedOnce'
  BY <1>0 DEF Crash, CompletedOnce, flips, ghosts, bystanders
<1>9. TagIsOwn'
  BY <1>0 DEF Crash, TagIsOwn, rows, flips, ghosts, bystanders
<1>10. CompletedIsDone'
  BY <1>0 DEF Crash, CompletedIsDone, TasksIn, rows, ghosts, bystanders
<1>11. ErasedStaysErased'
  BY <1>0 DEF Crash, ErasedStaysErased, rows, ghosts, flips, bystanders
<1> QED BY <1>1, <1>2, <1>3, <1>4, <1>5, <1>6, <1>7, <1>8, <1>9, <1>10, <1>11 DEF IInv

LEMMA InitHolds == Init => IInv
BY Bounds DEF Init, IInv, TypeOK, Statuses, Lane, NoLane, Stages, Steps, RowsFollowStages,
   Pointed, Batch,
   GuardStillHolds, ErasedStaysErased, ClosedStaysClosed, InHandIsFresh, InHand, RipeStaysThrough,
   ActiveIsCurrent, CompletedOnce, TagIsOwn, CompletedIsDone

LEMMA StutterHolds == IInv /\ UNCHANGED vars => IInv'
BY DEF vars, creators, rows, bounds, flips, ghosts, bystanders, IInv, TypeOK, RowsFollowStages,
   Ahead, Pointed, GuardStillHolds, Rivals, ErasedStaysErased, ClosedStaysClosed, InHandIsFresh, InHand,
   RipeStaysThrough, TasksIn, ActiveIsCurrent, CompletedOnce, TagIsOwn, CompletedIsDone

LEMMA NextHolds == IInv /\ Next => IInv'
<1> SUFFICES ASSUME IInv, Next PROVE IInv'
  OBVIOUS
<1>1. ASSUME NEW s \in Sprints, CreateStep(s) PROVE IInv'
  BY <1>1, GuardKeeps, RecordKeeps, PointKeeps, PersistKeeps, InsertKeeps, InsertedKeeps,
     PromoteKeeps, PromotedKeeps, ActivateKeeps, CreateFailsKeeps DEF CreateStep
<1>2. ASSUME NEW t \in Tasks, Finish(t) \/ Reopen(t) \/ AddTask(t) PROVE IInv'
  BY <1>2, FinishKeeps, ReopenKeeps, AddTaskKeeps
<1>3. ASSUME NEW k \in Companies, StartCheck(k) \/ RestoreCompany(k) PROVE IInv'
  BY <1>3, StartCheckKeeps, RestoreCompanyKeeps
<1>4. ASSUME NEW r \in Routes, NEW s \in Sprints, StartRoute(r, s) PROVE IInv'
  BY <1>4, StartRouteKeeps
<1>5. ASSUME NEW l \in Lanes, FinalizeStep(l) \/ FinalizeFails(l) PROVE IInv'
  BY <1>5, ReadRowsKeeps, ReadTasksKeeps, GoneKeeps, TagKeeps, CloseKeeps, AnnounceKeeps,
     FinalizeFailsKeeps DEF FinalizeStep
<1>6. ASSUME NEW s \in Sprints, DeleteStep(s) PROVE IInv'
  BY <1>6, DeleteKeeps, SeePointerKeeps, ClearPointerKeeps, DeleteFailsKeeps DEF DeleteStep
<1>7. ASSUME NEW s \in Sprints, NEW status \in {"planning", "executing", "completed"},
             RestoreSprint(s, status)
      PROVE  IInv'
  BY <1>7, RestoreSprintKeeps
<1> QED BY <1>1, <1>2, <1>3, <1>4, <1>5, <1>6, <1>7, CrashKeeps DEF Next

\* The invariant of creations and finalizations holds for every instance
\* (proposals.ts:96, lifecycle.ts:60).
THEOREM Inductive == Spec => []IInv
BY InitHolds, NextHolds, StutterHolds, PTL DEF Spec

\* Every value keeps its type.
THEOREM TypeCorrect == Spec => []TypeOK
BY Inductive, PTL DEF IInv

\* A sprint set up and neither completed nor deleted is its company's current one,
\* unless two calls were past the guard at once, it was written back, or a late
\* clear or an old row moved the pointer (proposals.ts:102, sprints.routes.ts:39-45).
THEOREM ActiveSprintIsCurrent == Spec => []ActiveIsCurrent
BY Inductive, PTL DEF IInv

\* No sprint is completed twice behind the gate (lifecycle.ts:60).
THEOREM SprintCompletesOnce == Spec => []CompletedOnce
BY Inductive, PTL DEF IInv

\* The number a snapshot is tagged with is its sprint's, unless the sprint was
\* deleted or written back, or finalized twice or out of turn, or its company has
\* twins or a strayed pointer (lifecycle.ts:297).
THEOREM SnapshotTaggedRight == Spec => []TagIsOwn
BY Inductive, PTL DEF IInv

\* A completed sprint is through, but for what came behind its back
\* (lifecycle.ts:75).
THEOREM CompletedSprintIsDone == Spec => []CompletedIsDone
BY Inductive, PTL DEF IInv

---------------------------------------------------------------------------
(* Sprints take turns: SprintCompletion implements SprintTurns.            *)

\* What excuses a sprint's company.
LEMMA ExcusesAre ==
    ASSUME NEW s \in Sprints
    PROVE  /\ CompanyOf[s] \in twins \cup strayed => CompanyOf[s] \in Excused
           /\ s \in outside \cup doubled \cup reactivated => CompanyOf[s] \in Excused
BY DEF Excused

LEMMA ExcusedSame ==
    ASSUME UNCHANGED <<twins, strayed, reactivated, doubled, outside>>
    PROVE  Excused' = Excused
BY DEF Excused

LEMMA ExcusedByTwins ==
    ASSUME NEW k, twins' \in {twins, twins \cup {k}},
           UNCHANGED <<strayed, reactivated, doubled, outside>>
    PROVE  Excused' \in {Excused, Excused \cup {k}}
BY DEF Excused

LEMMA ExcusedByStraying ==
    ASSUME NEW k, strayed' \in {strayed, strayed \cup {k}},
           UNCHANGED <<twins, reactivated, doubled, outside>>
    PROVE  Excused' \in {Excused, Excused \cup {k}} /\ (k \in strayed' => k \in Excused')
BY DEF Excused

LEMMA ExcusedByReactivation ==
    ASSUME NEW s \in Sprints, reactivated' = reactivated \cup {s},
           UNCHANGED <<twins, strayed, doubled, outside>>
    PROVE  Excused' = Excused \cup {CompanyOf[s]}
BY DEF Excused

LEMMA ExcusedByDoubling ==
    ASSUME NEW s \in Sprints, doubled' \in {doubled, doubled \cup {s}},
           UNCHANGED <<twins, strayed, reactivated, outside>>
    PROVE  Excused' \in {Excused, Excused \cup {CompanyOf[s]}}
BY DEF Excused

LEMMA ExcusedByOutside ==
    ASSUME NEW s \in Sprints, outside' \in {outside, outside \cup {s}},
           UNCHANGED <<twins, strayed, reactivated, doubled>>
    PROVE  Excused' \in {Excused, Excused \cup {CompanyOf[s]}}
BY DEF Excused

\* Two calls past the guard excuse their company.
LEMMA GuardExcuses ==
    ASSUME NEW s \in Sprints, Guard(s)
    PROVE  [Turns!TurnsNext]_(Turns!turnVars)
<1>1. UNCHANGED <<sprint, current, strayed, reactivated, doubled, outside>>
      /\ twins' \in {twins, twins \cup {CompanyOf[s]}}
  BY DEF Guard, rows, flips
<1>2. Excused' \in {Excused, Excused \cup {CompanyOf[s]}}
  BY <1>1, ExcusedByTwins
<1>3. CompanyOf[s] \in Companies
  BY Shapes
<1>. QED
  BY <1>1, <1>2, <1>3 DEF Turns!TurnsNext, Turns!Excuse, Turns!turnVars

LEMMA RecordOpens ==
    ASSUME NEW s \in Sprints, IInv, Record(s)
    PROVE  Turns!Open(s)
<1>1. sprint[s] = "none"
  BY DEF Record, IInv, RowsFollowStages
<1>2. UNCHANGED <<current, twins, strayed, reactivated, doubled, outside>>
  BY DEF Record, ghosts, flips, bystanders
<1>. QED
  BY <1>1, <1>2, ExcusedSame DEF Record, Turns!Open, Turns!Becomes

\* What a finalization takes up may excuse its company, and that is all.
LEMMA TakingUp ==
    ASSUME IInv,
           \/ \E k \in Companies : StartCheck(k)
           \/ \E r \in Routes, s \in Sprints : StartRoute(r, s)
           \/ \E l \in Lanes : ReadRows(l)
    PROVE  /\ UNCHANGED <<sprint, current, stage>>
           /\ \/ Excused' = Excused
              \/ \E k \in Companies : Excused' = Excused \cup {k}
<1>1. UNCHANGED <<sprint, current, stage, twins, strayed, reactivated, doubled>>
  BY DEF StartCheck, StartRoute, ReadRows, creators, rows, bystanders
<1>2. \/ outside' = outside
      \/ \E s \in Sprints : outside' = outside \cup {s}
  <2>1. ASSUME NEW l \in Lanes, NEW s \in Sprints \cup {NoSprint}, ~Missing(s),
               NEW at, NEW ripe, TakeUp(l, s, at, ripe)
        PROVE  s \in Sprints /\ outside' \in {outside, outside \cup {s}}
    BY <2>1 DEF Missing, TakeUp
  <2>2. ASSUME NEW k \in Companies, StartCheck(k)
        PROVE  \/ outside' = outside
               \/ \E s \in Sprints : outside' = outside \cup {s}
    <3>1. current[k] \in Sprints \cup {NoSprint} /\ Gate \in Lanes
      BY DEF IInv, TypeOK, Lanes
    <3>. QED
      BY <2>1, <2>2, <3>1 DEF StartCheck, RowsFirst, TasksFirst
  <2>3. ASSUME NEW r \in Routes, NEW s \in Sprints, StartRoute(r, s)
        PROVE  \/ outside' = outside
               \/ \E u \in Sprints : outside' = outside \cup {u}
    BY <2>1, <2>3 DEF StartRoute, RowsFirst, TasksFirst, Lanes
  <2>4. ASSUME NEW l \in Lanes, ReadRows(l)
        PROVE  \/ outside' = outside
               \/ \E s \in Sprints : outside' = outside \cup {s}
    BY <2>1, <2>4 DEF ReadRows
  <2>. QED
    BY <2>2, <2>3, <2>4
<1>3. \/ Excused' = Excused
      \/ \E k \in Companies : Excused' = Excused \cup {k}
  <2>1. CASE outside' = outside
    BY <1>1, <2>1, ExcusedSame
  <2>2. ASSUME NEW s \in Sprints, outside' = outside \cup {s}
        PROVE  \/ Excused' = Excused
               \/ \E k \in Companies : Excused' = Excused \cup {k}
    <3>1. Excused' \in {Excused, Excused \cup {CompanyOf[s]}}
      BY <1>1, <2>2, ExcusedByOutside
    <3>2. CompanyOf[s] \in Companies
      BY Shapes
    <3>. QED
      BY <3>1, <3>2
  <2>. QED
    BY <1>2, <2>1, <2>2
<1>. QED
  BY <1>1, <1>3

\* The guard of sprint_create still holds when the pointer moves.
LEMMA PointAdvances ==
    ASSUME NEW s \in Sprints, IInv, CreationOrder, Point(s)
    PROVE  Turns!Advance(s)
<1> DEFINE k == CompanyOf[s]
<1>1. sprint[s] # "none"
  BY DEF Point, IInv, RowsFollowStages
<1>2. k \in Companies /\ current[k] \in Sprints \cup {NoSprint}
  BY Shapes DEF IInv, TypeOK
<1>3. k \notin Excused => sprint[s] # "completed"
  BY DEF Point, CreationOrder
<1>4. k \notin Excused => Turns!Over(k)
  <2> SUFFICES ASSUME k \notin Excused, current[k] # NoSprint
               PROVE  sprint[current[k]] \in {"completed", "deleted"}
    BY DEF Turns!Over
  <2>1. k \notin twins \cup strayed
    BY ExcusesAre
  <2>2. sprint[current[k]] \in {"completed", "deleted"} \/ current[k] \in reactivated
    BY <2>1 DEF Point, IInv, GuardStillHolds
  <2>3. CompanyOf[current[k]] = k
    BY <1>2 DEF IInv, RowsFollowStages
  <2>. QED
    BY <1>2, <2>2, <2>3, ExcusesAre
<1>5. current' = [current EXCEPT ![k] = s] /\ sprint' = sprint /\ Excused' = Excused
  BY ExcusedSame DEF Point, ghosts, flips, bystanders
<1>. QED
  BY <1>1, <1>3, <1>4, <1>5 DEF Turns!Advance

\* A status written blindly begins the sprint, or writes it back; only a sprint
\* that was written back can be completed by it.
LEMMA WritesMap ==
    ASSUME NEW s \in Sprints, NEW status \in {"planning", "executing", "completed"}, IInv,
           sprint[s] # "none", Write(s, status), status = "completed" => s \in closed,
           UNCHANGED <<current, twins, strayed, doubled, outside>>
    PROVE  [Turns!Begin(s) \/ Turns!Revive(s) \/ Turns!Complete(s)]_(Turns!turnVars)
<1>1. sprint' = [sprint EXCEPT ![s] = status]
  BY DEF Write
<1>2. CASE sprint[s] = status
  <2>1. sprint' = sprint
    BY <1>1, <1>2 DEF IInv, TypeOK
  <2>2. Excused' = Excused
    BY <1>2, ExcusedSame DEF Write
  <2>. QED
    BY <2>1, <2>2 DEF Turns!turnVars
<1>3. CASE sprint[s] \in {"completed", "deleted"} \ {status}
  <2>1. Excused' = Excused \cup {CompanyOf[s]}
    BY <1>3, ExcusedByReactivation DEF Write
  <2>. QED
    BY <1>1, <1>3, <2>1 DEF Turns!Revive, Turns!Becomes
<1>4. CASE sprint[s] \in {"planning", "executing"} \ {status}
  <2>1. Excused' = Excused
    BY <1>4, ExcusedSame DEF Write
  <2>2. CASE status # "completed"
    BY <1>1, <1>4, <2>1, <2>2 DEF Turns!Begin, Turns!IsOpen, Turns!Becomes
  <2>3. CASE status = "completed"
    <3>1. CompanyOf[s] \in Excused
      BY <1>4, <2>3, ExcusesAre DEF IInv, ClosedStaysClosed
    <3>. QED
      BY <1>1, <1>4, <2>1, <2>3, <3>1 DEF Turns!Complete, Turns!IsOpen, Turns!Becomes
  <2>. QED
    BY <2>2, <2>3
<1>5. sprint[s] \in {"planning", "executing", "completed", "deleted"}
  BY DEF IInv, TypeOK, Statuses
<1>. QED
  BY <1>2, <1>3, <1>4, <1>5

\* So do the two writes of sprint_create and that of an old row.
LEMMA PersistWrites ==
    ASSUME NEW s \in Sprints, IInv, Persist(s)
    PROVE  [Turns!TurnsNext]_(Turns!turnVars)
<1>1. sprint[s] # "none" /\ UNCHANGED <<current, twins, strayed, doubled, outside>>
  BY DEF Persist, IInv, RowsFollowStages, Pointed, flips
<1>. QED
  BY <1>1, WritesMap DEF Persist, Turns!TurnsNext

LEMMA ActivateWrites ==
    ASSUME NEW s \in Sprints, IInv, Activate(s)
    PROVE  [Turns!TurnsNext]_(Turns!turnVars)
<1>1. sprint[s] # "none" /\ UNCHANGED <<current, twins, strayed, doubled, outside>>
  BY DEF Activate, IInv, RowsFollowStages, Pointed, flips
<1>2. CASE sprint[s] = "deleted"
  BY <1>1, <1>2, ExcusedSame DEF Activate, Turns!turnVars
<1>3. CASE sprint[s] # "deleted"
  BY <1>1, <1>3, WritesMap DEF Activate, Turns!TurnsNext
<1>. QED
  BY <1>2, <1>3

LEMMA RestoreSprintWrites ==
    ASSUME NEW s \in Sprints, NEW status \in {"planning", "executing", "completed"}, IInv,
           RestoreSprint(s, status)
    PROVE  [Turns!TurnsNext]_(Turns!turnVars)
<1>1. sprint[s] # "none" /\ UNCHANGED <<current, twins, strayed, doubled, outside>>
  BY DEF RestoreSprint, flips
<1>. QED
  BY <1>1, WritesMap DEF RestoreSprint, Turns!TurnsNext

\* A deletion drops the sprint.  The pointer is cleared of it, or of another
\* one, which excuses the company.
LEMMA DeleteDrops ==
    ASSUME NEW s \in Sprints, Delete(s)
    PROVE  Turns!Drop(s)
BY ExcusedSame DEF Delete, ghosts, flips, bystanders, Turns!Drop, Turns!Becomes

LEMMA ClearVacates ==
    ASSUME NEW s \in Sprints, IInv, ClearPointer(s)
    PROVE  Turns!Vacate(CompanyOf[s]) \/ Turns!Stray(CompanyOf[s])
<1> DEFINE k == CompanyOf[s]
<1>1. /\ current' = [current EXCEPT ![k] = NoSprint]
      /\ UNCHANGED <<sprint, twins, reactivated, doubled, outside>>
  BY DEF ClearPointer, flips
<1>2. CASE current[k] \in {s, NoSprint}
  <2>1. Excused' = Excused
    BY <1>1, <1>2, ExcusedSame DEF ClearPointer
  <2>2. current[k] = s => sprint[s] = "deleted" \/ k \in Excused
    BY ExcusesAre DEF ClearPointer, IInv, ErasedStaysErased
  <2>. QED
    BY <1>1, <1>2, <2>1, <2>2 DEF Turns!Vacate, Turns!Over
<1>3. CASE current[k] \notin {s, NoSprint}
  <2>1. Excused' = Excused \cup {k}
    BY <1>1, <1>3, ExcusedByStraying DEF ClearPointer
  <2>. QED
    BY <1>1, <2>1 DEF Turns!Stray
<1>. QED
  BY <1>2, <1>3

LEMMA RestoreStrays ==
    ASSUME NEW k \in Companies, RestoreCompany(k)
    PROVE  Turns!Stray(k)
<1>1. Excused' = Excused \cup {k}
  BY ExcusedByStraying DEF RestoreCompany, flips
<1>. QED
  BY <1>1 DEF RestoreCompany, Turns!Stray

\* A sprint is closed in its turn, unless somebody took it up out of turn.
LEMMA CloseCompletes ==
    ASSUME NEW l \in Lanes, IInv, Close(l)
    PROVE  [Turns!TurnsNext]_(Turns!turnVars)
<1> DEFINE s == lane[l].sprint
<1>1. s \in Sprints /\ InHand(l, s)
  BY DEF Close, InHand, IInv, TypeOK, Lane, RipeStaysThrough
<1>2. sprint[s] \in {"planning", "executing", "completed", "deleted"}
  BY <1>1 DEF IInv, TypeOK, Statuses, InHandIsFresh
<1>3. s = current[CompanyOf[s]] \/ sprint[s] = "deleted" \/ CompanyOf[s] \in Excused
  BY <1>1, ExcusesAre DEF IInv, InHandIsFresh
<1>4. /\ sprint[s] # "deleted" => sprint' = [sprint EXCEPT ![s] = "completed"]
      /\ sprint[s] = "deleted" => sprint' = sprint
      /\ current' = current
  BY DEF Close
<1>5. Excused' \in {Excused, Excused \cup {CompanyOf[s]}}
  <2>1. doubled' \in {doubled, doubled \cup {s}} /\ UNCHANGED <<twins, strayed, reactivated, outside>>
    BY DEF Close, bystanders
  <2>. QED
    BY <1>1, <2>1, ExcusedByDoubling
<1>6. CASE sprint[s] \in {"completed", "deleted"}
  <2>1. sprint' = sprint
    BY <1>4, <1>6 DEF IInv, TypeOK
  <2>2. CompanyOf[s] \in Companies
    BY <1>1, Shapes
  <2>. QED
    BY <1>4, <1>5, <2>1, <2>2 DEF Turns!TurnsNext, Turns!Excuse, Turns!turnVars
<1>7. CASE sprint[s] \in {"planning", "executing"}
  <2>1. Turns!Complete(s)
    BY <1>3, <1>4, <1>5, <1>7 DEF Turns!Complete, Turns!IsOpen, Turns!Becomes
  <2>. QED
    BY <1>1, <2>1 DEF Turns!TurnsNext
<1>. QED
  BY <1>2, <1>6, <1>7

\* An excused company stays excused.
LEMMA ExcusesStay ==
    ASSUME IInv, [Next]_vars
    PROVE  Excused \subseteq Excused'
<1>1. /\ twins \subseteq twins' /\ strayed \subseteq strayed'
      /\ reactivated \subseteq reactivated'
      /\ doubled \subseteq doubled'
      /\ outside \subseteq outside'
  <2>1. ASSUME NEW s \in Sprints, CreateStep(s)
        PROVE  /\ twins \subseteq twins'
               /\ reactivated \subseteq reactivated'
               /\ UNCHANGED <<strayed, doubled, outside>>
    BY <2>1 DEF CreateStep, Guard, Record, Point, Persist, Insert, Inserted, Promote, Promoted,
                Activate, CreateFails, Write, ghosts, flips, bystanders
  <2>2. ASSUME NEW t \in Tasks, Finish(t) \/ Reopen(t) \/ AddTask(t)
        PROVE  UNCHANGED <<twins, strayed, reactivated, doubled, outside>>
    BY <2>2 DEF Finish, Reopen, AddTask, ghosts, flips, bystanders
  <2>3. ASSUME \/ \E k \in Companies : StartCheck(k)
               \/ \E r \in Routes, s \in Sprints : StartRoute(r, s)
        PROVE  outside \subseteq outside' /\ UNCHANGED <<twins, strayed, reactivated, doubled>>
    BY <2>3 DEF StartCheck, StartRoute, RowsFirst, TasksFirst, TakeUp, bystanders
  <2>4. ASSUME NEW l \in Lanes, FinalizeStep(l) \/ FinalizeFails(l)
        PROVE  /\ outside \subseteq outside'
               /\ doubled \subseteq doubled'
               /\ UNCHANGED <<twins, strayed, reactivated>>
    BY <2>4 DEF FinalizeStep, FinalizeFails, ReadRows, ReadTasks, Gone, Tag, Close, Announce, TakeUp,
                ghosts, flips, bystanders
  <2>5. Crash \/ UNCHANGED vars => UNCHANGED <<twins, strayed, reactivated, doubled, outside>>
    BY DEF Crash, vars, ghosts, flips, bystanders
  <2>6. ASSUME NEW s \in Sprints, DeleteStep(s)
        PROVE  strayed \subseteq strayed' /\ UNCHANGED <<twins, reactivated, doubled, outside>>
    BY <2>6 DEF DeleteStep, Delete, SeePointer, ClearPointer, DeleteFails, ghosts, flips, bystanders
  <2>7. ASSUME NEW k \in Companies, RestoreCompany(k)
        PROVE  strayed \subseteq strayed' /\ UNCHANGED <<twins, reactivated, doubled, outside>>
    BY <2>7 DEF RestoreCompany, flips
  <2>8. ASSUME NEW s \in Sprints, NEW status \in {"planning", "executing", "completed"},
               RestoreSprint(s, status)
        PROVE  reactivated \subseteq reactivated' /\ UNCHANGED <<twins, strayed, doubled, outside>>
    BY <2>8 DEF RestoreSprint, Write, flips
  <2>. QED
    BY <2>1, <2>2, <2>3, <2>4, <2>5, <2>6, <2>7, <2>8 DEF Next
<1>. QED
  BY <1>1 DEF Excused

\* Nobody but the last step of sprint_create makes its sprint executing, and
\* nobody but a finalization out of turn completes it before the pointer is there.
LEMMA StepKeepsCreationOrder ==
    IInv /\ CreationOrder /\ [Next]_vars => CreationOrder'
<1> SUFFICES ASSUME IInv, CreationOrder, [Next]_vars
             PROVE  CreationOrder'
  OBVIOUS
<1> USE ExcusesStay
<1>1. ASSUME UNCHANGED <<stage, sprint>> PROVE CreationOrder'
  BY <1>1 DEF CreationOrder
<1>2. ASSUME NEW s \in Sprints, CreateStep(s) PROVE CreationOrder'
  <2>1. CASE Guard(s)
    BY <2>1 DEF Guard, CreationOrder, IInv, TypeOK, rows
  <2>2. CASE Record(s)
    BY <2>2 DEF Record, CreationOrder, IInv, TypeOK
  <2>3. CASE Point(s)
    BY <2>3 DEF Point, CreationOrder, IInv, TypeOK
  <2>4. CASE Persist(s)
    BY <2>4 DEF Persist, Write, CreationOrder, IInv, TypeOK
  <2>5. CASE Inserted(s) \/ Promoted(s)
    BY <2>5 DEF Inserted, Promoted, CreationOrder, IInv, TypeOK, rows
  <2>6. CASE Activate(s)
    BY <2>6 DEF Activate, Write, CreationOrder, IInv, TypeOK
  <2>7. CASE CreateFails(s)
    BY <2>7 DEF CreateFails, CreationOrder, IInv, TypeOK, rows
  <2>8. CASE \E t \in Tasks : Insert(s, t) \/ Promote(s, t)
    BY <1>1, <2>8 DEF Insert, Promote
  <2>. QED
    BY <1>2, <2>1, <2>2, <2>3, <2>4, <2>5, <2>6, <2>7, <2>8 DEF CreateStep
<1>3. ASSUME NEW l \in Lanes, Close(l) PROVE CreationOrder'
  <2> DEFINE s == lane[l].sprint
  <2>1. s \in Sprints /\ InHand(l, s)
    BY <1>3 DEF Close, InHand, IInv, TypeOK, Lane, RipeStaysThrough
  <2>2. stage[s] = "recorded" => sprint[s] = "deleted" \/ CompanyOf[s] \in Excused
    <3>1. CompanyOf[s] \in Companies
      BY <2>1, Shapes
    <3>2. stage[s] = "recorded" => current[CompanyOf[s]] # s
      BY <2>1, <3>1, Apart DEF IInv, RowsFollowStages
    <3>. QED
      BY <2>1, <3>2, ExcusesAre DEF IInv, InHandIsFresh
  <2>. QED
    BY <1>3, <2>1, <2>2 DEF Close, CreationOrder, IInv, TypeOK, creators
<1>4. ASSUME NEW l \in Lanes, FinalizeFails(l) \/ ReadRows(l) \/ ReadTasks(l) \/ Gone(l) \/ Tag(l)
                            \/ Announce(l)
      PROVE  CreationOrder'
  BY <1>1, <1>4 DEF FinalizeFails, ReadRows, ReadTasks, Gone, Tag, Announce, creators, rows
<1>5. ASSUME \/ \E k \in Companies : StartCheck(k)
             \/ \E r \in Routes, s \in Sprints : StartRoute(r, s)
             \/ \E t \in Tasks : Finish(t) \/ Reopen(t) \/ AddTask(t)
             \/ \E s \in Sprints : SeePointer(s) \/ ClearPointer(s) \/ DeleteFails(s)
             \/ \E k \in Companies : RestoreCompany(k)
      PROVE  CreationOrder'
  BY <1>1, <1>5 DEF StartCheck, StartRoute, Finish, Reopen, AddTask, SeePointer, ClearPointer,
                    DeleteFails, RestoreCompany, creators, rows
<1>6. CASE Crash
  BY <1>6 DEF Crash, CreationOrder, IInv, TypeOK, rows
<1>7. CASE UNCHANGED vars
  BY <1>1, <1>7 DEF vars, creators, rows
<1>8. ASSUME NEW s \in Sprints, Delete(s) PROVE CreationOrder'
  BY <1>8 DEF Delete, CreationOrder, IInv, TypeOK, creators
<1>9. ASSUME NEW s \in Sprints, NEW status \in {"planning", "executing", "completed"},
             RestoreSprint(s, status)
      PROVE  CreationOrder'
  <2>1. sprint' = [sprint EXCEPT ![s] = status] /\ stage' = stage
    BY <1>9 DEF RestoreSprint, Write, creators
  <2>2. status = "completed" => s \in reactivated'
    BY <1>9 DEF RestoreSprint, Write, IInv, TypeOK, ClosedStaysClosed
  <2>3. status = "completed" => CompanyOf[s] \in Excused'
    BY <2>2 DEF Excused
  <2>. QED
    BY <1>9, <2>1, <2>3 DEF RestoreSprint, CreationOrder, IInv, TypeOK
<1>. QED
  BY <1>2, <1>3, <1>4, <1>5, <1>6, <1>7, <1>8, <1>9 DEF Next, FinalizeStep, DeleteStep

\* Every step is a step of SprintTurns, or none to the company.
LEMMA StepTakesTurns ==
    IInv /\ CreationOrder /\ [Next]_vars => [Turns!TurnsNext]_(Turns!turnVars)
<1> SUFFICES ASSUME IInv, CreationOrder, [Next]_vars
             PROVE  [Turns!TurnsNext]_(Turns!turnVars)
  OBVIOUS
<1>1. UNCHANGED <<sprint, current, twins, strayed, reactivated, doubled, outside>> =>
        UNCHANGED Turns!turnVars
  BY ExcusedSame DEF Turns!turnVars
<1>2. ASSUME NEW s \in Sprints, CreateStep(s)
      PROVE  [Turns!TurnsNext]_(Turns!turnVars)
  <2>1. CASE Guard(s)
    BY <2>1, GuardExcuses
  <2>2. CASE Record(s)
    BY <2>2, RecordOpens DEF Turns!TurnsNext
  <2>3. CASE Point(s)
    BY <2>3, PointAdvances DEF Turns!TurnsNext
  <2>4. CASE Persist(s) \/ Activate(s)
    BY <2>4, PersistWrites, ActivateWrites
  <2>5. CASE \/ \E t \in Tasks : Insert(s, t) \/ Promote(s, t)
             \/ Inserted(s) \/ Promoted(s) \/ CreateFails(s)
    BY <1>1, <2>5 DEF Insert, Promote, Inserted, Promoted, CreateFails, rows, ghosts, flips, bystanders
  <2>. QED
    BY <1>2, <2>1, <2>2, <2>3, <2>4, <2>5 DEF CreateStep
<1>3. ASSUME NEW l \in Lanes, Close(l)
      PROVE  [Turns!TurnsNext]_(Turns!turnVars)
  BY <1>3, CloseCompletes
<1>4. CASE \/ \E k \in Companies : StartCheck(k)
           \/ \E r \in Routes, s \in Sprints : StartRoute(r, s)
           \/ \E l \in Lanes : ReadRows(l)
  BY <1>4, TakingUp DEF Turns!TurnsNext, Turns!Excuse, Turns!turnVars
<1>5. CASE \/ \E t \in Tasks : Finish(t) \/ Reopen(t) \/ AddTask(t)
           \/ \E l \in Lanes : ReadTasks(l) \/ Gone(l) \/ Tag(l) \/ Announce(l) \/ FinalizeFails(l)
           \/ \E s \in Sprints : SeePointer(s) \/ DeleteFails(s)
  BY <1>1, <1>5 DEF Finish, Reopen, AddTask, ReadTasks, Gone, Tag, Announce, FinalizeFails,
                    SeePointer, DeleteFails, rows, ghosts, flips, bystanders
<1>6. CASE Crash \/ UNCHANGED vars
  BY <1>1, <1>6 DEF Crash, vars, rows, ghosts, flips, bystanders
<1>7. ASSUME NEW s \in Sprints, Delete(s) \/ ClearPointer(s)
      PROVE  [Turns!TurnsNext]_(Turns!turnVars)
  <2>1. CompanyOf[s] \in Companies
    BY Shapes
  <2>. QED
    BY <1>7, <2>1, DeleteDrops, ClearVacates DEF Turns!TurnsNext
<1>8. ASSUME NEW k \in Companies, RestoreCompany(k)
      PROVE  [Turns!TurnsNext]_(Turns!turnVars)
  BY <1>8, RestoreStrays DEF Turns!TurnsNext
<1>9. ASSUME NEW s \in Sprints, NEW status \in {"planning", "executing", "completed"},
             RestoreSprint(s, status)
      PROVE  [Turns!TurnsNext]_(Turns!turnVars)
  BY <1>9, RestoreSprintWrites
<1>. QED
  BY <1>2, <1>3, <1>4, <1>5, <1>6, <1>7, <1>8, <1>9 DEF Next, FinalizeStep, DeleteStep

\* The sprints of a company take turns, whatever calls of sprint_create, checks,
\* finalize routes and deletions overlap, whatever throws, whatever old row is
\* written back and however often the process restarts, but in excused companies
\* (proposals.ts:102-231, lifecycle.ts:60-109, sprints.routes.ts:35-45).
THEOREM SprintsAreInTurn == Spec => SprintsTakeTurns
<1>1. Init => CreationOrder /\ Turns!TurnsInit
  BY DEF Init, CreationOrder, Excused, Turns!TurnsInit
<1>. QED
  BY <1>1, StepKeepsCreationOrder, StepTakesTurns, Inductive, PTL
     DEF Spec, SprintsTakeTurns, Turns!TurnsSpec

===========================================================================
