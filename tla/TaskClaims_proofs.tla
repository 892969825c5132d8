-------------------------- MODULE TaskClaims_proofs --------------------------
(* Proofs about TaskClaims: the inductive invariant IInv, and from it the    *)
(* safety properties on claims.                                              *)
EXTENDS TaskClaims, TLAPS

\* What the steps leave of an idle call and of a fresh sweep record.
LEMMA IdleType == Idle \in [at : Stages, task : Task \cup {NoTask}, rest : SUBSET Task]
  BY DEF Idle, Stages

\* The record of no sweep is a sweep record.
LEMMA NoSweepType == NoSweep \in [rows : SUBSET Beat, marked : Beat \cup {NoBeat}]
  BY DEF NoSweep

\* Releasing tasks writes "planned" and NULL, both of the right type.
LEMMA ReleaseType ==
  ASSUME TypeOK, NEW S \in SUBSET Task, ReleaseTasks(S)
  PROVE  /\ status' \in [Task -> Statuses]
         /\ checkout' \in [Task -> Beat \cup {NoBeat}]
  BY DEF TypeOK, ReleaseTasks, Statuses

\* A reply adds to what the beat heard and to what its agent holds.
LEMMA HeardType ==
  ASSUME TypeOK, NEW b \in Beat, NEW r \in {"claimed", "closed"},
         NEW m \in SUBSET Task, Hear(b, r, m)
  PROVE  /\ heard' \in [Beat -> SUBSET {"claimed", "closed"}]
         /\ mine' \in [Beat -> SUBSET Task]
<1>1. CASE beat[b] = "working"
  <2> DEFINE H == heard[b] \cup {r}
  <2>1. H \in SUBSET {"claimed", "closed"} BY DEF TypeOK
  <2>2. heard' = [heard EXCEPT ![b] = H] /\ mine' = [mine EXCEPT ![b] = m]
    BY <1>1 DEF Hear
  <2>3. heard \in [Beat -> SUBSET {"claimed", "closed"}] /\ mine \in [Beat -> SUBSET Task]
    BY DEF TypeOK
  <2> HIDE DEF H
  <2> QED BY <2>1, <2>2, <2>3
<1>2. CASE beat[b] # "working"
  BY <1>2 DEF TypeOK, Hear
<1> QED BY <1>1, <1>2

\* The reply to a completion does too, heard or not.
LEMMA ClosedType ==
  ASSUME TypeOK, NEW b \in Beat, HearClosed(b)
  PROVE  /\ heard' \in [Beat -> SUBSET {"claimed", "closed"}]
         /\ mine' \in [Beat -> SUBSET Task]
<1>1. CASE Hear(b, "closed", mine[b] \ {call[b].task})
  <2>1. mine[b] \ {call[b].task} \in SUBSET Task BY DEF TypeOK
  <2> QED BY <1>1, <2>1, HeardType
<1>2. CASE UNCHANGED <<heard, mine>>
  BY <1>2 DEF TypeOK
<1> QED BY <1>1, <1>2 DEF HearClosed

\* The dependents a completion still has to promote are tasks.
LEMMA UnpromotedSubset == ASSUME NEW b PROVE Unpromoted(b) \in SUBSET Task
  BY DEF Unpromoted, Promotable

\* TypeOK's two conjuncts about calls.
CallOK ==
    /\ call \in [Beat -> [at : Stages, task : Task \cup {NoTask}, rest : SUBSET Task]]
    /\ \A c \in Beat : call[c].at # "idle" => call[c].task \in Task

\* Replacing one call by a well-typed one keeps them.
LEMMA CallReplaced ==
  ASSUME CallOK, NEW b \in Beat,
         NEW r \in [at : Stages, task : Task \cup {NoTask}, rest : SUBSET Task],
         r.at # "idle" => r.task \in Task,
         call' = [call EXCEPT ![b] = r]
  PROVE  CallOK'
  BY DEF CallOK

\* A call that ends is typed.
LEMMA CallEnds ==
  ASSUME CallOK, NEW b \in Beat, call' = [call EXCEPT ![b] = Idle]
  PROVE  CallOK'
<1>1. Idle.at = "idle" BY DEF Idle
<1> QED BY <1>1, IdleType, CallReplaced

\* A call that moves on to another stage keeps its target.
LEMMA CallMoves ==
  ASSUME CallOK, NEW b \in Beat, NEW s \in Stages, call[b].at # "idle",
         call' = [call EXCEPT ![b].at = s]
  PROVE  CallOK'
<1> DEFINE r == [call[b] EXCEPT !.at = s]
<1>1. r \in [at : Stages, task : Task \cup {NoTask}, rest : SUBSET Task] /\ r.task \in Task
  BY DEF CallOK
<1>2. call' = [call EXCEPT ![b] = r]
  OBVIOUS
<1> HIDE DEF r
<1> QED BY <1>1, <1>2, CallReplaced

\* The release's WHERE clause selects tasks (claim.ts:169-193).
LEMMA HeldSubset == ASSUME NEW b PROVE HeldInProgress(b) \in SUBSET Task
  BY DEF HeldInProgress

\* The initial state is typed.
LEMMA TypeInit == Init => TypeOK
  BY ConstantsOK, IdleType, NoSweepType
  DEF Init, TypeOK, Statuses, Phases, Stages, Dependencies, Idle

\* Every action keeps every variable in its type.
LEMMA TypeNext == ASSUME TypeOK, [Next]_vars PROVE TypeOK'
<1> USE DEF TypeOK
<1>1. ASSUME NEW b \in Beat, BeginBeat(b) PROVE TypeOK'
  BY <1>1 DEF BeginBeat, Phases
<1>2. ASSUME NEW b \in Beat, EndBeat(b) PROVE TypeOK'
  BY <1>2 DEF EndBeat, Forget, Phases
<1>3. ASSUME NEW b \in Beat, ReleaseClaims(b) PROVE TypeOK'
  BY <1>3, ReleaseType, HeldSubset DEF ReleaseClaims, Phases
<1>4. ASSUME NEW b \in Beat, ReleaseClaimsFails(b) PROVE TypeOK'
  BY <1>4, HeldSubset DEF ReleaseClaimsFails, Phases
<1>5. ASSUME NEW b \in Beat, NEW t \in Task, Restate(b, t) PROVE TypeOK'
  BY <1>5 DEF Restate, Note, Phases, Statuses
<1>6. ASSUME NEW b \in Beat, FinishRun(b) PROVE TypeOK'
  BY <1>6 DEF FinishRun, Phases
<1>7. ASSUME NEW b \in Beat, NEW t \in Task, RequestClaim(b, t) PROVE TypeOK'
  BY <1>7 DEF RequestClaim, Stages
<1>8. ASSUME NEW b \in Beat, ClaimWins(b) PROVE TypeOK'
  <2>1. call[b].task \in Task BY <1>8 DEF ClaimWins
  <2>2. "mirror" \in Stages BY DEF Stages
  <2>3. call' = [call EXCEPT ![b].at = "mirror"] /\ call[b].at # "idle"
    BY <1>8 DEF ClaimWins
  <2>4. CallOK'
    BY <2>2, <2>3, CallMoves DEF CallOK
  <2>5. /\ status' \in [Task -> Statuses]
        /\ checkout' \in [Task -> Beat \cup {NoBeat}]
        /\ raced' \subseteq Task
    BY <1>8, <2>1 DEF ClaimWins, Statuses, Note
  <2> QED BY <1>8, <2>4, <2>5 DEF ClaimWins, CallOK
<1>9. ASSUME NEW b \in Beat, ClaimLoses(b) PROVE TypeOK'
  BY <1>9, IdleType DEF ClaimLoses, Idle
<1>10. ASSUME NEW b \in Beat, MirrorClaim(b) PROVE TypeOK'
  <2>1. call[b].task \in Task BY <1>10 DEF MirrorClaim
  <2>2. heard' \in [Beat -> SUBSET {"claimed", "closed"}] /\ mine' \in [Beat -> SUBSET Task]
    BY <1>10, <2>1, HeardType DEF MirrorClaim
  <2>3. CallOK'
    BY <1>10, CallEnds DEF MirrorClaim, CallOK
  <2>4. status' \in [Task -> Statuses] /\ raced' \subseteq Task
    BY <1>10, <2>1 DEF MirrorClaim, Statuses, Note
  <2> QED BY <1>10, <2>2, <2>3, <2>4 DEF MirrorClaim, CallOK
<1>11. ASSUME NEW b \in Beat, NEW t \in Task, AttachArtifact(b, t) PROVE TypeOK'
  BY <1>11 DEF AttachArtifact, Dependencies
<1>12. ASSUME NEW b \in Beat, NEW t \in Task, RequestComplete(b, t) PROVE TypeOK'
  BY <1>12 DEF RequestComplete, Stages
<1>13. ASSUME NEW b \in Beat, GateRejects(b) PROVE TypeOK'
  BY <1>13, IdleType DEF GateRejects, Idle
<1>14. ASSUME NEW b \in Beat, Complete(b) PROVE TypeOK'
  <2>1. call[b].task \in Task /\ call[b].at # "idle" BY <1>14 DEF Complete
  <2>2. "dependents" \in Stages BY DEF Stages
  <2>3. CallOK'
    BY <1>14, <2>1, <2>2, CallMoves DEF Complete, CallOK
  <2>4. status' \in [Task -> Statuses] /\ raced' \subseteq Task
    BY <1>14, <2>1 DEF Complete, Statuses, Note
  <2> QED BY <1>14, <2>3, <2>4 DEF Complete, Dependencies, CallOK
<1>15. ASSUME NEW b \in Beat, ReadDependents(b) PROVE TypeOK'
  <2>2. CASE Promotable = {}
    <3>1. heard' \in [Beat -> SUBSET {"claimed", "closed"}] /\ mine' \in [Beat -> SUBSET Task]
      BY <1>15, <2>2, ClosedType DEF ReadDependents
    <3>2. CallOK'
      BY <1>15, <2>2, CallEnds DEF ReadDependents, CallOK
    <3> QED BY <1>15, <2>2, <3>1, <3>2 DEF ReadDependents, CallOK
  <2>3. CASE Promotable # {}
    <3> DEFINE r == [at |-> "promote", task |-> call[b].task, rest |-> Promotable]
    <3>1. call[b].task \in Task /\ Promotable \in SUBSET Task
      BY <1>15 DEF ReadDependents, Promotable
    <3>2. r \in [at : Stages, task : Task \cup {NoTask}, rest : SUBSET Task] /\ r.task \in Task
      BY <3>1 DEF Stages
    <3>3. call' = [call EXCEPT ![b] = r]
      BY <1>15, <2>3 DEF ReadDependents
    <3> HIDE DEF r
    <3>4. CallOK'
      BY <3>2, <3>3, CallReplaced DEF CallOK
    <3> QED BY <1>15, <2>3, <3>4 DEF ReadDependents, CallOK
  <2> QED BY <2>2, <2>3
<1>16. ASSUME NEW b \in Beat, NEW d \in Task, Promote(b, d) PROVE TypeOK'
  <2>2. status' \in [Task -> Statuses] /\ raced' \subseteq Task
    BY <1>16 DEF Promote, Statuses, Note
  <2>3. CASE call[b].rest = {d}
    <3>1. heard' \in [Beat -> SUBSET {"claimed", "closed"}] /\ mine' \in [Beat -> SUBSET Task]
      BY <1>16, <2>3, ClosedType DEF Promote
    <3>2. CallOK'
      BY <1>16, <2>3, CallEnds DEF Promote, CallOK
    <3> QED BY <1>16, <2>2, <2>3, <3>1, <3>2 DEF Promote, CallOK
  <2>4. CASE call[b].rest # {d}
    <3> DEFINE r == [call[b] EXCEPT !.rest = @ \ {d}]
    <3>1. r \in [at : Stages, task : Task \cup {NoTask}, rest : SUBSET Task] /\ r.task \in Task
      BY <1>16 DEF Promote
    <3>2. call' = [call EXCEPT ![b] = r]
      BY <1>16, <2>4 DEF Promote
    <3> HIDE DEF r
    <3>3. CallOK'
      BY <3>1, <3>2, CallReplaced DEF CallOK
    <3> QED BY <1>16, <2>2, <2>4, <3>3 DEF Promote, CallOK
  <2> QED BY <2>3, <2>4
<1>17. ASSUME NEW b \in Beat, NEW t \in Task, RequestBlock(b, t) PROVE TypeOK'
  BY <1>17 DEF RequestBlock, Stages
<1>18. ASSUME NEW b \in Beat, Block(b) PROVE TypeOK'
  <2>1. call[b].task \in Task /\ call[b].at # "idle" BY <1>18 DEF Block
  <2>2. "clear" \in Stages BY DEF Stages
  <2>3. CallOK'
    BY <1>18, <2>1, <2>2, CallMoves DEF Block, CallOK
  <2>4. status' \in [Task -> Statuses] /\ raced' \subseteq Task
    BY <1>18, <2>1 DEF Block, Statuses, Note
  <2> QED BY <1>18, <2>3, <2>4 DEF Block, CallOK
<1>19. ASSUME NEW b \in Beat, ClearClaim(b) PROVE TypeOK'
  BY <1>19, IdleType, HeardType DEF ClearClaim, Idle, Note
<1>20. ASSUME NEW b \in Beat, ClearClaimFails(b) PROVE TypeOK'
  BY <1>20, IdleType, HeardType DEF ClearClaimFails, Idle
<1>21. ASSUME NEW rows \in SUBSET Overdue, FindStranded(rows) PROVE TypeOK'
  BY <1>21 DEF FindStranded, Overdue, Running
<1>22. ASSUME NEW b \in Beat, MarkStranded(b) PROVE TypeOK'
  BY <1>22 DEF MarkStranded
<1>23. ASSUME ReleaseStranded PROVE TypeOK'
  BY <1>23, ReleaseType, HeldSubset DEF ReleaseStranded
<1>24. ASSUME SweepFails PROVE TypeOK'
  BY <1>24, NoSweepType, HeldSubset DEF SweepFails
<1>25. ASSUME Crash PROVE TypeOK'
  BY <1>25, IdleType, HeldSubset, UnpromotedSubset, ConstantsOK
  DEF Crash, Idle, Phases, Running, Interrupted
<1>26. ASSUME NEW b \in Beat, HandlerFails(b) PROVE TypeOK'
  <2>1. CallOK'
    BY <1>26, CallEnds DEF HandlerFails, CallOK
  <2>2. raced' \subseteq Task
    BY <1>26, UnpromotedSubset DEF HandlerFails
  <2> QED BY <1>26, <2>1, <2>2 DEF HandlerFails, CallOK
<1>27. ASSUME UNCHANGED vars PROVE TypeOK'
  BY <1>27 DEF vars
<1> QED
  BY <1>1, <1>2, <1>3, <1>4, <1>5, <1>6, <1>7, <1>8, <1>9, <1>10, <1>11, <1>12,
     <1>13, <1>14, <1>15, <1>16, <1>17, <1>18, <1>19, <1>20, <1>21, <1>22, <1>23,
     <1>24, <1>25, <1>26, <1>27
  DEF Next, BeatStep, Request, Handler, Sweeper

\* Every reachable state is well typed: among others, no release writes a
\* status the contracts do not know (claim.ts:131).
THEOREM TypeCorrect == Spec => []TypeOK
<1>1. Init => TypeOK BY TypeInit
<1>2. TypeOK /\ [Next]_vars => TypeOK' BY TypeNext
<1> QED BY <1>1, <1>2, PTL DEF Spec

-----------------------------------------------------------------------------
(* The inductive invariant.                                                 *)

\* The inductive invariant holds initially.
LEMMA IInvInit == Init => IInv
<1> SUFFICES ASSUME Init PROVE IInv
  OBVIOUS
<1>1. TypeOK
  BY TypeInit
<1>2. RowsFollowBeats /\ SweptHaveEnded /\ ClearsBlocked /\ HoldersAccountable
  BY ConstantsOK DEF Init, RowsFollowBeats, SweptHaveEnded, ClearsBlocked, HoldersAccountable,
     NoSweep, Idle
<1>3. OfferedIsFree /\ BlockedIsReclaimable /\ OnlyWorkersBelieve /\ BeliefIsTrue
  BY DEF Init, OfferedIsFree, BlockedIsReclaimable, OnlyWorkersBelieve, BeliefIsTrue
<1>4. DependentsPromoted
  <2>1. \A t \in Task : status[t] # "completed"
    BY DEF Init
  <2> QED BY <2>1, ConstantsOK DEF DependentsPromoted, Promotable
<1> QED BY <1>1, <1>2, <1>3, <1>4 DEF IInv

\* No route handler touches a beat's phase, its row, its verdict or the sweep.
LEMMA CallsLeaveBeats ==
  ASSUME NEW b \in Beat, Request(b) \/ Handler(b)
  PROVE  UNCHANGED <<beat, run, verdict, sweep>>
<1>1. CASE Request(b)
  BY <1>1 DEF Request, RequestClaim, AttachArtifact, RequestComplete, RequestBlock
<1>2. CASE Handler(b)
  BY <1>2 DEF Handler, ClaimWins, ClaimLoses, MirrorClaim, GateRejects, Complete,
              ReadDependents, Promote, Block, ClearClaim, ClearClaimFails, HandlerFails
<1> QED BY <1>1, <1>2

\* A step of runBeat moves its own beat only: it starts it, or goes on after
\* its prompt is over.
LEMMA BeatMoves ==
  ASSUME TypeOK, NEW b \in Beat, BeatStep(b)
  PROVE  /\ sweep' = sweep
         /\ \A c \in Beat \ {b} : beat'[c] = beat[c] /\ run'[c] = run[c] /\ verdict'[c] = verdict[c]
         /\ \/ /\ beat[b] = "new" /\ beat'[b] = "working"
               /\ run'[b] \in {run[b], "running"} /\ verdict'[b] = verdict[b]
            \/ beat[b] # "new" /\ beat'[b] \notin {"new", "working"}
            \/ beat'[b] = beat[b] /\ run'[b] = run[b] /\ verdict'[b] = verdict[b]
<1> USE DEF TypeOK
<1>1. CASE BeginBeat(b)
  BY <1>1 DEF BeginBeat
<1>2. CASE EndBeat(b)
  BY <1>2 DEF EndBeat
<1>3. CASE ReleaseClaims(b)
  BY <1>3 DEF ReleaseClaims
<1>4. CASE ReleaseClaimsFails(b)
  BY <1>4 DEF ReleaseClaimsFails
<1>5. CASE \E t \in Task : Restate(b, t)
  BY <1>5 DEF Restate
<1>6. CASE FinishRun(b)
  BY <1>6 DEF FinishRun
<1> QED BY <1>1, <1>2, <1>3, <1>4, <1>5, <1>6 DEF BeatStep

\* A working beat's row is never closed under it: the sweeper has only rows
\* of beats that ended.
LEMMA RowsNext ==
  ASSUME TypeOK, RowsFollowBeats, SweptHaveEnded, [Next]_vars
  PROVE  RowsFollowBeats'
<1> USE DEF TypeOK, RowsFollowBeats
<1>1. ASSUME NEW b \in Beat, BeatStep(b) PROVE RowsFollowBeats'
  BY <1>1, BeatMoves
<1>2. ASSUME NEW b \in Beat, Request(b) \/ Handler(b) PROVE RowsFollowBeats'
  BY <1>2, CallsLeaveBeats
<1>3. ASSUME NEW b \in Beat, MarkStranded(b) PROVE RowsFollowBeats'
  BY <1>3 DEF MarkStranded, SweptHaveEnded
<1>4. ASSUME (\E rows \in SUBSET Overdue : FindStranded(rows)) \/ ReleaseStranded \/ SweepFails
      PROVE  RowsFollowBeats'
  BY <1>4 DEF FindStranded, ReleaseStranded, SweepFails
<1>5. ASSUME Crash PROVE RowsFollowBeats'
  BY <1>5 DEF Crash
<1>6. ASSUME UNCHANGED vars PROVE RowsFollowBeats'
  BY <1>6 DEF vars
<1> QED BY <1>1, <1>2, <1>3, <1>4, <1>5, <1>6 DEF Next, Sweeper

\* What the sweeper works on stays ended: a beat never goes back to work.
LEMMA SweptNext ==
  ASSUME TypeOK, RowsFollowBeats, SweptHaveEnded, [Next]_vars
  PROVE  SweptHaveEnded'
<1> USE DEF TypeOK, SweptHaveEnded
<1>1. ASSUME NEW b \in Beat, BeatStep(b) PROVE SweptHaveEnded'
  BY <1>1, BeatMoves
<1>2. ASSUME NEW b \in Beat, Request(b) \/ Handler(b) PROVE SweptHaveEnded'
  BY <1>2, CallsLeaveBeats
<1>3. ASSUME NEW rows \in SUBSET Overdue, FindStranded(rows) PROVE SweptHaveEnded'
  BY <1>3, ConstantsOK DEF FindStranded, Overdue
<1>4. ASSUME NEW b \in Beat, MarkStranded(b) PROVE SweptHaveEnded'
  BY <1>4 DEF MarkStranded
<1>5. ASSUME ReleaseStranded \/ SweepFails PROVE SweptHaveEnded'
  BY <1>5, ConstantsOK DEF ReleaseStranded, SweepFails, NoSweep
<1>6. ASSUME Crash PROVE SweptHaveEnded'
  BY <1>6, ConstantsOK DEF Crash, Running, RowsFollowBeats, Phases
<1>7. ASSUME UNCHANGED vars PROVE SweptHaveEnded'
  BY <1>7 DEF vars
<1> QED BY <1>1, <1>2, <1>3, <1>4, <1>5, <1>6, <1>7 DEF Next, Sweeper

\* A claim in progress keeps somebody who will free it, whoever acts: a
\* failing beat frees all it holds before its row is closed, the sweeper
\* closes a row and then frees its claims, and a dead beat's row is still open
\* or is the one being swept.
LEMMA HoldersNext ==
  ASSUME TypeOK, RowsFollowBeats, SweptHaveEnded, ClearsBlocked, HoldersAccountable,
         [Next]_vars
  PROVE  HoldersAccountable'
<1> USE DEF TypeOK, HoldersAccountable
<1>1. ASSUME NEW b \in Beat, BeginBeat(b) PROVE HoldersAccountable'
  BY <1>1 DEF BeginBeat
<1>2. ASSUME NEW b \in Beat, EndBeat(b) PROVE HoldersAccountable'
  <2>1. verdict[b] # "pass"
    BY <1>2 DEF EndBeat, RowsFollowBeats
  <2> QED BY <1>2, <2>1 DEF EndBeat
<1>3. ASSUME NEW b \in Beat, ReleaseClaims(b) PROVE HoldersAccountable'
  BY <1>3 DEF ReleaseClaims, ReleaseTasks, HeldInProgress
<1>4. ASSUME NEW b \in Beat, ReleaseClaimsFails(b) PROVE HoldersAccountable'
  BY <1>4 DEF ReleaseClaimsFails, HeldInProgress
<1>5. ASSUME NEW b \in Beat, NEW t \in Task, Restate(b, t) PROVE HoldersAccountable'
  BY <1>5 DEF Restate
<1>6. ASSUME NEW b \in Beat, FinishRun(b) PROVE HoldersAccountable'
  BY <1>6 DEF FinishRun
<1>7. ASSUME NEW b \in Beat, Request(b) PROVE HoldersAccountable'
  BY <1>7 DEF Request, RequestClaim, AttachArtifact, RequestComplete, RequestBlock
<1>8. ASSUME NEW b \in Beat, ClaimWins(b) PROVE HoldersAccountable'
  <2>1. beat[b] = "working" => run[b] = "running"
    BY <1>8 DEF ClaimWins, RowsFollowBeats
  <2> QED BY <1>8, <2>1, ConstantsOK DEF ClaimWins, Note
<1>9. ASSUME NEW b \in Beat,
             ClaimLoses(b) \/ GateRejects(b) \/ ReadDependents(b) \/ HandlerFails(b)
      PROVE  HoldersAccountable'
  BY <1>9 DEF ClaimLoses, GateRejects, ReadDependents, HandlerFails
<1>10. ASSUME NEW b \in Beat, MirrorClaim(b) PROVE HoldersAccountable'
  BY <1>10 DEF MirrorClaim, Note
<1>11. ASSUME NEW b \in Beat, Complete(b) PROVE HoldersAccountable'
  BY <1>11 DEF Complete
<1>12. ASSUME NEW b \in Beat, NEW d \in Task, Promote(b, d) PROVE HoldersAccountable'
  BY <1>12 DEF Promote
<1>13. ASSUME NEW b \in Beat, Block(b) PROVE HoldersAccountable'
  BY <1>13 DEF Block
<1>14. ASSUME NEW b \in Beat, ClearClaim(b) PROVE HoldersAccountable'
  BY <1>14 DEF ClearClaim, ClearsBlocked, Note
<1>15. ASSUME NEW b \in Beat, ClearClaimFails(b) PROVE HoldersAccountable'
  BY <1>15 DEF ClearClaimFails
<1>16. ASSUME NEW rows \in SUBSET Overdue, FindStranded(rows) PROVE HoldersAccountable'
  BY <1>16, ConstantsOK DEF FindStranded, NoSweep
<1>17. ASSUME NEW b \in Beat, MarkStranded(b) PROVE HoldersAccountable'
  BY <1>17, ConstantsOK DEF MarkStranded, SweptHaveEnded
<1>18. ASSUME ReleaseStranded PROVE HoldersAccountable'
  BY <1>18 DEF ReleaseStranded, ReleaseTasks, HeldInProgress
<1>19. ASSUME SweepFails PROVE HoldersAccountable'
  BY <1>19, ConstantsOK DEF SweepFails, HeldInProgress, NoSweep
<1>20. ASSUME Crash PROVE HoldersAccountable'
  BY <1>20, ConstantsOK DEF Crash, Interrupted, HeldInProgress
<1>21. ASSUME UNCHANGED vars PROVE HoldersAccountable'
  BY <1>21 DEF vars
<1> QED
  BY <1>1, <1>2, <1>3, <1>4, <1>5, <1>6, <1>7, <1>8, <1>9, <1>10, <1>11, <1>12,
     <1>13, <1>14, <1>15, <1>16, <1>17, <1>18, <1>19, <1>20, <1>21
  DEF Next, BeatStep, Handler, Sweeper

\* Every write of created or planned finds no claim or races the task.
LEMMA OfferedNext == ASSUME TypeOK, OfferedIsFree, [Next]_vars PROVE OfferedIsFree'
<1> USE DEF TypeOK, OfferedIsFree
<1>1. ASSUME NEW b \in Beat, BeatStep(b) PROVE OfferedIsFree'
  <2>1. CASE ReleaseClaims(b)
    BY <2>1 DEF ReleaseClaims, ReleaseTasks
  <2>2. ASSUME NEW t \in Task, Restate(b, t) PROVE OfferedIsFree'
    BY <2>2 DEF Restate, Note
  <2>3. CASE BeginBeat(b) \/ EndBeat(b) \/ ReleaseClaimsFails(b) \/ FinishRun(b)
    BY <2>3 DEF BeginBeat, EndBeat, ReleaseClaimsFails, FinishRun
  <2> QED BY <1>1, <2>1, <2>2, <2>3 DEF BeatStep
<1>2. ASSUME NEW b \in Beat, Request(b) PROVE OfferedIsFree'
  BY <1>2 DEF Request, RequestClaim, AttachArtifact, RequestComplete, RequestBlock
<1>3. ASSUME NEW b \in Beat, Handler(b) PROVE OfferedIsFree'
  <2>1. CASE ClaimWins(b)
    BY <2>1 DEF ClaimWins
  <2>2. CASE MirrorClaim(b)
    BY <2>2 DEF MirrorClaim
  <2>3. CASE Complete(b)
    BY <2>3 DEF Complete
  <2>4. ASSUME NEW d \in Task, Promote(b, d) PROVE OfferedIsFree'
    BY <2>4 DEF Promote, Note
  <2>5. CASE Block(b)
    BY <2>5 DEF Block
  <2>6. CASE ClearClaim(b)
    BY <2>6 DEF ClearClaim
  <2>7. CASE \/ ClaimLoses(b) \/ GateRejects(b) \/ ReadDependents(b) \/ ClearClaimFails(b)
             \/ HandlerFails(b)
    BY <2>7 DEF ClaimLoses, GateRejects, ReadDependents, ClearClaimFails, HandlerFails
  <2> QED BY <1>3, <2>1, <2>2, <2>3, <2>4, <2>5, <2>6, <2>7 DEF Handler
<1>4. ASSUME Sweeper PROVE OfferedIsFree'
  <2>1. CASE ReleaseStranded
    BY <2>1 DEF ReleaseStranded, ReleaseTasks
  <2>2. CASE (\E rows \in SUBSET Overdue : FindStranded(rows)) \/ SweepFails
    BY <2>2 DEF FindStranded, SweepFails
  <2>3. ASSUME NEW b \in Beat, MarkStranded(b) PROVE OfferedIsFree'
    BY <2>3 DEF MarkStranded
  <2> QED BY <1>4, <2>1, <2>2, <2>3 DEF Sweeper
<1>5. ASSUME Crash PROVE OfferedIsFree'
  BY <1>5 DEF Crash
<1>6. ASSUME UNCHANGED vars PROVE OfferedIsFree'
  BY <1>6 DEF vars
<1> QED BY <1>1, <1>2, <1>3, <1>4, <1>5, <1>6 DEF Next

\* While a block call has its own claim still to clear, nobody else puts the
\* task back to work.
LEMMA ClearsNext == ASSUME TypeOK, ClearsBlocked, [Next]_vars PROVE ClearsBlocked'
<1> USE DEF TypeOK, ClearsBlocked
<1>1. ASSUME NEW b \in Beat, BeatStep(b) PROVE ClearsBlocked'
  <2>1. CASE ReleaseClaims(b)
    BY <2>1, ConstantsOK DEF ReleaseClaims, ReleaseTasks, HeldInProgress
  <2>2. ASSUME NEW t \in Task, Restate(b, t) PROVE ClearsBlocked'
    BY <2>2, ConstantsOK DEF Restate, Note
  <2>3. CASE BeginBeat(b) \/ EndBeat(b) \/ ReleaseClaimsFails(b) \/ FinishRun(b)
    BY <2>3 DEF BeginBeat, EndBeat, ReleaseClaimsFails, FinishRun
  <2> QED BY <1>1, <2>1, <2>2, <2>3 DEF BeatStep
<1>2. ASSUME NEW b \in Beat, Request(b) PROVE ClearsBlocked'
  BY <1>2 DEF Request, RequestClaim, AttachArtifact, RequestComplete, RequestBlock
<1>3. ASSUME NEW b \in Beat, Handler(b) PROVE ClearsBlocked'
  <2>1. CASE ClaimWins(b)
    BY <2>1, ConstantsOK DEF ClaimWins
  <2>2. CASE MirrorClaim(b)
    BY <2>2 DEF MirrorClaim, Note, Idle
  <2>3. CASE Complete(b)
    BY <2>3 DEF Complete, Note
  <2>4. ASSUME NEW d \in Task, Promote(b, d) PROVE ClearsBlocked'
    <3>1. \A c \in Beat \ {b} : call'[c] = call[c]
      BY <2>4 DEF Promote
    <3>2. call'[b].at # "clear"
      BY <2>4 DEF Promote, Idle
    <3> QED BY <2>4, <3>1, <3>2 DEF Promote, Note
  <2>5. CASE Block(b)
    BY <2>5 DEF Block, Note
  <2>6. CASE ClearClaim(b)
    BY <2>6, ConstantsOK DEF ClearClaim, Idle
  <2>7. CASE \/ ClaimLoses(b) \/ GateRejects(b) \/ ReadDependents(b) \/ ClearClaimFails(b)
             \/ HandlerFails(b)
    <3>1. \A c \in Beat \ {b} : call'[c] = call[c]
      BY <2>7 DEF ClaimLoses, GateRejects, ReadDependents, ClearClaimFails, HandlerFails
    <3>2. call'[b].at # "clear"
      BY <2>7 DEF ClaimLoses, GateRejects, ReadDependents, ClearClaimFails, HandlerFails, Idle
    <3>3. UNCHANGED <<status, checkout>> /\ raced \subseteq raced'
      BY <2>7 DEF ClaimLoses, GateRejects, ReadDependents, ClearClaimFails, HandlerFails
    <3> QED BY <3>1, <3>2, <3>3
  <2> QED BY <1>3, <2>1, <2>2, <2>3, <2>4, <2>5, <2>6, <2>7 DEF Handler
<1>4. ASSUME Sweeper PROVE ClearsBlocked'
  <2>1. CASE ReleaseStranded
    BY <2>1, ConstantsOK DEF ReleaseStranded, ReleaseTasks, HeldInProgress
  <2>2. CASE (\E rows \in SUBSET Overdue : FindStranded(rows)) \/ SweepFails
    BY <2>2 DEF FindStranded, SweepFails
  <2>3. ASSUME NEW b \in Beat, MarkStranded(b) PROVE ClearsBlocked'
    BY <2>3 DEF MarkStranded
  <2> QED BY <1>4, <2>1, <2>2, <2>3 DEF Sweeper
<1>5. ASSUME Crash PROVE ClearsBlocked'
  BY <1>5 DEF Crash, Idle
<1>6. ASSUME UNCHANGED vars PROVE ClearsBlocked'
  BY <1>6 DEF vars
<1> QED BY <1>1, <1>2, <1>3, <1>4, <1>5, <1>6 DEF Next

\* A blocked task either is free or has its blocking call about to free it.
LEMMA BlockedNext ==
  ASSUME TypeOK, BlockedIsReclaimable, [Next]_vars
  PROVE  BlockedIsReclaimable'
<1> USE DEF TypeOK, BlockedIsReclaimable
<1>1. ASSUME NEW b \in Beat, BeatStep(b) PROVE BlockedIsReclaimable'
  <2>1. CASE ReleaseClaims(b)
    BY <2>1 DEF ReleaseClaims, ReleaseTasks, HeldInProgress
  <2>2. ASSUME NEW t \in Task, Restate(b, t) PROVE BlockedIsReclaimable'
    BY <2>2 DEF Restate
  <2>3. CASE BeginBeat(b) \/ EndBeat(b) \/ ReleaseClaimsFails(b) \/ FinishRun(b)
    BY <2>3 DEF BeginBeat, EndBeat, ReleaseClaimsFails, FinishRun
  <2> QED BY <1>1, <2>1, <2>2, <2>3 DEF BeatStep
<1>2. ASSUME NEW b \in Beat, Request(b) PROVE BlockedIsReclaimable'
  <2>1. /\ UNCHANGED <<status, checkout, raced>>
        /\ \A c \in Beat : call[c].at = "clear" => call'[c] = call[c]
    BY <1>2 DEF Request, RequestClaim, AttachArtifact, RequestComplete,
                RequestBlock, CanCall
  <2> QED BY <2>1
<1>3. ASSUME NEW b \in Beat, Handler(b) PROVE BlockedIsReclaimable'
  <2>1. CASE ClaimWins(b)
    BY <2>1 DEF ClaimWins
  <2>2. CASE MirrorClaim(b)
    BY <2>2 DEF MirrorClaim
  <2>3. CASE Complete(b)
    BY <2>3 DEF Complete
  <2>4. ASSUME NEW d \in Task, Promote(b, d) PROVE BlockedIsReclaimable'
    <3>1. \A c \in Beat : call[c].at = "clear" => call'[c] = call[c]
      BY <2>4 DEF Promote
    <3> QED BY <2>4, <3>1 DEF Promote
  <2>5. CASE Block(b)
    BY <2>5 DEF Block, Note
  <2>6. CASE ClearClaim(b)
    <3>1. \A c \in Beat \ {b} : call'[c] = call[c]
      BY <2>6 DEF ClearClaim
    <3> QED BY <2>6, <3>1 DEF ClearClaim
  <2>7. CASE ClaimLoses(b) \/ GateRejects(b) \/ ReadDependents(b) \/ HandlerFails(b)
    <3>1. \A c \in Beat : call[c].at = "clear" => call'[c] = call[c]
      BY <2>7 DEF ClaimLoses, GateRejects, ReadDependents, HandlerFails
    <3>2. UNCHANGED <<status, checkout>> /\ raced \subseteq raced'
      BY <2>7 DEF ClaimLoses, GateRejects, ReadDependents, HandlerFails
    <3> QED BY <3>1, <3>2
  <2>8. CASE ClearClaimFails(b)
    <3>1. \A c \in Beat \ {b} : call'[c] = call[c]
      BY <2>8 DEF ClearClaimFails
    <3> QED BY <2>8, <3>1 DEF ClearClaimFails
  <2> QED BY <1>3, <2>1, <2>2, <2>3, <2>4, <2>5, <2>6, <2>7, <2>8 DEF Handler
<1>4. ASSUME Sweeper PROVE BlockedIsReclaimable'
  <2>1. CASE ReleaseStranded
    BY <2>1 DEF ReleaseStranded, ReleaseTasks, HeldInProgress
  <2>2. CASE (\E rows \in SUBSET Overdue : FindStranded(rows)) \/ SweepFails
    BY <2>2 DEF FindStranded, SweepFails
  <2>3. ASSUME NEW b \in Beat, MarkStranded(b) PROVE BlockedIsReclaimable'
    BY <2>3 DEF MarkStranded
  <2> QED BY <1>4, <2>1, <2>2, <2>3 DEF Sweeper
<1>5. ASSUME Crash PROVE BlockedIsReclaimable'
  BY <1>5, ConstantsOK DEF Crash, Interrupted
<1>6. ASSUME UNCHANGED vars PROVE BlockedIsReclaimable'
  BY <1>6 DEF vars
<1> QED BY <1>1, <1>2, <1>3, <1>4, <1>5, <1>6 DEF Next

-----------------------------------------------------------------------------
(* What agents believe, and the promotion of dependents.                    *)

\* A reply changes the mind of its own agent only, and only while it works.
LEMMA HeardFrame ==
  ASSUME TypeOK, NEW b \in Beat, NEW r, NEW m, Hear(b, r, m)
  PROVE  /\ \A c \in Beat \ {b} : mine'[c] = mine[c]
         /\ beat[b] = "working" => mine'[b] = m
         /\ beat[b] # "working" => mine' = mine
  BY DEF TypeOK, Hear

\* The reply to a completion takes the task from its own agent's mind or, when
\* it is lost, leaves it there.
LEMMA ClosedFrame ==
  ASSUME TypeOK, NEW b \in Beat, HearClosed(b)
  PROVE  /\ \A c \in Beat \ {b} : mine'[c] = mine[c]
         /\ beat[b] = "working" => mine'[b] \subseteq mine[b]
         /\ beat[b] # "working" => mine' = mine
  BY HeardFrame DEF HearClosed

\* A task that was written out of turn stays noted.
LEMMA RacedGrows == ASSUME [Next]_vars PROVE raced \subseteq raced'
<1>1. ASSUME NEW b \in Beat, BeatStep(b) PROVE raced \subseteq raced'
  BY <1>1 DEF BeatStep, BeginBeat, EndBeat, ReleaseClaims, ReleaseClaimsFails, Restate, FinishRun
<1>2. ASSUME NEW b \in Beat, Request(b) PROVE raced \subseteq raced'
  BY <1>2 DEF Request, RequestClaim, AttachArtifact, RequestComplete, RequestBlock
<1>3. ASSUME NEW b \in Beat, Handler(b) PROVE raced \subseteq raced'
  <2>1. CASE ClaimWins(b) \/ MirrorClaim(b) \/ Complete(b) \/ (\E d \in Task : Promote(b, d))
    BY <2>1 DEF ClaimWins, MirrorClaim, Complete, Promote
  <2>2. CASE Block(b) \/ ClearClaim(b) \/ ClearClaimFails(b)
    BY <2>2 DEF Block, ClearClaim, ClearClaimFails
  <2>3. CASE ClaimLoses(b) \/ GateRejects(b) \/ ReadDependents(b) \/ HandlerFails(b)
    BY <2>3 DEF ClaimLoses, GateRejects, ReadDependents, HandlerFails
  <2> QED BY <1>3, <2>1, <2>2, <2>3 DEF Handler
<1>4. ASSUME Sweeper \/ Crash \/ UNCHANGED vars PROVE raced \subseteq raced'
  BY <1>4 DEF Sweeper, FindStranded, MarkStranded, ReleaseStranded, SweepFails, Crash, vars
<1> QED BY <1>1, <1>2, <1>3, <1>4 DEF Next

\* Who writes what into a status: nobody "created", only a completion
\* "completed" (mutations.ts:343-458).
LEMMA StatusWrites ==
  ASSUME TypeOK, [Next]_vars, NEW u \in Task
  PROVE  \/ status'[u] = status[u]
         \/ status'[u] \notin {"created", "completed"}
         \/ /\ status'[u] = "completed"
            /\ \E b \in Beat : Complete(b) /\ u = call[b].task
<1> USE DEF TypeOK
<1> DEFINE Goal == \/ status'[u] = status[u]
                   \/ status'[u] \notin {"created", "completed"}
                   \/ /\ status'[u] = "completed"
                      /\ \E b \in Beat : Complete(b) /\ u = call[b].task
<1>1. ASSUME NEW b \in Beat, BeatStep(b) PROVE Goal
  <2>1. CASE ReleaseClaims(b)
    BY <2>1 DEF ReleaseClaims, ReleaseTasks
  <2>2. CASE \E t \in Task : Restate(b, t)
    BY <2>2 DEF Restate
  <2>3. CASE BeginBeat(b) \/ EndBeat(b) \/ ReleaseClaimsFails(b) \/ FinishRun(b)
    BY <2>3 DEF BeginBeat, EndBeat, ReleaseClaimsFails, FinishRun
  <2> QED BY <1>1, <2>1, <2>2, <2>3 DEF BeatStep
<1>2. ASSUME NEW b \in Beat, Request(b) PROVE Goal
  BY <1>2 DEF Request, RequestClaim, AttachArtifact, RequestComplete, RequestBlock
<1>3. ASSUME NEW b \in Beat, Handler(b) PROVE Goal
  <2>1. CASE ClaimWins(b) \/ MirrorClaim(b)
    BY <2>1 DEF ClaimWins, MirrorClaim
  <2>2. CASE Complete(b)
    <3>1. status' = [status EXCEPT ![call[b].task] = "completed"]
      BY <2>2 DEF Complete
    <3> QED BY <2>2, <3>1
  <2>3. CASE (\E d \in Task : Promote(b, d)) \/ Block(b)
    BY <2>3 DEF Promote, Block
  <2>4. CASE ClaimLoses(b) \/ GateRejects(b) \/ ReadDependents(b) \/ ClearClaim(b)
             \/ ClearClaimFails(b) \/ HandlerFails(b)
    BY <2>4 DEF ClaimLoses, GateRejects, ReadDependents, ClearClaim, ClearClaimFails,
       HandlerFails
  <2> QED BY <1>3, <2>1, <2>2, <2>3, <2>4 DEF Handler
<1>4. ASSUME Sweeper PROVE Goal
  <2>1. CASE ReleaseStranded
    BY <2>1 DEF ReleaseStranded, ReleaseTasks
  <2>2. CASE ~ReleaseStranded
    BY <1>4, <2>2 DEF Sweeper, FindStranded, MarkStranded, SweepFails
  <2> QED BY <2>1, <2>2
<1>5. ASSUME Crash \/ UNCHANGED vars PROVE Goal
  BY <1>5 DEF Crash, vars
<1> QED BY <1>1, <1>2, <1>3, <1>4, <1>5 DEF Next

\* Minds are emptied when the prompt ends, and replies to a beat that has ended
\* are not heard (run-beat.ts:252).
LEMMA OnlyWorkersNext ==
  ASSUME TypeOK, OnlyWorkersBelieve, [Next]_vars PROVE OnlyWorkersBelieve'
<1> USE DEF TypeOK, OnlyWorkersBelieve
<1>1. ASSUME NEW b \in Beat, BeatStep(b) PROVE OnlyWorkersBelieve'
  <2>1. CASE EndBeat(b)
    BY <2>1 DEF EndBeat, Forget
  <2>2. CASE BeginBeat(b)
    BY <2>2 DEF BeginBeat
  <2>3. CASE ~EndBeat(b) /\ ~BeginBeat(b)
    <3>1. CASE ReleaseClaims(b) \/ ReleaseClaimsFails(b)
      BY <3>1 DEF ReleaseClaims, ReleaseClaimsFails
    <3>2. CASE \E t \in Task : Restate(b, t)
      BY <3>2 DEF Restate
    <3>3. CASE FinishRun(b)
      BY <3>3 DEF FinishRun
    <3> QED BY <1>1, <2>3, <3>1, <3>2, <3>3 DEF BeatStep
  <2> QED BY <2>1, <2>2, <2>3
<1>2. ASSUME NEW b \in Beat, Request(b) PROVE OnlyWorkersBelieve'
  BY <1>2 DEF Request, RequestClaim, AttachArtifact, RequestComplete, RequestBlock
<1>3. ASSUME NEW b \in Beat, Handler(b) PROVE OnlyWorkersBelieve'
  <2>1. beat' = beat
    BY <1>3, CallsLeaveBeats
  <2>2. /\ \A c \in Beat \ {b} : mine'[c] = mine[c]
        /\ beat[b] # "working" => mine' = mine
    BY <1>3, HeardFrame, ClosedFrame
    DEF Handler, ClaimWins, ClaimLoses, MirrorClaim, GateRejects, Complete, ReadDependents,
        Promote, Block, ClearClaim, ClearClaimFails, HandlerFails
  <2> QED BY <2>1, <2>2
<1>4. ASSUME Sweeper PROVE OnlyWorkersBelieve'
  BY <1>4 DEF Sweeper, FindStranded, MarkStranded, ReleaseStranded, SweepFails
<1>5. ASSUME Crash PROVE OnlyWorkersBelieve'
  BY <1>5 DEF Crash
<1>6. ASSUME UNCHANGED vars PROVE OnlyWorkersBelieve'
  BY <1>6 DEF vars
<1> QED BY <1>1, <1>2, <1>3, <1>4, <1>5, <1>6 DEF Next

\* What an agent at work believes becomes false only in steps that are noted:
\* the releases are of beats that ended, the CAS needs a free task, and a clear
\* of another beat's claim is out of turn (claim.ts:54-77, 103-121).
LEMMA BeliefNext ==
  ASSUME TypeOK, SweptHaveEnded, OnlyWorkersBelieve, BeliefIsTrue, [Next]_vars
  PROVE  BeliefIsTrue'
<1> USE DEF TypeOK, BeliefIsTrue
<1>0. raced \subseteq raced'
  BY RacedGrows
<1>1. ASSUME NEW b \in Beat, BeatStep(b) PROVE BeliefIsTrue'
  <2>1. CASE EndBeat(b)
    <3>1. checkout' = checkout /\ beat'[b] # "working"
          /\ \A c \in Beat \ {b} : mine'[c] = mine[c] /\ beat'[c] = beat[c]
      BY <2>1 DEF EndBeat, Forget
    <3> QED BY <3>1, <1>0
  <2>2. CASE BeginBeat(b)
    <3>1. checkout' = checkout /\ mine' = mine /\ mine[b] = {}
          /\ \A c \in Beat \ {b} : beat'[c] = beat[c]
      BY <2>2 DEF BeginBeat, OnlyWorkersBelieve
    <3> QED BY <3>1, <1>0
  <2>3. CASE ReleaseClaims(b)
    <3>1. mine' = mine /\ beat[b] # "working" /\ beat'[b] # "working"
          /\ \A c \in Beat \ {b} : beat'[c] = beat[c]
      BY <2>3 DEF ReleaseClaims
    <3>2. \A t \in Task : checkout[t] # b => checkout'[t] = checkout[t]
      BY <2>3 DEF ReleaseClaims, ReleaseTasks, HeldInProgress
    <3> QED BY <3>1, <3>2, <1>0
  <2>4. CASE ReleaseClaimsFails(b) \/ (\E t \in Task : Restate(b, t)) \/ FinishRun(b)
    <3>1. mine' = mine /\ checkout' = checkout /\ beat'[b] # "working"
          /\ \A c \in Beat \ {b} : beat'[c] = beat[c]
      <4>1. CASE ReleaseClaimsFails(b)
        BY <4>1 DEF ReleaseClaimsFails
      <4>2. CASE \E t \in Task : Restate(b, t)
        BY <4>2 DEF Restate
      <4>3. CASE FinishRun(b)
        BY <4>3 DEF FinishRun
      <4> QED BY <2>4, <4>1, <4>2, <4>3
    <3> QED BY <3>1, <1>0
  <2> QED BY <1>1, <2>1, <2>2, <2>3, <2>4 DEF BeatStep
<1>2. ASSUME NEW b \in Beat, Request(b) PROVE BeliefIsTrue'
  <2>1. mine' = mine /\ checkout' = checkout /\ beat' = beat
    BY <1>2 DEF Request, RequestClaim, AttachArtifact, RequestComplete, RequestBlock
  <2> QED BY <2>1, <1>0
<1>3. ASSUME NEW b \in Beat, Handler(b) PROVE BeliefIsTrue'
  <2>0. beat' = beat
    BY <1>3, CallsLeaveBeats
  <2>1. CASE ClaimWins(b)
    <3>1. mine' = mine /\ \A t \in Task : checkout[t] # NoBeat => checkout'[t] = checkout[t]
      BY <2>1 DEF ClaimWins
    <3> QED BY <2>0, <3>1, <1>0, ConstantsOK
  <2>2. CASE MirrorClaim(b)
    <3> DEFINE t == call[b].task
    <3>1. checkout' = checkout /\ (checkout[t] # b => t \in raced')
      BY <2>2 DEF MirrorClaim, Note
    <3>2. /\ \A c \in Beat \ {b} : mine'[c] = mine[c]
          /\ beat[b] = "working" => mine'[b] = mine[b] \cup {t}
      BY <2>2, HeardFrame DEF MirrorClaim
    <3> HIDE DEF t
    <3> QED BY <2>0, <3>1, <3>2, <1>0
  <2>3. CASE ClearClaim(b)
    <3> DEFINE t == call[b].task
    <3>1. /\ \A u \in Task \ {t} : checkout'[u] = checkout[u]
          /\ checkout[t] # b => t \in raced'
      BY <2>3 DEF ClearClaim, Note
    <3>2. /\ \A c \in Beat \ {b} : mine'[c] = mine[c]
          /\ beat[b] = "working" => mine'[b] = mine[b] \ {t}
      BY <2>3, HeardFrame DEF ClearClaim
    <3> HIDE DEF t
    <3> SUFFICES ASSUME NEW c \in Beat, NEW u \in mine'[c] \ raced', beat'[c] = "working"
                 PROVE  checkout'[u] = c
      BY DEF BeliefIsTrue
    <3>3. u \in mine[c] \ raced /\ u \in Task /\ checkout[u] = c
      BY <2>0, <3>2, <1>0
    <3>4. u # t
      BY <3>1, <3>2, <3>3, <2>0
    <3> QED BY <3>1, <3>3, <3>4
  <2>4. CASE \/ ClaimLoses(b) \/ GateRejects(b) \/ Complete(b) \/ ReadDependents(b)
             \/ (\E d \in Task : Promote(b, d)) \/ Block(b) \/ ClearClaimFails(b)
             \/ HandlerFails(b)
    <3>1. checkout' = checkout
      BY <2>4 DEF ClaimLoses, GateRejects, Complete, ReadDependents, Promote, Block,
         ClearClaimFails, HandlerFails
    <3>2. /\ \A c \in Beat \ {b} : mine'[c] = mine[c]
          /\ beat[b] = "working" => mine'[b] \subseteq mine[b]
      <4>1. CASE ClaimLoses(b) \/ GateRejects(b) \/ Complete(b) \/ Block(b) \/ HandlerFails(b)
        BY <4>1 DEF ClaimLoses, GateRejects, Complete, Block, HandlerFails
      <4>2. CASE ReadDependents(b)
        BY <4>2, ClosedFrame DEF ReadDependents
      <4>3. ASSUME NEW d \in Task, Promote(b, d)
            PROVE  /\ \A c \in Beat \ {b} : mine'[c] = mine[c]
                   /\ beat[b] = "working" => mine'[b] \subseteq mine[b]
        BY <4>3, ClosedFrame DEF Promote
      <4>4. CASE ClearClaimFails(b)
        BY <4>4, HeardFrame DEF ClearClaimFails
      <4> QED BY <2>4, <4>1, <4>2, <4>3, <4>4
    <3> QED BY <2>0, <3>1, <3>2, <1>0
  <2> QED BY <1>3, <2>1, <2>2, <2>3, <2>4 DEF Handler
<1>4. ASSUME Sweeper PROVE BeliefIsTrue'
  <2>1. CASE ReleaseStranded
    <3>1. mine' = mine /\ beat' = beat
      BY <2>1 DEF ReleaseStranded
    <3>2. \A t \in Task : checkout[t] # sweep.marked => checkout'[t] = checkout[t]
      BY <2>1 DEF ReleaseStranded, ReleaseTasks, HeldInProgress
    <3> QED BY <3>1, <3>2, <1>0 DEF SweptHaveEnded
  <2>2. CASE ~ReleaseStranded
    <3>1. mine' = mine /\ beat' = beat /\ checkout' = checkout
      BY <1>4, <2>2 DEF Sweeper, FindStranded, MarkStranded, SweepFails
    <3> QED BY <3>1, <1>0
  <2> QED BY <2>1, <2>2
<1>5. ASSUME Crash PROVE BeliefIsTrue'
  BY <1>5 DEF Crash
<1>6. ASSUME UNCHANGED vars PROVE BeliefIsTrue'
  BY <1>6 DEF vars
<1> QED BY <1>1, <1>2, <1>3, <1>4, <1>5, <1>6 DEF Next

\* Only the completion of one of its dependencies makes a task promotable:
\* nothing writes "created".
LEMMA PromotableNext ==
  ASSUME TypeOK, [Next]_vars, NEW t \in Task, t \in Promotable', t \notin Promotable
  PROVE  \E b \in Beat : Complete(b) /\ call[b].task \in Deps[t]
<1> USE DEF TypeOK
<1>1. status[t] = "created" /\ Deps[t] # {}
  BY StatusWrites DEF Promotable
<1>2. PICK d \in Deps[t] : status'[d] = "completed" /\ status[d] # "completed"
  BY <1>1 DEF Promotable
<1>3. d \in Task
  BY <1>2, ConstantsOK
<1>4. PICK b \in Beat : Complete(b) /\ d = call[b].task
  BY <1>2, <1>3, StatusWrites
<1> QED BY <1>2, <1>4

\* A call on its way to promote t, when t is promotable.
OnItsWay(b, t) ==
    \/ call[b].at = "dependents" /\ call[b].task \in Deps[t]
    \/ call[b].at = "promote" /\ t \in call[b].rest

\* A handler moves its own call on and no other.
LEMMA HandlersOwnCall ==
  ASSUME TypeOK, NEW b \in Beat, Handler(b), NEW c \in Beat, c # b
  PROVE  call'[c] = call[c]
<1> USE DEF TypeOK
<1>1. CASE ClaimWins(b) \/ ClaimLoses(b) \/ MirrorClaim(b) \/ GateRejects(b)
  BY <1>1 DEF ClaimWins, ClaimLoses, MirrorClaim, GateRejects
<1>2. CASE Complete(b) \/ ReadDependents(b)
  BY <1>2 DEF Complete, ReadDependents
<1>3. CASE \E d \in Task : Promote(b, d)
  BY <1>3 DEF Promote
<1>4. CASE Block(b) \/ ClearClaim(b) \/ ClearClaimFails(b) \/ HandlerFails(b)
  BY <1>4 DEF Block, ClearClaim, ClearClaimFails, HandlerFails
<1> QED BY <1>1, <1>2, <1>3, <1>4 DEF Handler

\* Such a call goes on until t is promoted; a crash or a throwing statement cuts
\* it short, and is noted unless another call is on its way to t.
LEMMA PromotedNext ==
  ASSUME TypeOK, DependentsPromoted, [Next]_vars PROVE DependentsPromoted'
<1> USE DEF TypeOK
<1>0. Promotable' \subseteq Task
  BY DEF Promotable
<1> SUFFICES ASSUME NEW t \in Task, t \in Promotable', t \notin raced'
             PROVE  \E b \in Beat : OnItsWay(b, t)'
  BY <1>0 DEF DependentsPromoted, Unpromoted, OnItsWay
<1>1. CASE t \notin Promotable
  <2>1. PICK b \in Beat : Complete(b) /\ call[b].task \in Deps[t]
    BY <1>1, PromotableNext
  <2>2. call'[b].at = "dependents" /\ call'[b].task = call[b].task
    BY <2>1 DEF Complete
  <2> QED BY <2>1, <2>2 DEF OnItsWay
<1>2. CASE t \in Promotable
  <2>1. t \notin raced
    BY RacedGrows
  <2>2. PICK b \in Beat : OnItsWay(b, t)
    BY <1>2, <2>1 DEF DependentsPromoted, Unpromoted, OnItsWay
  <2>3. ASSUME call'[b] = call[b] PROVE OnItsWay(b, t)'
    BY <2>2, <2>3 DEF OnItsWay
  <2>4. CASE ReadDependents(b)
    <3>1. call'[b].at = "promote" /\ call'[b].rest = Promotable
      BY <1>2, <2>4 DEF ReadDependents
    <3> QED BY <1>2, <3>1 DEF OnItsWay
  <2>5. ASSUME NEW d \in Task, Promote(b, d) PROVE OnItsWay(b, t)'
    <3>1. t # d
      BY <2>5 DEF Promote, Promotable
    <3>2. call[b].at = "promote" /\ t \in call[b].rest
      BY <2>2, <2>5 DEF OnItsWay, Promote
    <3>3. call'[b].at = "promote" /\ call'[b].rest = call[b].rest \ {d}
      BY <2>5, <3>1, <3>2 DEF Promote
    <3> QED BY <3>1, <3>2, <3>3 DEF OnItsWay
  <2>6. CASE Crash
    BY <1>2, <2>2, <2>6 DEF Crash, Interrupted, Unpromoted, OnItsWay
  <2>7. CASE HandlerFails(b)
    <3>1. t \in Unpromoted(b)
      BY <1>2, <2>2 DEF Unpromoted, OnItsWay
    <3>2. PICK c \in Beat \ {b} : t \in Unpromoted(c)
      BY <2>7, <3>1 DEF HandlerFails
    <3>3. call'[c] = call[c]
      BY <2>7 DEF HandlerFails
    <3> QED BY <3>2, <3>3 DEF Unpromoted, OnItsWay
  <2>8. CASE /\ ~ReadDependents(b) /\ ~(\E d \in Task : Promote(b, d))
             /\ ~Crash /\ ~HandlerFails(b)
    <3>1. ASSUME NEW c \in Beat, BeatStep(c) PROVE call' = call
      BY <3>1 DEF BeatStep, BeginBeat, EndBeat, ReleaseClaims, ReleaseClaimsFails, Restate,
         FinishRun
    <3>2. ASSUME NEW c \in Beat, Request(c) PROVE call'[b] = call[b]
      BY <2>2, <3>2 DEF Request, RequestClaim, AttachArtifact, RequestComplete, RequestBlock,
         CanCall, OnItsWay
    <3>3. ASSUME NEW c \in Beat, Handler(c) PROVE call'[b] = call[b]
      <4>1. CASE c # b
        BY <3>3, <4>1, HandlersOwnCall
      <4>2. CASE c = b
        BY <2>2, <2>8, <3>3, <4>2 DEF OnItsWay, Handler, ClaimWins, ClaimLoses, MirrorClaim,
           GateRejects, Complete, Block, ClearClaim, ClearClaimFails
      <4> QED BY <4>1, <4>2
    <3>4. ASSUME Sweeper PROVE call' = call
      BY <3>4 DEF Sweeper, FindStranded, MarkStranded, ReleaseStranded, SweepFails
    <3>5. ASSUME UNCHANGED vars PROVE call' = call
      BY <3>5 DEF vars
    <3> QED BY <2>3, <2>8, <3>1, <3>2, <3>3, <3>4, <3>5 DEF Next
  <2> QED BY <2>4, <2>5, <2>6, <2>7, <2>8
<1> QED BY <1>1, <1>2

\* Every step keeps the inductive invariant.
LEMMA IInvNext == ASSUME IInv, [Next]_vars PROVE IInv'
  BY TypeNext, RowsNext, SweptNext, ClearsNext, HoldersNext, OfferedNext, BlockedNext,
     OnlyWorkersNext, BeliefNext, PromotedNext
  DEF IInv

\* IInv holds in every reachable state.
THEOREM Inductive == Spec => []IInv
<1>1. Init => IInv BY IInvInit
<1>2. IInv /\ [Next]_vars => IInv' BY IInvNext
<1> QED BY <1>1, <1>2, PTL DEF Spec

-----------------------------------------------------------------------------
(* What follows from it.                                                    *)

\* Work on offer is free, for any number of beats, tasks and crashes and with
\* every swallowed error: the CAS of the next claimant can match.
THEOREM OfferIsSafe == Spec => []OfferedIsFree
<1>1. IInv => OfferedIsFree BY DEF IInv
<1> QED BY <1>1, Inductive, PTL

\* A blocked task is never locked away (claim.ts:92-101).
THEOREM BlockIsSafe == Spec => []BlockedIsReclaimable
<1>1. IInv => BlockedIsReclaimable BY DEF IInv
<1> QED BY <1>1, Inductive, PTL

\* No failed or dead beat abandons a task in progress: the beat itself or the
\* sweeper is still going to free it (run-beat.ts:456, stranded-run-sweeper.ts:64).
\* The claims of beats that passed are outside it: nobody frees those.
THEOREM ClaimsAreAnswered == Spec => []ClaimsAnsweredFor
<1>1. IInv => ClaimsAnsweredFor
  BY DEF IInv, HoldersAccountable, ClaimsAnsweredFor, AnsweredFor
<1> QED BY <1>1, Inductive, PTL

\* A working agent holds what it was told it holds (claim.ts:54-77).
THEOREM BeliefsAreTrue == Spec => []BeliefIsTrue
<1>1. IInv => BeliefIsTrue BY DEF IInv
<1> QED BY <1>1, Inductive, PTL

\* Two agents at work never both believe that a task is theirs: the column has
\* room for one of them (claim.ts:54-77).
THEOREM NoTwoWorkers == Spec => []OneWorkerPerTask
<1>1. IInv => OneWorkerPerTask
  BY DEF IInv, TypeOK, BeliefIsTrue, OneWorkerPerTask
<1> QED BY <1>1, Inductive, PTL

\* No ready dependent is forgotten, in whichever order any number of
\* completions commit, unless the last call that was on its way to it died or
\* threw (mutations.ts:402-444).
THEOREM PromotionIsComplete == Spec => []DependentsPromoted
<1>1. IInv => DependentsPromoted BY DEF IInv
<1> QED BY <1>1, Inductive, PTL

=============================================================================
