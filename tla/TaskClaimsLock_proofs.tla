------------------------ MODULE TaskClaimsLock_proofs ------------------------
(* The claim columns implement the abstract lock of ClaimLock, and the claim *)
(* of a beat at work is respected: both from IInv of TaskClaims_proofs.      *)
EXTENDS TaskClaims_proofs

\* The refinement mapping of Lock, by name.
Ended == {b \in Beat : beat[b] \notin {"new", "working"}}

Yielding == {t \in Task : \E b \in Beat : call[b].at = "clear" /\ call[b].task = t}

\* An idle call is no block call.
LEMMA IdleIsNotClear == Idle.at # "clear"
  BY DEF Idle

\* What a call of one beat does to Yielding: nothing, when it neither enters
\* nor leaves the clear of a block;
LEMMA YieldingFrame ==
  ASSUME NEW b \in Beat, call[b].at # "clear", call'[b].at # "clear",
         \A c \in Beat \ {b} : call'[c] = call[c]
  PROVE  Yielding' = Yielding
<1>1. \A c \in Beat : call'[c].at = "clear" <=> call[c].at = "clear"
  OBVIOUS
<1>2. \A c \in Beat : call[c].at = "clear" => call'[c].task = call[c].task
  OBVIOUS
<1> QED BY <1>1, <1>2 DEF Yielding

\* it adds the task of a block whose status is written;
LEMMA YieldingEnters ==
  ASSUME NEW b \in Beat, NEW t \in Task, call[b].at # "clear",
         call'[b].at = "clear", call'[b].task = t,
         \A c \in Beat \ {b} : call'[c] = call[c]
  PROVE  Yielding' = Yielding \cup {t}
<1>1. ASSUME NEW u \in Task PROVE u \in Yielding' <=> u \in Yielding \/ u = t
  <2>1. CASE u \in Yielding
    <3>1. PICK c \in Beat : call[c].at = "clear" /\ call[c].task = u
      BY <2>1 DEF Yielding
    <3>2. call'[c] = call[c] BY <3>1
    <3> QED BY <2>1, <3>1, <3>2 DEF Yielding
  <2>2. CASE u = t
    BY <2>2 DEF Yielding
  <2>3. CASE u \notin Yielding /\ u # t
    <3>1. ASSUME NEW c \in Beat PROVE ~(call'[c].at = "clear" /\ call'[c].task = u)
      BY <2>3 DEF Yielding
    <3> QED BY <2>3, <3>1 DEF Yielding
  <2> QED BY <2>1, <2>2, <2>3
<1>2. Yielding \subseteq Task /\ Yielding' \subseteq Task
  BY DEF Yielding
<1> QED BY <1>1, <1>2

\* and at its end it keeps the task only if another block is under way on it.
LEMMA YieldingLeaves ==
  ASSUME NEW b \in Beat, NEW t \in Task, call[b].at = "clear", call[b].task = t,
         call'[b].at # "clear", \A c \in Beat \ {b} : call'[c] = call[c]
  PROVE  t \in Yielding /\ Yielding' \in {Yielding, Yielding \ {t}}
<1>1. t \in Yielding
  BY DEF Yielding
<1>2. ASSUME NEW u \in Task, u # t PROVE u \in Yielding' <=> u \in Yielding
  <2>1. \A c \in Beat : call'[c].at = "clear" /\ call'[c].task = u
                         <=> call[c].at = "clear" /\ call[c].task = u
    BY <1>2
  <2> QED BY <2>1 DEF Yielding
<1>3. Yielding \subseteq Task /\ Yielding' \subseteq Task
  BY DEF Yielding
<1>4. CASE t \in Yielding'
  <2>1. Yielding' = Yielding BY <1>1, <1>2, <1>3, <1>4
  <2> QED BY <1>1, <2>1
<1>5. CASE t \notin Yielding'
  <2>1. Yielding' = Yielding \ {t} BY <1>1, <1>2, <1>3, <1>5
  <2> QED BY <1>1, <2>1
<1> QED BY <1>4, <1>5

\* A beat's own code is a stutter of the lock, except that its end is End and
\* its cleanup is Reclaim.
LEMMA BeatStepMaps ==
  ASSUME IInv, NEW b \in Beat, BeatStep(b)
  PROVE  [Lock!LockNext]_(Lock!lockVars)
<1> USE DEF IInv, TypeOK
<1>1. CASE EndBeat(b)
  <2>1. checkout' = checkout /\ call' = call
    BY <1>1 DEF EndBeat
  <2>2. Ended' = Ended \cup {b}
    BY <1>1 DEF EndBeat, Ended
  <2>3. Yielding' = Yielding
    BY <2>1 DEF Yielding
  <2>4. Lock!End({b})
    BY <2>1, <2>2, <2>3 DEF Lock!End, Ended, Yielding
  <2> QED BY <2>4 DEF Lock!LockNext
<1>2. CASE ReleaseClaims(b)
  <2>1. call' = call /\ b \in Ended
    BY <1>2 DEF ReleaseClaims, Ended
  <2>2. Ended' = Ended /\ Yielding' = Yielding
    BY <1>2, <2>1 DEF ReleaseClaims, Ended, Yielding
  <2>3. /\ \A t \in HeldInProgress(b) : checkout[t] = b
        /\ checkout' = [t \in Task |-> IF t \in HeldInProgress(b) THEN NoBeat
                                                                ELSE checkout[t]]
    <3>1. \A t \in HeldInProgress(b) : checkout[t] = b
      BY DEF HeldInProgress
    <3> QED BY <1>2, <3>1 DEF ReleaseClaims, ReleaseTasks
  <2>4. Lock!Reclaim(b, HeldInProgress(b))
    BY <2>1, <2>2, <2>3 DEF Lock!Reclaim, Ended, Yielding
  <2> QED BY <2>4, HeldSubset DEF Lock!LockNext
<1>3. CASE ~EndBeat(b) /\ ~ReleaseClaims(b)
  <2>1. checkout' = checkout /\ call' = call
    BY <1>3 DEF BeatStep, BeginBeat, ReleaseClaimsFails, Restate, FinishRun
  <2>2. Ended' = Ended
    BY <1>3 DEF BeatStep, BeginBeat, ReleaseClaimsFails, Restate, FinishRun, Ended
  <2> QED BY <2>1, <2>2 DEF Lock!lockVars, Ended, Yielding
<1> QED BY <1>1, <1>2, <1>3

\* A request starts no block's clear and touches no claim: a stutter.
LEMMA RequestMaps ==
  ASSUME IInv, NEW b \in Beat, Request(b)
  PROVE  UNCHANGED Lock!lockVars
<1> USE DEF IInv, TypeOK
<1>1. checkout' = checkout /\ beat' = beat
  BY DEF Request, RequestClaim, AttachArtifact, RequestComplete, RequestBlock
<1>2. /\ call[b].at = "idle" /\ call'[b].at # "clear"
      /\ \A c \in Beat \ {b} : call'[c] = call[c]
  BY DEF Request, RequestClaim, AttachArtifact, RequestComplete, RequestBlock, CanCall
<1>3. Yielding' = Yielding
  BY <1>2, YieldingFrame
<1> QED BY <1>1, <1>3 DEF Lock!lockVars, Ended, Yielding

\* A handler's step: the CAS is Acquire, the block's status write Announce,
\* its clear Yield or Withdraw, and the rest a stutter.
LEMMA HandlerMaps ==
  ASSUME IInv, NEW b \in Beat, Handler(b)
  PROVE  [Lock!LockNext]_(Lock!lockVars)
<1> USE DEF IInv, TypeOK
<1>0. beat' = beat /\ Ended' = Ended
  BY CallsLeaveBeats DEF Ended
<1>1. CASE ClaimWins(b)
  <2> DEFINE t == call[b].task
  <2>1. /\ t \in Task /\ call[b].at = "claim" /\ call'[b].at = "mirror"
        /\ \A c \in Beat \ {b} : call'[c] = call[c]
    BY <1>1 DEF ClaimWins
  <2>2. checkout[t] = NoBeat /\ checkout' = [checkout EXCEPT ![t] = b]
    BY <1>1 DEF ClaimWins
  <2>3. Yielding' = Yielding
    BY <2>1, YieldingFrame
  <2>4. Lock!Acquire(b, t)
    BY <1>0, <2>2, <2>3 DEF Lock!Acquire, Ended, Yielding
  <2> QED BY <2>1, <2>4 DEF Lock!LockNext
<1>2. CASE Block(b)
  <2>0. PICK t \in Task : t = call[b].task
    BY <1>2 DEF Block
  <2>1. /\ call[b].at = "block"
        /\ call'[b].at = "clear" /\ call'[b].task = t
        /\ \A c \in Beat \ {b} : call'[c] = call[c]
    BY <1>2, <2>0 DEF Block
  <2>2. checkout' = checkout
    BY <1>2 DEF Block
  <2>3. Yielding' = Yielding \cup {t}
    BY <2>1, YieldingEnters
  <2>4. Lock!Announce(t)
    BY <1>0, <2>2, <2>3 DEF Lock!Announce, Ended, Yielding
  <2> QED BY <2>4 DEF Lock!LockNext
<1>3. CASE ClearClaim(b) \/ ClearClaimFails(b)
  <2>0. PICK t \in Task : t = call[b].task
    BY <1>3 DEF ClearClaim, ClearClaimFails
  <2>1. /\ call[b].at = "clear" /\ call'[b].at # "clear"
        /\ \A c \in Beat \ {b} : call'[c] = call[c]
    BY <1>3, <2>0, IdleIsNotClear DEF ClearClaim, ClearClaimFails
  <2>2. t \in Yielding /\ Yielding' \in {Yielding, Yielding \ {t}}
    BY <2>0, <2>1, YieldingLeaves
  <2>3. CASE ClearClaim(b)
    <3>1. checkout' = [checkout EXCEPT ![t] = NoBeat]
      BY <2>0, <2>3 DEF ClearClaim
    <3>2. Lock!Yield(t)
      BY <1>0, <2>2, <3>1 DEF Lock!Yield, Ended, Yielding
    <3> QED BY <3>2 DEF Lock!LockNext
  <2>4. CASE ClearClaimFails(b)
    <3>1. checkout' = checkout
      BY <2>4 DEF ClearClaimFails
    <3>2. Yielding' \in SUBSET Yielding
      BY <2>2
    <3>3. Lock!Withdraw
      BY <1>0, <3>1, <3>2 DEF Lock!Withdraw, Ended, Yielding
    <3> QED BY <3>3 DEF Lock!LockNext
  <2> QED BY <1>3, <2>3, <2>4
<1>4. CASE \/ ClaimLoses(b) \/ MirrorClaim(b) \/ GateRejects(b) \/ Complete(b)
           \/ ReadDependents(b) \/ HandlerFails(b) \/ \E d \in Task : Promote(b, d)
  <2>1. checkout' = checkout
    BY <1>4 DEF ClaimLoses, MirrorClaim, GateRejects, Complete, ReadDependents, Promote,
       HandlerFails
  <2>2. /\ call[b].at # "clear" /\ call'[b].at # "clear"
        /\ \A c \in Beat \ {b} : call'[c] = call[c]
    <3>1. CASE ClaimLoses(b) \/ MirrorClaim(b) \/ GateRejects(b)
      BY <3>1, IdleIsNotClear DEF ClaimLoses, MirrorClaim, GateRejects
    <3>2. CASE Complete(b)
      BY <3>2 DEF Complete
    <3>3. CASE ReadDependents(b)
      BY <3>3, IdleIsNotClear DEF ReadDependents
    <3>4. ASSUME NEW d \in Task, Promote(b, d)
          PROVE  /\ call[b].at # "clear" /\ call'[b].at # "clear"
                 /\ \A c \in Beat \ {b} : call'[c] = call[c]
      BY <3>4, IdleIsNotClear DEF Promote
    <3>5. CASE HandlerFails(b)
      BY <3>5, IdleIsNotClear DEF HandlerFails
    <3> QED BY <1>4, <3>1, <3>2, <3>3, <3>4, <3>5
  <2>3. Yielding' = Yielding
    BY <2>2, YieldingFrame
  <2> QED BY <1>0, <2>1, <2>3 DEF Lock!lockVars, Ended, Yielding
<1> QED BY <1>1, <1>2, <1>3, <1>4 DEF Handler

\* The sweeper's release is Reclaim, because whatever it marked has ended; its
\* other steps are stutters.
LEMMA SweeperMaps ==
  ASSUME IInv, Sweeper
  PROVE  [Lock!LockNext]_(Lock!lockVars)
<1> USE DEF IInv, TypeOK
<1>1. CASE ReleaseStranded
  <2> DEFINE b == sweep.marked
  <2>1. b \in Beat /\ b \in Ended
    BY <1>1 DEF ReleaseStranded, SweptHaveEnded, Ended
  <2>2. beat' = beat /\ call' = call
    BY <1>1 DEF ReleaseStranded
  <2>3. /\ \A t \in HeldInProgress(b) : checkout[t] = b
        /\ checkout' = [t \in Task |-> IF t \in HeldInProgress(b) THEN NoBeat
                                                                ELSE checkout[t]]
    BY <1>1 DEF ReleaseStranded, ReleaseTasks, HeldInProgress
  <2>4. Lock!Reclaim(b, HeldInProgress(b))
    BY <2>1, <2>2, <2>3 DEF Lock!Reclaim, Ended, Yielding
  <2> QED BY <2>1, <2>4, HeldSubset DEF Lock!LockNext
<1>2. CASE ~ReleaseStranded
  <2>1. checkout' = checkout /\ beat' = beat /\ call' = call
    BY <1>2 DEF Sweeper, FindStranded, MarkStranded, SweepFails
  <2> QED BY <2>1 DEF Lock!lockVars, Ended, Yielding
<1> QED BY <1>1, <1>2

\* A crash ends beats and block calls and leaves the claims alone.
LEMMA CrashMaps ==
  ASSUME IInv, Crash
  PROVE  [Lock!LockNext]_(Lock!lockVars)
<1> USE DEF IInv, TypeOK
<1>0. PICK bs \in SUBSET Beat : bs = {b \in Beat : beat[b] \notin {"new", "done"}}
  OBVIOUS
<1>1. checkout' = checkout
  BY DEF Crash
<1>2. Ended' = Ended \cup bs
  BY <1>0 DEF Crash, Ended
<1>3. Yielding' \in SUBSET Yielding
  BY IdleIsNotClear DEF Crash, Yielding
<1>4. Lock!End(bs)
  BY <1>1, <1>2, <1>3 DEF Lock!End, Ended, Yielding
<1> QED BY <1>4 DEF Lock!LockNext

\* Every step of the task table is a step of the lock or a stutter.
LEMMA StepMaps ==
  ASSUME IInv, [Next]_vars
  PROVE  [Lock!LockNext]_(Lock!lockVars)
<1>1. CASE UNCHANGED vars
  BY <1>1 DEF vars, Lock!lockVars
<1>2. CASE Next
  BY <1>2, BeatStepMaps, RequestMaps, HandlerMaps, SweeperMaps, CrashMaps DEF Next
<1> QED BY <1>1, <1>2

\* The claim columns are a lock (claim.ts:54-77, 169-193): claims go to free
\* tasks only, and only block calls take one from a beat that has not ended.
THEOREM ClaimsImplementLock == Spec => ClaimsAreALock
<1>1. Init => Lock!LockInit
  BY DEF Init, Lock!LockInit, Idle
<1>2. IInv /\ [Next]_vars => [Lock!LockNext]_(Lock!lockVars)
  BY StepMaps
<1> QED BY <1>1, <1>2, Inductive, PTL DEF Spec, ClaimsAreALock, Lock!LockSpec

-----------------------------------------------------------------------------
\* Who takes a claim away from a beat at work: a block call, and if it is not
\* its own the task is raced (claim.ts:92-121).
LEMMA WorkingClaimStep ==
  ASSUME IInv, Next, NEW b \in Beat, NEW t \in Task,
         beat[b] = "working", checkout[t] = b, checkout'[t] # b
  PROVE  \E c \in Beat : /\ call[c].at = "clear" /\ call[c].task = t
                         /\ c = b \/ t \in raced'
<1> USE DEF IInv, TypeOK
<1>1. ASSUME NEW c \in Beat, BeatStep(c) PROVE FALSE
  <2>1. CASE ReleaseClaims(c)
    BY <2>1 DEF ReleaseClaims, ReleaseTasks, HeldInProgress
  <2>2. CASE ~ReleaseClaims(c)
    <3>1. checkout' = checkout
      BY <1>1, <2>2
      DEF BeatStep, BeginBeat, EndBeat, ReleaseClaimsFails, Restate, FinishRun
    <3> QED BY <3>1
  <2> QED BY <2>1, <2>2
<1>2. ASSUME NEW c \in Beat, Request(c) PROVE FALSE
  BY <1>2 DEF Request, RequestClaim, AttachArtifact, RequestComplete, RequestBlock
<1>3. ASSUME NEW c \in Beat, Handler(c)
      PROVE  call[c].at = "clear" /\ call[c].task = t /\ (c = b \/ t \in raced')
  <2>1. CASE ClaimWins(c)
    BY <2>1, ConstantsOK DEF ClaimWins
  <2>2. CASE ClearClaim(c)
    BY <2>2 DEF ClearClaim, Note
  <2>3. CASE ~ClaimWins(c) /\ ~ClearClaim(c)
    BY <1>3, <2>3 DEF Handler, ClaimLoses, MirrorClaim, GateRejects, Complete,
       ReadDependents, Promote, Block, ClearClaimFails, HandlerFails
  <2> QED BY <2>1, <2>2, <2>3
<1>4. CASE Sweeper
  <2>1. CASE ReleaseStranded
    BY <2>1 DEF ReleaseStranded, ReleaseTasks, HeldInProgress, SweptHaveEnded
  <2>2. CASE ~ReleaseStranded
    BY <1>4, <2>2 DEF Sweeper, FindStranded, MarkStranded, SweepFails
  <2> QED BY <2>1, <2>2
<1>5. CASE Crash
  BY <1>5 DEF Crash
<1> QED BY <1>1, <1>2, <1>3, <1>4, <1>5 DEF Next

\* The claim of a live beat at work falls to block calls only, never to a
\* claim, a sweep or another beat's cleanup.
THEOREM WorkersAreRespected == Spec => WorkingClaimsRespected
<1> DEFINE A == \A b \in Beat, t \in Task :
                   beat[b] = "working" /\ beat'[b] = "working"
                   /\ checkout[t] = b /\ checkout'[t] # b
                       => \E c \in Beat : /\ call[c].at = "clear" /\ call[c].task = t
                                          /\ c = b \/ t \in raced'
<1>1. IInv /\ [Next]_vars => [A]_vars
  BY WorkingClaimStep
<1> QED BY <1>1, Inductive, PTL DEF Spec, WorkingClaimsRespected

=============================================================================
