-------------------------- MODULE TaskRow_proofs --------------------------
(***************************************************************************)
(* Proofs about the row of a task, for any number of calls of any kinds.   *)
(*                                                                         *)
(* A handler between the read and the write of its barrier holds an old    *)
(* row in hand.  What the inductive invariant adds to the two properties   *)
(* is that such a row shows everything but the overrun updates, that a     *)
(* transaction with the lock has the row as it is, that nothing happens to *)
(* a task before it exists, and that a block which put its status on the   *)
(* row still has its handler behind it.                                    *)
(***************************************************************************)
EXTENDS TaskRow, TLAPS

USE Shapes

\* The initial states satisfy the inductive invariant.
LEMMA InitIInv == Init => IInv
BY DEF Init, IInv, TypeOK, Row, NoRow, Statuses, Places, TxStates, LockHolds, NothingYet,
       StaleKnows, UpdatesStick, ClaimsStick, Offers

\* What a statement does to the ghost: it keeps it, or adds the call.
LEMMA LandsAdds ==
    ASSUME NEW c \in Calls, Lands(c), overrun \in SUBSET Calls
    PROVE  /\ overrun' \in SUBSET Calls
           /\ overrun \subseteq overrun'
           /\ \A d \in Calls : at[d] \in {"inserting", "write"} /\ (d # c \/ at[c] = "write") => c \in overrun'
BY DEF Lands, Stale

\* No transaction is open while the lock is free.
LEMMA FreeMeansNoneLocked ==
    ASSUME LockHolds, Unlocked
    PROVE  \A c \in Calls : tx[c] # "locked"
BY DEF LockHolds, Unlocked

\* What is on offer stays on offer when nobody becomes a holder, no ghost shrinks
\* and no block leaves but by clearing the claim.
LEMMA OffersStays ==
    ASSUME NEW r, Offers(r), holder' = holder \/ holder' = NoCall,
           overrun \subseteq overrun', exposed \subseteq exposed',
           \A c \in Calls : Clearing(c) => Clearing(c)' \/ holder' = NoCall \/ holder' \in exposed'
    PROVE  /\ holder' # NoCall /\ r.status = "open" => holder' \in overrun' \cup exposed'
           /\ holder' # NoCall /\ r.status = "blocked" =>
                 holder' \in overrun' \cup exposed' \/ \E c \in Calls : Clearing(c)'
BY DEF Offers

---------------------------------------------------------------------------
(* One lemma for each action. *)

LEMMA RefuseKeeps ==
    ASSUME NEW c \in Calls, IInv, Refuse(c)
    PROVE  IInv'
<1>1. at[c] = "idle" /\ at' = [at EXCEPT ![c] = "refused"] /\ tx[c] = "none"
  BY DEF Refuse, GoTo, IInv, StaleKnows
<1>2. UNCHANGED <<row, holder, lock, tx, base, seen, overrun, exposed>>
  BY DEF Refuse
<1>3. \A d \in Calls : Clearing(d)' <=> Clearing(d)
  BY <1>1, <1>2 DEF Clearing, IInv, TypeOK
<1>4. TypeOK' /\ LockHolds' /\ NothingYet' /\ UpdatesStick'
  BY <1>1, <1>2 DEF IInv, TypeOK, Places, LockHolds, NothingYet, UpdatesStick
<1>5. ClaimsStick'
  BY <1>2, <1>3 DEF IInv, ClaimsStick, Offers
<1>6. StaleKnows'
  BY <1>1, <1>2, <1>3 DEF IInv, TypeOK, StaleKnows, Offers
<1>. QED
  BY <1>4, <1>5, <1>6 DEF IInv

LEMMA MissedCreateKeeps ==
    ASSUME NEW c \in Calls, IInv, MissedCreate(c)
    PROVE  IInv'
<1>1. at[c] = "idle" /\ at' = [at EXCEPT ![c] = "inserting"] /\ tx[c] = "none"
  BY DEF MissedCreate, GoTo, IInv, StaleKnows
<1>2. UNCHANGED <<row, holder, lock, tx, base, seen, exposed>> /\ Kind[c] = "create"
  BY DEF MissedCreate
<1>3. /\ overrun' \in SUBSET Calls
      /\ overrun \subseteq overrun'
      /\ \A d \in Calls : tx[d] = "done" => d \in overrun'
      /\ holder # NoCall => holder \in overrun'
  BY DEF MissedCreate, Holding, IInv, TypeOK
<1>4. \A d \in Calls : Clearing(d)' <=> Clearing(d)
  BY <1>1, <1>2 DEF Clearing, IInv, TypeOK
<1>5. TypeOK' /\ LockHolds' /\ NothingYet' /\ UpdatesStick'
  BY <1>1, <1>2, <1>3 DEF IInv, TypeOK, Places, LockHolds, NothingYet, UpdatesStick
<1>6. ClaimsStick'
  BY <1>2, <1>3 DEF IInv, ClaimsStick, Offers
<1>7. StaleKnows'
  BY <1>1, <1>2, <1>3 DEF IInv, TypeOK, StaleKnows, Offers
<1>. QED
  BY <1>5, <1>6, <1>7 DEF IInv

LEMMA StartKeeps ==
    ASSUME NEW c \in Calls, IInv, Start(c)
    PROVE  IInv'
<1>1. /\ \/ at' = [at EXCEPT ![c] = "inserting"] /\ row.status = "none" /\ tx' = tx
         \/ at' = [at EXCEPT ![c] = "cas"] /\ Kind[c] = "claim" /\ row.status # "none" /\ tx' = tx
         \/ /\ \/ at' = [at EXCEPT ![c] = "barrier"] /\ Kind[c] = "verify"
               \/ at' = [at EXCEPT ![c] = "awaiting"]
            /\ row.status # "none"
            /\ tx' = [tx EXCEPT ![c] = "due"]
      /\ at[c] = "idle"
      /\ tx[c] = "none"
  BY DEF Start, GoTo, Finds, IInv, NothingYet, StaleKnows
<1>2. UNCHANGED <<row, holder, lock, base, seen, overrun, exposed>>
  BY DEF Start
<1>3. \A d \in Calls : Clearing(d)' <=> Clearing(d)
  BY <1>1, <1>2 DEF Clearing, IInv, TypeOK
<1>4. TypeOK'
  BY <1>1, <1>2 DEF IInv, TypeOK, Places, TxStates
<1>5. LockHolds'
  BY <1>1, <1>2 DEF IInv, TypeOK, LockHolds
<1>6. NothingYet' /\ UpdatesStick'
  BY <1>1, <1>2 DEF IInv, TypeOK, NothingYet, UpdatesStick
<1>7. ClaimsStick'
  BY <1>2, <1>3 DEF IInv, ClaimsStick, Offers
<1>8. StaleKnows'
  BY <1>1, <1>2, <1>3 DEF IInv, TypeOK, NothingYet, StaleKnows, Offers
<1>. QED
  BY <1>4, <1>5, <1>6, <1>7, <1>8 DEF IInv

LEMMA InsertKeeps ==
    ASSUME NEW c \in Calls, IInv, Insert(c)
    PROVE  IInv'
<1>1. /\ overrun' \in SUBSET Calls
      /\ overrun \subseteq overrun'
      /\ \A d \in Calls : at[d] \in {"inserting", "write"} /\ d # c => c \in overrun'
  BY LandsAdds DEF Insert, IInv, TypeOK
<1>2. \A d \in Calls : tx[d] # "locked"
  BY FreeMeansNoneLocked DEF Insert, IInv
<1>3. row' \in Row /\ row'.status = "open" /\ row'.marks = {c}
  BY DEF Insert, Row, Statuses
<1>4. /\ at[c] = "inserting" /\ tx[c] = "none"
      /\ at' = [at EXCEPT ![c] = "barrier"] /\ tx' = [tx EXCEPT ![c] = "done"]
      /\ UNCHANGED <<holder, lock, base, seen, exposed>>
  BY DEF Insert, GoTo, IInv, StaleKnows
<1>5. \A d \in Calls : Clearing(d)' <=> Clearing(d)
  BY <1>4 DEF Clearing, IInv, TypeOK
<1>6. TypeOK'
  BY <1>1, <1>3, <1>4 DEF IInv, TypeOK, Places, TxStates
<1>7. LockHolds'
  BY <1>2, <1>4 DEF Insert, IInv, TypeOK, LockHolds, Unlocked
<1>8. UpdatesStick'
  BY <1>1, <1>3, <1>4 DEF IInv, TypeOK, StaleKnows, UpdatesStick
<1>9. ClaimsStick'
  BY <1>1, <1>3, <1>4 DEF IInv, StaleKnows, ClaimsStick, Offers
<1>10. StaleKnows'
  BY <1>1, <1>3, <1>4, <1>5 DEF IInv, TypeOK, StaleKnows, Offers
<1>11. NothingYet'
  BY <1>3 DEF NothingYet
<1>. QED
  BY <1>6, <1>7, <1>8, <1>9, <1>10, <1>11 DEF IInv

\* A claim that is refused only ends its call.
LEMMA ClaimKeeps ==
    ASSUME NEW c \in Calls, IInv, Claim(c)
    PROVE  IInv'
<1>1. \A d \in Calls : tx[d] # "locked"
  BY FreeMeansNoneLocked DEF Claim, IInv
<1>2. at[c] = "cas" /\ row.status # "none" /\ tx[c] = "none"
  BY DEF Claim, IInv, StaleKnows
<1>3. CASE holder = NoCall /\ row.status # "completed"
  <2>1. /\ overrun' \in SUBSET Calls
        /\ overrun \subseteq overrun'
        /\ \A d \in Calls : at[d] \in {"inserting", "write"} /\ d # c => c \in overrun'
    BY <1>3, LandsAdds DEF Claim, IInv, TypeOK
  <2>2. row' \in Row /\ row'.status = "in_progress" /\ row'.marks = row.marks
    BY <1>3 DEF Claim, IInv, TypeOK, Row, Statuses
  <2>3. /\ holder' = c
        /\ at' = [at EXCEPT ![c] = "awaiting"] /\ tx' = [tx EXCEPT ![c] = "due"]
        /\ UNCHANGED <<lock, base, seen, exposed>>
    BY <1>3 DEF Claim, GoTo
  <2>4. TypeOK'
    BY <2>1, <2>2, <2>3 DEF IInv, TypeOK, Places, TxStates
  <2>5. LockHolds'
    BY <1>1, <2>3 DEF Claim, IInv, TypeOK, LockHolds, Unlocked
  <2>6. UpdatesStick' /\ NothingYet'
    BY <1>2, <2>1, <2>2, <2>3 DEF IInv, TypeOK, UpdatesStick, NothingYet
  <2>7. ClaimsStick'
    BY <2>2 DEF ClaimsStick, Offers
  <2>8. StaleKnows'
    <3>1. ASSUME NEW d \in Calls, at'[d] = "write" PROVE c \in overrun' /\ at[d] = "write"
      BY <3>1, <1>2, <2>1, <2>3 DEF IInv, TypeOK
    <3>2. ASSUME NEW d \in Calls, at'[d] = "inserting" PROVE c \in overrun' /\ at[d] = "inserting"
      BY <3>2, <1>2, <2>1, <2>3 DEF IInv, TypeOK
    <3>3. \A d \in Calls : at'[d] = "write" => Offers(seen[d])'
      BY <3>1, <2>3 DEF Offers
    <3>. QED
      BY <3>1, <3>2, <3>3, <1>2, <2>1, <2>2, <2>3 DEF IInv, TypeOK, StaleKnows
  <2>. QED
    BY <2>4, <2>5, <2>6, <2>7, <2>8 DEF IInv
<1>4. CASE ~(holder = NoCall /\ row.status # "completed")
  <2>1. /\ at' = [at EXCEPT ![c] = "refused"]
        /\ UNCHANGED <<row, holder, lock, tx, base, seen, overrun, exposed>>
    BY <1>4 DEF Claim, GoTo
  <2>2. \A d \in Calls : Clearing(d)' <=> Clearing(d)
    BY <1>2, <2>1 DEF Clearing, IInv, TypeOK
  <2>3. TypeOK' /\ LockHolds' /\ NothingYet' /\ UpdatesStick'
    BY <2>1 DEF IInv, TypeOK, Places, LockHolds, NothingYet, UpdatesStick
  <2>4. ClaimsStick'
    BY <2>1, <2>2 DEF IInv, ClaimsStick, Offers
  <2>5. StaleKnows'
    BY <1>2, <2>1, <2>2 DEF IInv, TypeOK, StaleKnows, Offers
  <2>. QED
    BY <2>3, <2>4, <2>5 DEF IInv
<1>. QED
  BY <1>3, <1>4

LEMMA ReleaseKeeps ==
    ASSUME IInv, Release
    PROVE  IInv'
<1>1. \A d \in Calls : tx[d] # "locked"
  BY FreeMeansNoneLocked DEF Release, IInv
<1>2. row' \in Row /\ row'.status = "open" /\ row'.marks = row.marks
  BY DEF Release, IInv, TypeOK, Row, Statuses
<1>3. holder' = NoCall /\ UNCHANGED <<lock, at, tx, base, seen, overrun, exposed>>
  BY DEF Release
<1>4. TypeOK'
  BY <1>2, <1>3 DEF IInv, TypeOK
<1>5. LockHolds' /\ NothingYet' /\ UpdatesStick'
  BY <1>1, <1>2, <1>3 DEF Release, Unlocked, IInv, LockHolds, NothingYet, UpdatesStick
<1>6. ClaimsStick' /\ StaleKnows'
  BY <1>2, <1>3 DEF IInv, StaleKnows, ClaimsStick, Offers
<1>. QED
  BY <1>4, <1>5, <1>6 DEF IInv

LEMMA TxReadKeeps ==
    ASSUME NEW c \in Calls, IInv, TxRead(c)
    PROVE  IInv'
<1>1. \A d \in Calls : tx[d] # "locked"
  BY FreeMeansNoneLocked DEF TxRead, IInv
<1>2. row.status # "none"
  BY DEF TxRead, IInv, NothingYet
<1>3. /\ tx[c] = "due" /\ tx' = [tx EXCEPT ![c] = "locked"]
      /\ UNCHANGED <<row, holder, at, seen, overrun, exposed>>
  BY DEF TxRead
<1>4. \A d \in Calls : Clearing(d)' <=> Clearing(d)
  BY <1>3 DEF Clearing, IInv, TypeOK
<1>5. TypeOK'
  BY DEF TxRead, IInv, TypeOK, TxStates
<1>6. LockHolds'
  BY <1>1 DEF TxRead, IInv, TypeOK, LockHolds, Unlocked
<1>7. NothingYet' /\ UpdatesStick'
  BY <1>2, <1>3 DEF IInv, TypeOK, NothingYet, UpdatesStick
<1>8. ClaimsStick'
  BY <1>3, <1>4 DEF IInv, ClaimsStick, Offers
<1>9. StaleKnows'
  BY <1>3, <1>4 DEF IInv, TypeOK, StaleKnows, Offers
<1>. QED
  BY <1>5, <1>6, <1>7, <1>8, <1>9 DEF IInv

\* An update that plans exposes the holder, one that blocks is going to clear the
\* claim, and no other puts the task on offer.
LEMMA TxCommitKeeps ==
    ASSUME NEW c \in Calls, IInv, TxCommit(c)
    PROVE  IInv'
<1>1. /\ overrun' \in SUBSET Calls
      /\ overrun \subseteq overrun'
      /\ \A d \in Calls : at[d] \in {"inserting", "write"} /\ (d # c \/ at[c] = "write") => c \in overrun'
  BY LandsAdds DEF TxCommit, IInv, TypeOK
<1>2. lock = c /\ base[c] = row /\ row.status # "none" /\ tx[c] = "locked"
  BY DEF TxCommit, IInv, LockHolds, NothingYet
<1>3. \A d \in Calls \ {c} : tx[d] # "locked"
  BY <1>2 DEF IInv, LockHolds
<1>4. /\ row' \in Row
      /\ row'.status # "none"
      /\ row'.marks = row.marks \cup {c}
      /\ row'.status = "open" => Kind[c] = "plan" \/ row'.status = row.status
      /\ row'.status = "blocked" => Kind[c] = "block" \/ row'.status = row.status
  BY <1>2 DEF TxCommit, Updated, IInv, TypeOK, Row, Statuses
<1>5. /\ exposed' \in SUBSET Calls
      /\ exposed \subseteq exposed'
      /\ Kind[c] = "plan" /\ holder # NoCall => holder \in exposed'
  BY DEF TxCommit, Holding, IInv, TypeOK
<1>6. /\ tx' = [tx EXCEPT ![c] = "done"] /\ lock' = NoCall /\ UNCHANGED <<holder, at, seen>>
  BY DEF TxCommit
<1>7. /\ \A d \in Calls : Clearing(d) => Clearing(d)'
      /\ Kind[c] = "block" => Clearing(c)'
  BY <1>2, <1>6 DEF Clearing, IInv, TypeOK, StaleKnows
<1>8. TypeOK'
  <2>1. base' \in [Calls -> Row]
    BY DEF TxCommit, IInv, TypeOK, Row, NoRow, Statuses
  <2>2. tx' \in [Calls -> TxStates]
    BY DEF TxCommit, IInv, TypeOK, TxStates
  <2>. QED
    BY <1>1, <1>4, <1>5, <1>6, <2>1, <2>2 DEF IInv, TypeOK
<1>9. LockHolds'
  BY <1>3, <1>6 DEF TxCommit, IInv, TypeOK, LockHolds
<1>10. NothingYet' /\ UpdatesStick'
  BY <1>1, <1>2, <1>4, <1>6 DEF IInv, TypeOK, NothingYet, UpdatesStick
<1>11. ClaimsStick'
  BY <1>1, <1>4, <1>5, <1>6, <1>7 DEF IInv, ClaimsStick, Offers
<1>12. StaleKnows'
  BY <1>1, <1>2, <1>4, <1>5, <1>6, <1>7 DEF IInv, TypeOK, StaleKnows, Offers
<1>. QED
  BY <1>8, <1>9, <1>10, <1>11, <1>12 DEF IInv

LEMMA TxFailsKeeps ==
    ASSUME NEW c \in Calls, IInv, TxFails(c)
    PROVE  IInv'
<1>1. row.status # "none"
  BY DEF TxFails, IInv, NothingYet
<1>2. /\ tx[c] \in {"due", "locked"} /\ tx' = [tx EXCEPT ![c] = "failed"]
      /\ UNCHANGED <<row, holder, at, seen, overrun, exposed>>
  BY DEF TxFails
<1>3. \A d \in Calls : Clearing(d)' <=> Clearing(d)
  BY <1>2 DEF Clearing, IInv, TypeOK, StaleKnows
<1>4. TypeOK'
  <2>1. base' \in [Calls -> Row]
    BY DEF TxFails, IInv, TypeOK, Row, NoRow, Statuses
  <2>2. tx' \in [Calls -> TxStates] /\ lock' \in Calls \cup {NoCall}
    BY DEF TxFails, IInv, TypeOK, TxStates
  <2>. QED
    BY <1>2, <2>1, <2>2 DEF IInv, TypeOK
<1>5. LockHolds'
  BY DEF TxFails, IInv, TypeOK, LockHolds
<1>6. NothingYet' /\ UpdatesStick'
  BY <1>1, <1>2 DEF IInv, TypeOK, NothingYet, UpdatesStick
<1>7. ClaimsStick'
  BY <1>2, <1>3 DEF IInv, ClaimsStick, Offers
<1>8. StaleKnows'
  BY <1>2, <1>3 DEF IInv, TypeOK, StaleKnows, Offers
<1>. QED
  BY <1>4, <1>5, <1>6, <1>7, <1>8 DEF IInv

\* A block that put its status on the row goes on to clear the claim.
LEMMA AwaitedKeeps ==
    ASSUME NEW c \in Calls, IInv, Awaited(c)
    PROVE  IInv'
<1>1. /\ at[c] = "awaiting" /\ tx[c] \in {"done", "failed"} /\ row.status # "none"
      /\ \/ \E place \in {"answered", "refused", "barrier"} :
               at' = [at EXCEPT ![c] = place] /\ (tx[c] = "done" => Kind[c] # "block")
         \/ at' = [at EXCEPT ![c] = "clear"] /\ Kind[c] = "block" /\ tx[c] = "done"
      /\ UNCHANGED <<row, holder, lock, tx, base, seen, overrun, exposed>>
  BY DEF Awaited, GoTo, IInv, StaleKnows
<1>2. \A d \in Calls : Clearing(d)' <=> Clearing(d)
  BY <1>1 DEF Clearing, IInv, TypeOK
<1>3. TypeOK'
  BY <1>1 DEF IInv, TypeOK, Places
<1>4. LockHolds' /\ NothingYet' /\ UpdatesStick'
  BY <1>1 DEF IInv, LockHolds, NothingYet, UpdatesStick
<1>5. ClaimsStick'
  BY <1>1, <1>2 DEF IInv, ClaimsStick, Offers
<1>6. StaleKnows'
  BY <1>1, <1>2 DEF IInv, TypeOK, StaleKnows, Offers
<1>. QED
  BY <1>3, <1>4, <1>5, <1>6 DEF IInv

LEMMA ClearKeeps ==
    ASSUME NEW c \in Calls, IInv, Clear(c)
    PROVE  IInv'
<1>1. /\ at[c] = "clear" /\ tx[c] = "done" /\ Kind[c] = "block"
      /\ at' = [at EXCEPT ![c] = "answered"]
      /\ holder' = NoCall
      /\ UNCHANGED <<row, lock, tx, base, seen, overrun, exposed>>
  BY DEF Clear, GoTo, IInv, StaleKnows
<1>2. TypeOK'
  BY <1>1 DEF IInv, TypeOK, Places
<1>3. LockHolds' /\ NothingYet' /\ UpdatesStick' /\ ClaimsStick'
  BY <1>1 DEF IInv, LockHolds, NothingYet, UpdatesStick, ClaimsStick, Offers
<1>4. StaleKnows'
  BY <1>1 DEF IInv, TypeOK, StaleKnows, Offers
<1>. QED
  BY <1>2, <1>3, <1>4 DEF IInv

LEMMA BarrierReadKeeps ==
    ASSUME NEW c \in Calls, IInv, BarrierRead(c)
    PROVE  IInv'
<1>1. /\ at[c] = "barrier" /\ row.status # "none"
      /\ at' = [at EXCEPT ![c] = "write"] /\ seen' = [seen EXCEPT ![c] = row]
      /\ UNCHANGED <<row, holder, lock, tx, base, overrun, exposed>>
  BY DEF BarrierRead, GoTo, IInv, StaleKnows
<1>2. \A d \in Calls : Clearing(d)' <=> Clearing(d)
  BY <1>1 DEF Clearing, IInv, TypeOK
<1>3. TypeOK'
  BY <1>1 DEF IInv, TypeOK, Places
<1>4. LockHolds' /\ NothingYet' /\ UpdatesStick'
  BY <1>1 DEF IInv, LockHolds, NothingYet, UpdatesStick
<1>5. ClaimsStick'
  BY <1>1, <1>2 DEF IInv, ClaimsStick, Offers
<1>6. StaleKnows'
  <2>1. \A d \in Calls : at'[d] = "write" => Offers(seen[d])'
    BY <1>1, <1>2 DEF IInv, TypeOK, StaleKnows, ClaimsStick, Offers
  <2>2. \A d \in Calls : at'[d] = "write" =>
           seen'[d].status # "none" /\ \A e \in Calls : tx[e] = "done" => e \in seen'[d].marks \cup overrun
    BY <1>1 DEF IInv, TypeOK, StaleKnows, UpdatesStick
  <2>. QED
    BY <1>1, <2>1, <2>2 DEF IInv, TypeOK, StaleKnows
<1>. QED
  BY <1>3, <1>4, <1>5, <1>6 DEF IInv

LEMMA BarrierWriteKeeps ==
    ASSUME NEW c \in Calls, IInv, BarrierWrite(c)
    PROVE  IInv'
<1>1. \A d \in Calls : tx[d] # "locked"
  BY FreeMeansNoneLocked DEF BarrierWrite, IInv
<1>2. /\ at[c] = "write" /\ row' = seen[c] /\ row'.status # "none"
      /\ at' = [at EXCEPT ![c] = "answered"] /\ seen' = [seen EXCEPT ![c] = NoRow]
      /\ UNCHANGED <<holder, lock, tx, base, overrun, exposed>>
  BY DEF BarrierWrite, GoTo, IInv, StaleKnows
<1>3. \A d \in Calls : Clearing(d)' <=> Clearing(d)
  BY <1>2 DEF Clearing, IInv, TypeOK
<1>4. TypeOK'
  BY <1>2 DEF IInv, TypeOK, Places, Row, NoRow, Statuses
<1>5. LockHolds'
  BY <1>1 DEF BarrierWrite, Unlocked, IInv, TypeOK, LockHolds
<1>6. NothingYet' /\ UpdatesStick'
  BY <1>2 DEF IInv, StaleKnows, NothingYet, UpdatesStick
<1>7. ClaimsStick'
  BY <1>2, <1>3 DEF IInv, StaleKnows, ClaimsStick, Offers
<1>8. StaleKnows'
  BY <1>2, <1>3 DEF IInv, TypeOK, StaleKnows, Offers
<1>. QED
  BY <1>4, <1>5, <1>6, <1>7, <1>8 DEF IInv

\* A clear that fails leaves its task to whom it stays with.
LEMMA HandlerFailsKeeps ==
    ASSUME NEW c \in Calls, IInv, HandlerFails(c)
    PROVE  IInv'
<1>1. /\ \E place \in {"answered", "refused"} : at' = [at EXCEPT ![c] = place]
      /\ seen' = [seen EXCEPT ![c] = NoRow]
      /\ UNCHANGED <<row, holder, lock, tx, base, overrun>>
      /\ at[c] # "clear" => ~Clearing(c)
  BY DEF HandlerFails, GoTo, Clearing
<1>2. /\ exposed' \in SUBSET Calls
      /\ exposed \subseteq exposed'
      /\ at[c] = "clear" /\ holder # NoCall => holder \in exposed'
  BY DEF HandlerFails, Holding, IInv, TypeOK
<1>3. \A d \in Calls : Clearing(d) => Clearing(d)' \/ holder' = NoCall \/ holder' \in exposed'
  BY <1>1, <1>2 DEF Clearing, IInv, TypeOK
<1>4. TypeOK'
  BY <1>1, <1>2 DEF IInv, TypeOK, Places, Row, NoRow, Statuses
<1>5. LockHolds' /\ NothingYet' /\ UpdatesStick'
  BY <1>1 DEF IInv, LockHolds, NothingYet, UpdatesStick
<1>6. ClaimsStick'
  BY <1>1, <1>2, <1>3, OffersStays DEF IInv, ClaimsStick, Offers
<1>7. StaleKnows'
  <2>1. ASSUME NEW d \in Calls, at'[d] = "write"
        PROVE  at[d] = "write" /\ seen'[d] = seen[d] /\ Offers(seen[d])'
    <3>1. at[d] = "write" /\ seen'[d] = seen[d]
      BY <2>1, <1>1 DEF IInv, TypeOK
    <3>2. Offers(seen[d])
      BY <3>1 DEF IInv, StaleKnows
    <3>. QED
      BY <3>1, <3>2, <1>1, <1>2, <1>3, OffersStays DEF Offers
  <2>2. \A d \in Calls : at'[d] # at[d] => d = c /\ at'[d] \in {"answered", "refused"}
    BY <1>1 DEF IInv, TypeOK
  <2>3. \A d \in Calls : Kind[d] = "block" /\ tx'[d] \in {"due", "locked"} => at'[d] = "awaiting"
    BY <1>1, <2>2 DEF HandlerFails, IInv, StaleKnows
  <2>. QED
    BY <1>1, <2>1, <2>2, <2>3 DEF IInv, StaleKnows
<1>. QED
  BY <1>4, <1>5, <1>6, <1>7 DEF IInv

LEMMA StutterKeeps ==
    ASSUME IInv, UNCHANGED vars
    PROVE  IInv'
<1>1. \A d \in Calls : Clearing(d)' <=> Clearing(d)
  BY DEF vars, Clearing
<1>2. TypeOK' /\ LockHolds' /\ NothingYet' /\ UpdatesStick'
  BY DEF IInv, vars, TypeOK, LockHolds, NothingYet, UpdatesStick
<1>3. ClaimsStick' /\ StaleKnows'
  BY <1>1 DEF IInv, vars, StaleKnows, ClaimsStick, Offers
<1>. QED
  BY <1>2, <1>3 DEF IInv

---------------------------------------------------------------------------
(* The theorems. *)

\* The inductive invariant holds in every reachable state, whatever the calls
\* of the routes, the failures of the statements and their order.
THEOREM Inductive == Spec => []IInv
<1>1. Init => IInv
  BY InitIInv
<1>2. IInv /\ [Next]_vars => IInv'
  <2> SUFFICES ASSUME IInv, [Next]_vars
               PROVE  IInv'
    OBVIOUS
  <2>1. ASSUME NEW c \in Calls,
               \/ Refuse(c) \/ MissedCreate(c) \/ Start(c) \/ Insert(c) \/ Claim(c)
               \/ Awaited(c) \/ Clear(c)
        PROVE  IInv'
    BY <2>1, RefuseKeeps, MissedCreateKeeps, StartKeeps, InsertKeeps, ClaimKeeps, AwaitedKeeps,
       ClearKeeps
  <2>2. ASSUME NEW c \in Calls, BarrierRead(c) \/ BarrierWrite(c) \/ HandlerFails(c)
        PROVE  IInv'
    BY <2>2, BarrierReadKeeps, BarrierWriteKeeps, HandlerFailsKeeps
  <2>3. ASSUME NEW c \in Calls, TxRead(c) \/ TxCommit(c) \/ TxFails(c)
        PROVE  IInv'
    BY <2>3, TxReadKeeps, TxCommitKeeps, TxFailsKeeps
  <2>4. CASE Release
    BY <2>4, ReleaseKeeps
  <2>5. CASE UNCHANGED vars
    BY <2>5, StutterKeeps
  <2>. QED
    BY <2>1, <2>2, <2>3, <2>4, <2>5 DEF Next, Handler, Transaction
<1>. QED
  BY <1>1, <1>2, PTL DEF Spec

\* Type correctness of the row of a task.
THEOREM TypeCorrect == Spec => []TypeOK
<1>1. IInv => TypeOK
  BY DEF IInv
<1>. QED
  BY <1>1, Inductive, PTL

\* No committed update of a task is lost but those a barrier, or a creation that did
\* not see the task, overran (mutations/tasks.ts:29, task-persistence.ts:47, :64).
THEOREM UpdatesAreKept == Spec => []UpdatesStick
<1>1. IInv => UpdatesStick
  BY DEF IInv
<1>. QED
  BY <1>1, Inductive, PTL

\* No claim that was won is back on offer but on the way of a block, or overrun by
\* such a write, or exposed by an update that planned the task while it was held or
\* by a clear that failed (tasks.routes.ts:409, :418, run-beat.ts:470,
\* mutations.ts:444).
THEOREM ClaimsAreKept == Spec => []ClaimsStick
<1>1. IInv => ClaimsStick
  BY DEF IInv
<1>. QED
  BY <1>1, Inductive, PTL

---------------------------------------------------------------------------
(* The refinement of SerialRow. *)

Applied == {c \in Calls : tx[c] = "done"}

\* A commit is an update of the row as it is: its transaction has had the lock
\* since it read the row, and the row has not changed.
LEMMA CommitIsUpdate ==
    ASSUME NEW c \in Calls, IInv, TxCommit(c)
    PROVE  Serial!Update(c)
<1>1. tx[c] = "locked" /\ base[c] = row /\ row.status # "none"
  BY DEF TxCommit, IInv, LockHolds, NothingYet
<1>2. /\ row' = [status |-> Serial!Becomes(c, row.status), marks |-> row.marks \cup {c}]
      /\ UNCHANGED <<holder, seen>>
  BY <1>1 DEF TxCommit, Updated, Serial!Becomes
<1>3. c \notin Applied /\ Applied' = Applied \cup {c}
  BY <1>1 DEF TxCommit, IInv, TypeOK, Applied
<1>. QED
  BY <1>1, <1>2, <1>3 DEF Serial!Update, Applied

\* An insert is a creation, and its call has not applied anything before.
LEMMA InsertIsCreate ==
    ASSUME NEW c \in Calls, IInv, Insert(c)
    PROVE  Serial!Create(c)
<1>1. tx[c] = "none"
  BY DEF Insert, IInv, StaleKnows
<1>2. c \notin Applied /\ Applied' = Applied \cup {c}
  BY <1>1 DEF Insert, IInv, TypeOK, Applied
<1>. QED
  BY <1>2 DEF Insert, Serial!Create, Applied

\* A claim's statement takes a free task, or leaves everything alone.
LEMMA ClaimIsTake ==
    ASSUME NEW c \in Calls, IInv, Claim(c)
    PROVE  Serial!Take(c) \/ UNCHANGED Serial!rowVars
<1>1. at[c] = "cas" /\ row.status # "none" /\ seen' = seen
  BY DEF Claim, IInv, StaleKnows
<1>2. CASE holder = NoCall /\ row.status # "completed"
  <2>1. Applied' = Applied
    <3>1. tx' = [tx EXCEPT ![c] = "due"] /\ tx[c] # "done"
      BY <1>1, <1>2 DEF Claim, IInv, StaleKnows
    <3>. QED
      BY <3>1 DEF IInv, TypeOK, Applied
  <2>. QED
    BY <1>1, <1>2, <2>1 DEF Claim, Serial!Take, Applied
<1>3. CASE ~(holder = NoCall /\ row.status # "completed")
  BY <1>1, <1>3 DEF Claim, Serial!rowVars
<1>. QED
  BY <1>2, <1>3

\* What a barrier reads is the row, and what it writes is what it read; a handler
\* that fails forgets it.
LEMMA BarrierCopies ==
    ASSUME NEW c \in Calls, IInv, BarrierRead(c) \/ BarrierWrite(c) \/ HandlerFails(c)
    PROVE  Serial!Copy(c) \/ Serial!WriteBack(c) \/ Serial!Discard(c)
<1>1. CASE BarrierRead(c)
  BY <1>1 DEF BarrierRead, IInv, StaleKnows, Serial!Copy
<1>2. CASE BarrierWrite(c)
  BY <1>2 DEF BarrierWrite, NoRow, IInv, StaleKnows, Serial!WriteBack, Serial!NoCopy
<1>3. CASE HandlerFails(c)
  BY <1>3 DEF HandlerFails, NoRow, Serial!Discard, Serial!NoCopy
<1>. QED
  BY <1>1, <1>2, <1>3

\* A clear follows the update of its block.
LEMMA ClearIsUnclaim ==
    ASSUME NEW c \in Calls, IInv, Clear(c)
    PROVE  Serial!Unclaim(c)
BY DEF Clear, IInv, StaleKnows, Serial!Unclaim

\* The steps of a call that only it can see change nothing of the row.
LEMMA OwnSteps ==
    ASSUME NEW c \in Calls, IInv,
           Refuse(c) \/ MissedCreate(c) \/ Start(c) \/ Awaited(c) \/ TxRead(c) \/ TxFails(c)
    PROVE  UNCHANGED Serial!rowVars
<1>1. UNCHANGED <<row, holder, seen>>
  BY DEF Refuse, MissedCreate, Start, Awaited, TxRead, TxFails
<1>2. \/ tx' = tx
      \/ \E x \in {"due", "locked", "failed"} : tx' = [tx EXCEPT ![c] = x] /\ tx[c] # "done"
  BY DEF Refuse, MissedCreate, Start, Awaited, TxRead, TxFails, IInv, StaleKnows
<1>3. Applied' = Applied
  BY <1>2 DEF IInv, TypeOK, Applied
<1>. QED
  BY <1>1, <1>3 DEF Serial!rowVars, Applied

\* Every step on the row is a step of SerialRow or invisible to it.
LEMMA StepSerialises == IInv /\ [Next]_vars => [Serial!RowNext]_(Serial!rowVars)
<1> SUFFICES ASSUME IInv, [Next]_vars
             PROVE  [Serial!RowNext]_(Serial!rowVars)
  OBVIOUS
<1>1. ASSUME NEW c \in Calls,
             Refuse(c) \/ MissedCreate(c) \/ Start(c) \/ Awaited(c) \/ TxRead(c) \/ TxFails(c)
      PROVE  UNCHANGED Serial!rowVars
  BY <1>1, OwnSteps
<1>2. ASSUME NEW c \in Calls, TxCommit(c) PROVE Serial!RowNext
  BY <1>2, CommitIsUpdate DEF Serial!RowNext
<1>3. ASSUME NEW c \in Calls, Insert(c) PROVE Serial!RowNext
  BY <1>3, InsertIsCreate DEF Serial!RowNext
<1>4. ASSUME NEW c \in Calls, Claim(c) PROVE [Serial!RowNext]_(Serial!rowVars)
  BY <1>4, ClaimIsTake DEF Serial!RowNext
<1>5. ASSUME NEW c \in Calls, BarrierRead(c) \/ BarrierWrite(c) \/ HandlerFails(c)
      PROVE  Serial!RowNext
  BY <1>5, BarrierCopies DEF Serial!RowNext
<1>6. CASE Release
  BY <1>6 DEF Release, Serial!GiveBack, Serial!RowNext
<1>7. CASE UNCHANGED vars
  BY <1>7 DEF vars, Serial!rowVars
<1>8. ASSUME NEW c \in Calls, Clear(c) PROVE Serial!RowNext
  BY <1>8, ClearIsUnclaim DEF Serial!RowNext
<1>. QED
  BY <1>1, <1>2, <1>3, <1>4, <1>5, <1>6, <1>7, <1>8 DEF Next, Handler, Transaction

\* Transactions with the row's lock implement updates that are one step each, for
\* any calls of any kinds and with failing statements (mutations/tasks.ts:29-50).
THEOREM UpdatesAreSerial == Spec => UpdatesSerialise
<1>1. Init => Serial!RowInit
  BY DEF Init, NoRow, Serial!RowInit, Serial!NoCopy
<1>. QED
  BY <1>1, StepSerialises, Inductive, PTL DEF Spec, UpdatesSerialise, Serial!RowSpec

===========================================================================
