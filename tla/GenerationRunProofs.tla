------------------------- MODULE GenerationRunProofs -------------------------
(***************************************************************************)
(* The row locks of GenerationRun protect its runs, for any number of runs *)
(* and sections and any number of cancels, deadlines, crashes and edits.   *)
(*                                                                         *)
(* The inductive invariant Guarded ties the place of every owner, and of   *)
(* the sweep, to what its row lock guarantees: a session that is about to  *)
(* settle a run holds the row of a running run, and nobody else holds it.  *)
(***************************************************************************)
EXTENDS GenerationRun, TLAPS, FiniteSetTheorems

\* The places of an owner whose transaction will settle the run.
Settling == {"saveLocked", "settleLocked", "cleanupLocked"}

\* The row of a run that is being settled by its owner is held by it alone, and
\* the run is running.
OwnerHolds ==
    \A r \in Run :
        /\ ctl[r].at \in Settling => Running(r)
        /\ ctl[r].at \in HoldsRun => rec # r

SweepHolds == rec # NoRun => Running(rec)

\* No cancel was committed since the save took the lock.
SaveUncancelled == \A r \in Run : At(r, "saveLocked") => ~run[r].cancel

DeliveredSettled == \A r \in Run : run[r].delivered => run[r].status \in Terminal

Guarded ==
    /\ TypeOK
    /\ InProgressHasRun
    /\ OwnerHolds
    /\ SweepHolds
    /\ SaveUncancelled
    /\ DeliveredSettled
    /\ CancelWins

-----------------------------------------------------------------------------
(* The initial state.                                                      *)

\* The first rows, before any run is created, have their shapes.
LEMMA InitTypes == Init => TypeOK
<1> SUFFICES ASSUME Init
             PROVE  TypeOK
  OBVIOUS
<1>1. NewRun \in RunRow
  BY DEF NewRun, RunRow, Terminal
<1>2. Fresh \in Control
  BY DEF Fresh, Control, Place, Terminal
<1> QED
  BY <1>1, <1>2 DEF Init, TypeOK

\* Nothing is running and nobody holds a row at the start.
LEMMA InitGuarded == Init => Guarded
<1> SUFFICES ASSUME Init
             PROVE  Guarded
  OBVIOUS
<1>1. \A r \in Run : /\ run[r].status = "none" /\ ~run[r].cancel /\ ~run[r].delivered
                     /\ ctl[r].at = "none"
  BY DEF Init, NewRun, Fresh
<1>2. rec = NoRun /\ stage.status = "draft"
  BY DEF Init
<1>3. InProgressHasRun
  BY <1>1, <1>2 DEF InProgressHasRun, Running
<1>4. OwnerHolds /\ SaveUncancelled
  BY <1>1 DEF OwnerHolds, SaveUncancelled, At, Settling, HoldsRun
<1>5. SweepHolds /\ DeliveredSettled /\ CancelWins
  BY <1>1, <1>2 DEF SweepHolds, DeliveredSettled, CancelWins
<1> QED
  BY <1>3, <1>4, <1>5, InitTypes DEF Guarded

-----------------------------------------------------------------------------
(* Steps that move the owner of one run and leave every row alone.         *)

\* The owner of r moves, and enters a place that holds a row only as the locks allow.
OwnerMoves(r) ==
    /\ ctl' = [ctl EXCEPT ![r] = ctl'[r]]
    /\ ctl'[r] \in Control
    /\ ctl'[r].at \in Settling => Running(r)
    /\ ctl'[r].at \in HoldsRun => rec # r
    /\ ctl'[r].at = "saveLocked" => ~run[r].cancel
    /\ faults' \in Nat
    /\ beat' \in SUBSET Run
    /\ UNCHANGED <<run, chunks, stage, inputs, edits, expired, rec>>

\* Such a move preserves the invariant.
LEMMA OwnerStep ==
    ASSUME Guarded, NEW r \in Run, OwnerMoves(r)
    PROVE  Guarded'
<1>1. TypeOK'
  BY DEF Guarded, TypeOK, OwnerMoves
<1>2. \A s \in Run : s # r => ctl'[s] = ctl[s]
  BY DEF Guarded, TypeOK, OwnerMoves
<1>3. OwnerHolds' /\ SaveUncancelled'
  BY <1>2 DEF Guarded, OwnerMoves, OwnerHolds, SaveUncancelled, At, Running
<1>4. InProgressHasRun' /\ SweepHolds' /\ DeliveredSettled' /\ CancelWins'
  BY DEF Guarded, OwnerMoves, InProgressHasRun, SweepHolds, DeliveredSettled, CancelWins,
         Running
<1> QED
  BY <1>1, <1>3, <1>4 DEF Guarded

\* Go moves to a place.
LEMMA GoTo ==
    ASSUME TypeOK, NEW r \in Run, NEW where \in Place, Go(r, where)
    PROVE  /\ ctl' = [ctl EXCEPT ![r] = ctl'[r]]
           /\ ctl'[r] \in Control
           /\ ctl'[r].at = where
BY DEF TypeOK, Go, Control

\* GoSettle moves to a place.
LEMMA GoSettleTo ==
    ASSUME TypeOK, NEW r \in Run, NEW where \in Place, NEW status \in Terminal,
           NEW discard \in BOOLEAN, NEW partial \in BOOLEAN,
           GoSettle(r, where, status, discard, partial)
    PROVE  /\ ctl' = [ctl EXCEPT ![r] = ctl'[r]]
           /\ ctl'[r] \in Control
           /\ ctl'[r].at = where
<1> DEFINE row == [ctl[r] EXCEPT !.at = where, !.to = status, !.discard = discard,
                                 !.partial = partial, !.have = {}]
<1>1. ctl[r] \in Control /\ ctl \in [Run -> Control]
  BY DEF TypeOK
<1>2. row \in Control /\ row.at = where
  BY <1>1 DEF Control
<1>3. ctl' = [ctl EXCEPT ![r] = row]
  BY <1>1 DEF GoSettle
<1> HIDE DEF row
<1> QED
  BY <1>1, <1>2, <1>3

\* End moves to a place.
LEMMA EndAt ==
    ASSUME TypeOK, NEW r \in Run, NEW how \in Place, End(r, how)
    PROVE  /\ ctl' = [ctl EXCEPT ![r] = ctl'[r]]
           /\ ctl'[r] \in Control
           /\ ctl'[r].at = how
<1>1. Fresh \in Control
  BY DEF Fresh, Control, Place, Terminal
<1>2. ctl[r] \in Control
  BY DEF TypeOK
<1>3. [Fresh EXCEPT !.at = how, !.body = ctl[r].body] \in Control
  BY <1>1, <1>2 DEF Control
<1>4. [Fresh EXCEPT !.at = how, !.body = ctl[r].body].at = how
  BY <1>1 DEF Control
<1> QED
  BY <1>3, <1>4 DEF TypeOK, End

-----------------------------------------------------------------------------
(* The request, while no row changes.                                      *)

\* The job is enqueued.
LEMMA EnqueueStep == ASSUME Guarded, NEW r \in Run, Enqueue(r) PROVE Guarded'
<1> DEFINE row == [ctl[r] EXCEPT !.at = "queued", !.by = "worker"]
<1>1. ctl[r] \in Control /\ ctl \in [Run -> Control]
  BY DEF Guarded, TypeOK
<1>2. row \in Control /\ row.at = "queued"
  BY <1>1 DEF Control, Place
<1>3. ctl' = [ctl EXCEPT ![r] = row]
  BY <1>1 DEF Enqueue
<1> HIDE DEF row
<1>4. OwnerMoves(r)
  BY <1>1, <1>2, <1>3 DEF OwnerMoves, Enqueue, Guarded, TypeOK, Settling, HoldsRun
<1> QED
  BY <1>4, OwnerStep

\* A place without a row lock may be entered at any time.
LEMMA FreeMove ==
    ASSUME Guarded, NEW r \in Run, NEW where \in Place \ HoldsRun,
           ctl' = [ctl EXCEPT ![r] = ctl'[r]], ctl'[r] \in Control, ctl'[r].at = where,
           faults' \in Nat, beat' \in SUBSET Run,
           UNCHANGED <<run, chunks, stage, inputs, edits, expired, rec>>
    PROVE  Guarded'
<1>1. OwnerMoves(r)
  BY DEF OwnerMoves, Settling, HoldsRun
<1> QED
  BY <1>1, OwnerStep

\* The control is about to settle the run, and holds no row yet.
LEMMA SettleMove ==
    ASSUME Guarded, NEW r \in Run, NEW where \in Place \ HoldsRun, NEW status \in Terminal,
           NEW discard \in BOOLEAN, NEW partial \in BOOLEAN,
           GoSettle(r, where, status, discard, partial),
           beat' \in SUBSET Run,
           UNCHANGED <<run, chunks, stage, inputs, edits, faults, expired, rec>>
    PROVE  Guarded'
<1>1. TypeOK /\ where \in Place /\ faults' \in Nat
  BY DEF Guarded, TypeOK
<1>2. /\ ctl' = [ctl EXCEPT ![r] = ctl'[r]]
      /\ ctl'[r] \in Control
      /\ ctl'[r].at = where
  BY <1>1, GoSettleTo
<1> QED
  BY <1>1, <1>2, FreeMove

\* What may be observed, and how an exception ends a run, are terminal statuses.
LEMMA Statuses ==
    ASSUME NEW r \in Run
    PROVE  /\ Observed(r) \subseteq Terminal
           /\ Failure(r) \in Terminal
           /\ LockError(r) \in Terminal
           /\ {"failed", "blocked", "cancelled", "succeeded", "timed_out"} \subseteq Terminal
BY DEF Observed, Failure, LockError, Terminal

\* The places of the pipeline that hold no row.
LEMMA FreePlaces ==
    {"cleanup", "settle", "saving", "drafting", "validating", "preflight", "queued", "done",
     "dead", "lost", "handoff", "cached"} \subseteq Place \ HoldsRun
BY DEF Place, HoldsRun

\* The queue is unavailable.
LEMMA QueueUnavailableStep ==
    ASSUME Guarded, NEW r \in Run, QueueUnavailable(r) PROVE Guarded'
<1>1. beat' \in SUBSET Run
  BY DEF Guarded, TypeOK, QueueUnavailable
<1> QED
  BY <1>1, SettleMove, FreePlaces, Statuses DEF QueueUnavailable

\* The cached text is replayed.
LEMMA ReplayCachedStep == ASSUME Guarded, NEW r \in Run, ReplayCached(r) PROVE Guarded'
<1>1. beat' \in SUBSET Run
  BY DEF Guarded, TypeOK, ReplayCached
<1>2. CASE GoSettle(r, "saving", "succeeded", FALSE, FALSE)
  BY <1>1, <1>2, SettleMove, FreePlaces, Statuses DEF ReplayCached
<1>3. CASE GoSettle(r, "cleanup", "failed", TRUE, FALSE)
  BY <1>1, <1>3, SettleMove, FreePlaces, Statuses DEF ReplayCached
<1>4. CASE \E t \in Observed(r) \cup {"cancelled"} : GoSettle(r, "cleanup", t, FALSE, FALSE)
  <2>1. PICK t \in Observed(r) \cup {"cancelled"} : GoSettle(r, "cleanup", t, FALSE, FALSE)
    BY <1>4
  <2>2. t \in Terminal
    BY Statuses
  <2> QED
    BY <1>1, <2>1, <2>2, SettleMove, FreePlaces DEF ReplayCached
<1> QED
  BY <1>2, <1>3, <1>4 DEF ReplayCached

-----------------------------------------------------------------------------
(* The worker, while no row changes.                                       *)

\* A delivery.
LEMMA DeliverStep == ASSUME Guarded, NEW r \in Run, Deliver(r) PROVE Guarded'
<1>1. TypeOK /\ beat' \in SUBSET Run /\ faults' \in Nat
  BY DEF Guarded, TypeOK, Deliver
<1>2. CASE ~Running(r)
  <2>1. End(r, "done")
    BY <1>2 DEF Deliver
  <2>2. /\ ctl' = [ctl EXCEPT ![r] = ctl'[r]]
        /\ ctl'[r] \in Control
        /\ ctl'[r].at = "done"
    BY <1>1, <2>1, EndAt, FreePlaces
  <2> QED
    BY <1>1, <2>2, FreeMove, FreePlaces DEF Deliver
<1>3. CASE Running(r)
  <2> DEFINE where == IF r \in expired THEN "cleanup" ELSE "preflight"
             row == [Fresh EXCEPT !.by = "worker", !.have = chunks[r],
                                  !.to = "timed_out", !.at = where]
  <2>1. ctl \in [Run -> Control] /\ chunks[r] \in SUBSET Part
    BY <1>1 DEF TypeOK
  <2>2. row \in Control /\ row.at = where /\ where \in Place \ HoldsRun
    BY <2>1 DEF Fresh, Control, Terminal, Place, HoldsRun
  <2>3. ctl' = [ctl EXCEPT ![r] = row]
    BY <1>3 DEF Deliver
  <2> HIDE DEF row, where
  <2>4. ctl' = [ctl EXCEPT ![r] = ctl'[r]] /\ ctl'[r] \in Control /\ ctl'[r].at = where
    BY <2>1, <2>2, <2>3
  <2> QED
    BY <1>1, <2>2, <2>4, FreeMove DEF Deliver
<1> QED
  BY <1>2, <1>3

\* The preflight is stopped or fails.
LEMMA PrepareStopsStep == ASSUME Guarded, NEW r \in Run, PrepareStops(r) PROVE Guarded'
<1>1. beat' \in SUBSET Run
  BY DEF Guarded, TypeOK, PrepareStops
<1>2. PICK t \in Observed(r) \cup {"failed", LockError(r)} :
        GoSettle(r, "settle", t, FALSE, FALSE)
  BY DEF PrepareStops
<1>3. t \in Terminal
  BY Statuses
<1> QED
  BY <1>1, <1>2, <1>3, SettleMove, FreePlaces DEF PrepareStops

\* The draft is stopped or fails.
LEMMA DraftStopsStep == ASSUME Guarded, NEW r \in Run, DraftStops(r) PROVE Guarded'
<1>1. beat' \in SUBSET Run
  BY DEF Guarded, TypeOK, DraftStops
<1>2. PICK t \in Observed(r) \cup {Failure(r), "blocked"}, partial \in BOOLEAN :
        GoSettle(r, "settle", t, FALSE, partial)
  BY DEF DraftStops
<1>3. t \in Terminal
  BY Statuses
<1> QED
  BY <1>1, <1>2, <1>3, SettleMove, FreePlaces DEF DraftStops

\* The draft is complete.
LEMMA DraftedStep == ASSUME Guarded, NEW r \in Run, Drafted(r) PROVE Guarded'
<1> DEFINE row == [ctl[r] EXCEPT !.at = "validating", !.have = {}]
<1>1. ctl[r] \in Control /\ ctl \in [Run -> Control] /\ faults' \in Nat /\ beat' \in SUBSET Run
  BY DEF Guarded, TypeOK, Drafted
<1>2. row \in Control /\ row.at = "validating"
  BY <1>1 DEF Control, Place
<1>3. ctl' = [ctl EXCEPT ![r] = row]
  BY <1>1 DEF Drafted
<1> HIDE DEF row
<1>4. /\ ctl' = [ctl EXCEPT ![r] = ctl'[r]]
      /\ ctl'[r] \in Control
      /\ ctl'[r].at = "validating"
  BY <1>1, <1>2, <1>3
<1> QED
  BY <1>1, <1>4, FreeMove, FreePlaces DEF Drafted

\* The gates.
LEMMA ValidateStep == ASSUME Guarded, NEW r \in Run, Validate(r) PROVE Guarded'
<1>1. beat' \in SUBSET Run
  BY DEF Guarded, TypeOK, Validate
<1>2. PICK where \in {"settle", "saving", "cleanup"},
           t \in Observed(r) \cup {Failure(r), "failed", "succeeded", "blocked"},
           discard \in BOOLEAN :
        GoSettle(r, where, t, discard, FALSE)
  BY DEF Validate
<1>3. t \in Terminal /\ where \in Place \ HoldsRun
  BY Statuses, FreePlaces
<1> QED
  BY <1>1, <1>2, <1>3, SettleMove DEF Validate

\* The save takes the lock of a running run that nobody has cancelled.
LEMMA SaveLockStep == ASSUME Guarded, NEW r \in Run, SaveLock(r) PROVE Guarded'
<1>1. TypeOK /\ "saveLocked" \in Place
  BY DEF Guarded, Place
<1>2. /\ ctl' = [ctl EXCEPT ![r] = ctl'[r]]
      /\ ctl'[r] \in Control
      /\ ctl'[r].at = "saveLocked"
  BY <1>1, GoTo DEF SaveLock
<1>3. OwnerMoves(r)
  BY <1>1, <1>2 DEF OwnerMoves, SaveLock, LockOK, RunFree, TypeOK
<1> QED
  BY <1>3, OwnerStep

\* The lock is refused: a request settles the running run in the same session, a
\* pipeline is left raised.
LEMMA SaveRefusedStep == ASSUME Guarded, NEW r \in Run, SaveRefused(r) PROVE Guarded'
<1>1. TypeOK /\ beat' \in SUBSET Run /\ faults' \in Nat
  BY DEF Guarded, TypeOK, SaveRefused
<1>2. CASE ctl[r].by = "api" /\ ~Running(r)
  <2>1. /\ ctl' = [ctl EXCEPT ![r] = ctl'[r]]
        /\ ctl'[r] \in Control
        /\ ctl'[r].at = "done"
    BY <1>1, <1>2, EndAt, FreePlaces DEF SaveRefused
  <2> QED
    BY <1>1, <2>1, FreeMove, FreePlaces DEF SaveRefused
<1>3. CASE ~(ctl[r].by = "api" /\ ~Running(r))
  <2> DEFINE where == IF ctl[r].by = "worker" THEN "raised" ELSE "cleanupLocked"
  <2>1. GoSettle(r, where, LockError(r), FALSE, FALSE)
    BY <1>3 DEF SaveRefused
  <2>2. where \in Place /\ where # "saveLocked" /\ (where \in Settling => Running(r))
    BY <1>1, <1>3 DEF Place, Settling, TypeOK, Control
  <2> HIDE DEF where
  <2>3. /\ ctl' = [ctl EXCEPT ![r] = ctl'[r]]
        /\ ctl'[r] \in Control
        /\ ctl'[r].at = where
    BY <1>1, <2>1, <2>2, GoSettleTo, Statuses
  <2>4. OwnerMoves(r)
    BY <1>1, <2>2, <2>3 DEF OwnerMoves, SaveRefused, RunFree
  <2> QED
    BY <2>4, OwnerStep
<1> QED
  BY <1>2, <1>3

\* The blocked session is timed out.
LEMMA StatementTimeoutStep ==
    ASSUME Guarded, NEW r \in Run, StatementTimeout(r) PROVE Guarded'
<1>1. TypeOK /\ beat' \in SUBSET Run /\ faults' \in Nat
  BY DEF Guarded, TypeOK, StatementTimeout
<1>2. /\ ctl' = [ctl EXCEPT ![r] = ctl'[r]]
      /\ ctl'[r] \in Control
      /\ ctl'[r].at = "dead"
  BY <1>1, EndAt, FreePlaces DEF StatementTimeout
<1> QED
  BY <1>1, <1>2, FreeMove, FreePlaces DEF StatementTimeout

\* The commit of the save is given up.
LEMMA SaveTimesOutStep == ASSUME Guarded, NEW r \in Run, SaveTimesOut(r) PROVE Guarded'
<1>1. beat' \in SUBSET Run
  BY DEF Guarded, TypeOK, SaveTimesOut
<1> QED
  BY <1>1, SettleMove, FreePlaces, Statuses DEF SaveTimesOut

\* The settling session takes the lock of a running run, or ends.
LEMMA SettleLockStep == ASSUME Guarded, NEW r \in Run, SettleLock(r) PROVE Guarded'
<1>1. TypeOK /\ beat' \in SUBSET Run /\ faults' \in Nat
  BY DEF Guarded, TypeOK, SettleLock
<1>2. CASE ~Running(r)
  <2>1. /\ ctl' = [ctl EXCEPT ![r] = ctl'[r]]
        /\ ctl'[r] \in Control
        /\ ctl'[r].at = "done"
    BY <1>1, <1>2, EndAt, FreePlaces DEF SettleLock
  <2> QED
    BY <1>1, <2>1, FreeMove, FreePlaces DEF SettleLock
<1>3. CASE Running(r)
  <2>1. PICK where \in {"settleLocked", "cleanupLocked"} : Go(r, where)
    BY <1>3 DEF SettleLock
  <2>2. where \in Place /\ where # "saveLocked"
    BY DEF Place
  <2>3. /\ ctl' = [ctl EXCEPT ![r] = ctl'[r]]
        /\ ctl'[r] \in Control
        /\ ctl'[r].at = where
    BY <1>1, <2>1, <2>2, GoTo
  <2>4. OwnerMoves(r)
    BY <1>1, <1>3, <2>2, <2>3 DEF OwnerMoves, SettleLock, RunFree
  <2> QED
    BY <2>4, OwnerStep
<1> QED
  BY <1>2, <1>3

\* The pipeline is the victim of the deadlock detector.
LEMMA PipelineAbortedStep ==
    ASSUME Guarded, NEW r \in Run, PipelineAborted(r) PROVE Guarded'
<1>1. TypeOK /\ beat' \in SUBSET Run /\ faults' \in Nat
  BY DEF Guarded, TypeOK, PipelineAborted
<1>2. CASE ctl[r].body
  BY <1>1, <1>2, SettleMove, FreePlaces, Statuses DEF PipelineAborted
<1>3. CASE ~ctl[r].body
  <2>1. /\ ctl' = [ctl EXCEPT ![r] = ctl'[r]]
        /\ ctl'[r] \in Control
        /\ ctl'[r].at = "dead"
    BY <1>1, <1>3, EndAt, FreePlaces DEF PipelineAborted
  <2> QED
    BY <1>1, <2>1, FreeMove, FreePlaces DEF PipelineAborted
<1> QED
  BY <1>2, <1>3

\* The process is killed or its slice ends.
LEMMA InterruptStep == ASSUME Guarded, NEW r \in Run, Interrupt(r) PROVE Guarded'
<1>1. TypeOK /\ beat' \in SUBSET Run /\ faults' \in Nat
  BY DEF Guarded, TypeOK, Interrupt
<1>2. CASE ctl[r].by = "worker"
  <2> DEFINE row == [Fresh EXCEPT !.at = "queued", !.by = "worker"]
  <2>1. row \in Control /\ row.at = "queued" /\ ctl \in [Run -> Control]
    BY <1>1 DEF Fresh, Control, Terminal, Place, TypeOK
  <2>2. ctl' = [ctl EXCEPT ![r] = row]
    BY <1>2 DEF Interrupt
  <2> HIDE DEF row
  <2>3. ctl' = [ctl EXCEPT ![r] = ctl'[r]] /\ ctl'[r] \in Control /\ ctl'[r].at = "queued"
    BY <2>1, <2>2
  <2> QED
    BY <1>1, <2>3, FreeMove, FreePlaces DEF Interrupt
<1>3. CASE ctl[r].by # "worker"
  <2>1. /\ ctl' = [ctl EXCEPT ![r] = ctl'[r]]
        /\ ctl'[r] \in Control
        /\ ctl'[r].at = "lost"
    BY <1>1, <1>3, EndAt, FreePlaces DEF Interrupt
  <2> QED
    BY <1>1, <2>1, FreeMove, FreePlaces DEF Interrupt
<1> QED
  BY <1>2, <1>3

-----------------------------------------------------------------------------
(* The heartbeat, the clock and the edits: no owner moves.                 *)

\* The heartbeat takes and leaves the stage row; no other row is touched.
LEMMA BeatStep ==
    ASSUME Guarded, NEW r \in Run, BeatStage(r) \/ BeatRun(r) \/ BeatAborted(r)
    PROVE  Guarded'
<1>1. UNCHANGED <<run, chunks, stage, inputs, edits, faults, expired, ctl, rec>>
  BY DEF BeatStage, BeatRun, BeatAborted
<1>2. TypeOK'
  BY <1>1 DEF Guarded, TypeOK, BeatStage, BeatRun, BeatAborted
<1> QED
  BY <1>1, <1>2 DEF Guarded, InProgressHasRun, OwnerHolds, SweepHolds, SaveUncancelled,
                    DeliveredSettled, CancelWins, Running, At

\* The sweep is the victim of the deadlock detector.
LEMMA RecoveryAbortedStep ==
    ASSUME Guarded, NEW r \in Run, RecoveryAborted(r) PROVE Guarded'
<1>1. rec' = NoRun /\ NoRun \notin Run
  BY GenerationAssumption DEF RecoveryAborted
<1>2. TypeOK'
  BY DEF Guarded, TypeOK, RecoveryAborted
<1> QED
  BY <1>1, <1>2 DEF Guarded, InProgressHasRun, OwnerHolds, SweepHolds, SaveUncancelled,
                    DeliveredSettled, CancelWins, Running, At, RecoveryAborted

\* The sweep takes the free row of a running run.
LEMMA RecoverLockStep == ASSUME Guarded, NEW r \in Run, RecoverLock(r) PROVE Guarded'
<1>1. rec' = r /\ Running(r) /\ ctl[r].at \notin HoldsRun
  BY DEF RecoverLock, RunFree
<1>2. UNCHANGED <<run, chunks, stage, inputs, edits, faults, expired, ctl, beat>>
  BY DEF RecoverLock
<1>3. TypeOK'
  BY <1>1, <1>2 DEF Guarded, TypeOK
<1>4. OwnerHolds' /\ SweepHolds'
  BY <1>1, <1>2 DEF Guarded, OwnerHolds, SweepHolds, Running
<1> QED
  BY <1>2, <1>3, <1>4 DEF Guarded, InProgressHasRun, SaveUncancelled, DeliveredSettled,
                          CancelWins, Running, At

\* A deadline passes.
LEMMA DeadlinePassesStep == ASSUME Guarded, NEW r \in Run, DeadlinePasses(r) PROVE Guarded'
<1>1. UNCHANGED <<run, chunks, stage, inputs, edits, faults, ctl, beat, rec>>
  BY DEF DeadlinePasses
<1>2. TypeOK'
  BY <1>1 DEF Guarded, TypeOK, DeadlinePasses
<1> QED
  BY <1>1, <1>2 DEF Guarded, InProgressHasRun, OwnerHolds, SweepHolds, SaveUncancelled,
                    DeliveredSettled, CancelWins, Running, At

\* What the owner does to the stage.
OwnerActs == EditStage \/ Rollback \/ Finalise

\* An edit leaves the runs alone, and a generating stage generating.
LEMMA EditStep == ASSUME Guarded, OwnerActs \/ EditInputs PROVE Guarded'
<1>1. UNCHANGED <<run, chunks, faults, expired, ctl, beat, rec>>
  BY DEF OwnerActs, Owner, EditStage, Rollback, Finalise, EditInputs
<1>2. TypeOK'
  <2>1. CASE OwnerActs
    BY <1>1, <2>1 DEF Guarded, TypeOK, OwnerActs, Owner, EditStage, Rollback, Finalise
  <2>2. CASE EditInputs
    BY <1>1, <2>2 DEF Guarded, TypeOK, EditInputs
  <2> QED
    BY <2>1, <2>2
<1>3. stage'.status = "in_progress" <=> stage.status = "in_progress"
  BY DEF Guarded, TypeOK, OwnerActs, Owner, EditStage, Rollback, Finalise, EditInputs
<1> QED
  BY <1>1, <1>2, <1>3 DEF Guarded, InProgressHasRun, OwnerHolds, SweepHolds,
                          SaveUncancelled, DeliveredSettled, CancelWins, Running, At

-----------------------------------------------------------------------------
(* Steps that write the row of a run and leave its status alone.           *)

\* The row of a run changes, neither its status nor delivered does, and it is
\* cancelled only while its row is free.
LEMMA RowStep ==
    ASSUME Guarded, NEW r \in Run,
           run' = [run EXCEPT ![r] = run'[r]], run'[r] \in RunRow,
           run'[r].status = run[r].status, run'[r].delivered = run[r].delivered,
           \/ run'[r].cancel = run[r].cancel
           \/ Running(r) /\ ctl'[r].at # "saveLocked",
           chunks' \in [Run -> SUBSET Part],
           ctl' = [ctl EXCEPT ![r] = ctl'[r]], ctl'[r] \in Control,
           \/ ctl'[r].at = ctl[r].at
           \/ ctl'[r].at \notin HoldsRun,
           UNCHANGED <<stage, inputs, edits, faults, expired, beat, rec>>
    PROVE  Guarded'
<1>1. \A s \in Run : s # r => run'[s] = run[s] /\ ctl'[s] = ctl[s]
  BY DEF Guarded, TypeOK
<1>2. \A s \in Run : run'[s].status = run[s].status /\ run'[s].delivered = run[s].delivered
  BY <1>1
<1>3. \A s \in Run : ctl'[s].at \in HoldsRun => ctl'[s].at = ctl[s].at
  BY <1>1
<1>4. TypeOK'
  BY DEF Guarded, TypeOK
<1>5. InProgressHasRun' /\ DeliveredSettled' /\ SweepHolds'
  <2>1. \A s \in Run \cup {NoRun} : s # NoRun => s \in Run
    OBVIOUS
  <2>2. SweepHolds'
    BY <1>2, <2>1 DEF Guarded, TypeOK, SweepHolds, Running
  <2> QED
    BY <1>2, <2>2 DEF Guarded, InProgressHasRun, DeliveredSettled, Running
<1>6. OwnerHolds'
  BY <1>2, <1>3 DEF Guarded, OwnerHolds, Running, Settling, HoldsRun
<1>7. SaveUncancelled'
  BY <1>1, <1>3 DEF Guarded, SaveUncancelled, At, HoldsRun
<1>8. CancelWins'
  <2>1. Running(r) => ~run[r].delivered
    BY DEF Guarded, DeliveredSettled, Running, Terminal
  <2> QED
    BY <1>1, <2>1 DEF Guarded, CancelWins
<1> QED
  BY <1>4, <1>5, <1>6, <1>7, <1>8 DEF Guarded

\* The prompt is stored.
LEMMA PrepareStep == ASSUME Guarded, NEW r \in Run, Prepare(r) PROVE Guarded'
<1> DEFINE row == [run[r] EXCEPT !.prompt = TRUE]
           mem == [ctl[r] EXCEPT !.at = "drafting", !.body = TRUE]
<1>1. /\ run \in [Run -> RunRow]
      /\ ctl \in [Run -> Control]
      /\ chunks' \in [Run -> SUBSET Part]
  BY DEF Guarded, TypeOK, Prepare
<1>2. /\ row \in RunRow
      /\ row.status = run[r].status
      /\ row.delivered = run[r].delivered
      /\ row.cancel = run[r].cancel
  BY <1>1 DEF RunRow
<1>3. mem \in Control /\ mem.at \notin HoldsRun
  BY <1>1 DEF Control, Place, HoldsRun
<1>4. run' = [run EXCEPT ![r] = row] /\ ctl' = [ctl EXCEPT ![r] = mem]
  BY <1>1 DEF Prepare
<1> HIDE DEF row, mem
<1>5. run'[r] = row /\ ctl'[r] = mem
  BY <1>1, <1>4
<1> QED
  BY <1>1, <1>2, <1>3, <1>4, <1>5, RowStep DEF Prepare

\* A section is banked, and the sections are counted.
LEMMA CheckpointStep ==
    ASSUME Guarded, NEW r \in Run, NEW c \in Part, Checkpoint(r, c) PROVE Guarded'
<1> DEFINE row == [run[r] EXCEPT !.parts = Counted(r, chunks[r] \cup {c})]
           mem == [ctl[r] EXCEPT !.have = @ \cup {c}]
<1>1. run \in [Run -> RunRow] /\ ctl \in [Run -> Control] /\ chunks \in [Run -> SUBSET Part]
  BY DEF Guarded, TypeOK
<1>2. Counted(r, chunks[r] \cup {c}) \in Nat
  <2>1. chunks[r] \cup {c} \in SUBSET Part
    BY <1>1
  <2>2. Cardinality(chunks[r] \cup {c}) \in Nat
    BY <2>1, FS_Subset, FS_CardinalityType, GenerationAssumption
  <2>3. run[r].parts \in Nat
    BY <1>1 DEF RunRow
  <2> QED
    BY <2>2, <2>3 DEF Counted
<1>3. /\ row \in RunRow
      /\ row.status = run[r].status
      /\ row.delivered = run[r].delivered
      /\ row.cancel = run[r].cancel
  BY <1>1, <1>2 DEF RunRow
<1>4. mem \in Control /\ mem.at = ctl[r].at
  BY <1>1 DEF Control
<1>5. run' = [run EXCEPT ![r] = row] /\ ctl' = [ctl EXCEPT ![r] = mem]
  BY <1>1 DEF Checkpoint
<1>6. chunks' \in [Run -> SUBSET Part]
  BY <1>1 DEF Checkpoint
<1> HIDE DEF row, mem
<1>7. run'[r] = row /\ ctl'[r] = mem
  BY <1>1, <1>5
<1> QED
  BY <1>3, <1>4, <1>5, <1>6, <1>7, RowStep DEF Checkpoint

\* The cancel request is committed under the run lock.
LEMMA CancelStep == ASSUME Guarded, NEW r \in Run, Cancel(r) PROVE Guarded'
<1> DEFINE row == [run[r] EXCEPT !.cancel = TRUE]
<1>1. run \in [Run -> RunRow] /\ ctl \in [Run -> Control] /\ chunks' \in [Run -> SUBSET Part]
  BY DEF Guarded, TypeOK, Cancel
<1>2. /\ row \in RunRow
      /\ row.status = run[r].status
      /\ row.delivered = run[r].delivered
  BY <1>1 DEF RunRow
<1>3. run' = [run EXCEPT ![r] = row] /\ ctl' = ctl
  BY <1>1 DEF Cancel
<1>4. Running(r) /\ ctl'[r].at # "saveLocked"
  BY DEF Cancel, RunFree, HoldsRun
<1>5. ctl' = [ctl EXCEPT ![r] = ctl'[r]] /\ ctl'[r] \in Control
  BY <1>1, <1>3
<1> HIDE DEF row
<1>6. run'[r] = row
  BY <1>1, <1>3
<1> QED
  BY <1>1, <1>2, <1>3, <1>4, <1>5, <1>6, RowStep DEF Cancel

-----------------------------------------------------------------------------
(* A run is created.                                                       *)

\* A run is created on a stage that is not generating, and so while none is running.
LEMMA CreatedStep ==
    ASSUME Guarded, NEW r \in Run, NEW fields \in RunRow, ~fields.cancel,
           ~fields.delivered, Created(r, fields),
           NEW where \in Place \ HoldsRun, Go(r, where)
    PROVE  Guarded'
<1> DEFINE row == [fields EXCEPT !.status = "running", !.inputs = inputs,
                                 !.prev = stage.status]
<1>1. /\ TypeOK
      /\ run \in [Run -> RunRow]
      /\ ctl \in [Run -> Control]
      /\ inputs \in Nat
      /\ stage.status \in {"draft", "stale"}
  BY DEF Guarded, TypeOK, Created
<1>2. row \in RunRow /\ row.status = "running" /\ ~row.cancel /\ ~row.delivered
  BY <1>1 DEF RunRow
<1>3. run' = [run EXCEPT ![r] = row]
  BY DEF Created
<1> HIDE DEF row
<1>4. /\ ctl' = [ctl EXCEPT ![r] = ctl'[r]]
      /\ ctl'[r] \in Control
      /\ ctl'[r].at = where
  BY <1>1, GoTo
<1>5. run'[r] = row /\ \A s \in Run : s # r => run'[s] = run[s] /\ ctl'[s] = ctl[s]
  BY <1>1, <1>3, <1>4
<1>6. TypeOK'
  BY <1>1, <1>2, <1>3, <1>4 DEF TypeOK, Created
<1>7. \A s \in Run : ~Running(s)
  BY <1>1 DEF Guarded, InProgressHasRun
<1>8. InProgressHasRun'
  BY <1>1, <1>2, <1>5, <1>7 DEF InProgressHasRun, Running, Created, TypeOK
<1>9. rec = NoRun /\ rec' = NoRun
  BY <1>1, <1>7 DEF Guarded, SweepHolds, TypeOK, Created
<1>10. OwnerHolds' /\ SweepHolds' /\ SaveUncancelled'
  BY <1>4, <1>5, <1>7, <1>9, GenerationAssumption
  DEF Guarded, OwnerHolds, SweepHolds, SaveUncancelled, At, Settling, HoldsRun, Running
<1>11. DeliveredSettled' /\ CancelWins'
  BY <1>2, <1>5 DEF Guarded, DeliveredSettled, CancelWins
<1> QED
  BY <1>6, <1>8, <1>10, <1>11 DEF Guarded

\* A paid run, a free resume and a replay from the cache are created.
LEMMA GenerateStep ==
    ASSUME Guarded, NEW r \in Run, Generate(r) \/ Resume(r) \/ GenerateCached(r)
    PROVE  Guarded'
<1>1. NewRun \in RunRow /\ ~NewRun.cancel /\ ~NewRun.delivered
  BY DEF NewRun, RunRow, Terminal
<1>2. CASE Generate(r)
  <2> DEFINE fields == [NewRun EXCEPT !.charged = TRUE, !.payer = r]
  <2>1. fields \in RunRow /\ ~fields.cancel /\ ~fields.delivered
    BY DEF NewRun, RunRow, Terminal
  <2>2. Created(r, fields) /\ Go(r, "handoff")
    BY <1>2 DEF Generate
  <2> HIDE DEF fields
  <2> QED
    BY <2>1, <2>2, CreatedStep, FreePlaces
<1>3. CASE Resume(r)
  <2>1. PICK s \in Run :
            /\ Created(r, [NewRun EXCEPT !.source = s, !.payer = run[s].payer,
                                         !.seed = chunks[s], !.prompt = run[s].prompt])
            /\ Go(r, "handoff")
    BY <1>3 DEF Resume
  <2> DEFINE fields == [NewRun EXCEPT !.source = s, !.payer = run[s].payer,
                                      !.seed = chunks[s], !.prompt = run[s].prompt]
  <2>2. /\ run[s].payer \in Run \cup {NoRun}
        /\ chunks[s] \in SUBSET Part
        /\ run[s].prompt \in BOOLEAN
    BY DEF Guarded, TypeOK, RunRow
  <2>3. fields \in RunRow /\ ~fields.cancel /\ ~fields.delivered
    BY <2>2 DEF NewRun, RunRow, Terminal
  <2>4. Created(r, fields) /\ Go(r, "handoff")
    BY <2>1
  <2> HIDE DEF fields
  <2> QED
    BY <2>3, <2>4, CreatedStep, FreePlaces
<1>4. CASE GenerateCached(r)
  BY <1>1, <1>4, CreatedStep, FreePlaces DEF GenerateCached
<1> QED
  BY <1>2, <1>3, <1>4

-----------------------------------------------------------------------------
(* A run is settled.                                                       *)

\* What the transaction that settles r writes into the run row and the stage row.
Settles(r) ==
    /\ Running(r)
    /\ run' = [run EXCEPT ![r] = run'[r]]
    /\ run'[r] \in RunRow
    /\ run'[r].status \in Terminal
    /\ run'[r].cancel = run[r].cancel
    /\ run'[r].delivered => run[r].delivered \/ ~run[r].cancel
    /\ chunks' \in [Run -> SUBSET Part]
    /\ stage' \in [status : {"draft", "stale"}, version : Nat, gateVersion : Nat,
                   resume : Run \cup {NoRun}]
    /\ stage'.version # stage.version => run'[r].version = stage'.version

\* The running run is settled, and with it the locks of everybody end: it was the only
\* running run, so nobody else could hold a row in order to settle it.
LEMMA SettleStep ==
    ASSUME Guarded, NEW r \in Run, Settles(r),
           ctl' = [ctl EXCEPT ![r] = ctl'[r]], ctl'[r] \in Control,
           ctl'[r].at \notin HoldsRun, rec' = NoRun,
           UNCHANGED <<inputs, edits, faults, expired, beat>>
    PROVE  Guarded'
<1>1. \A s \in Run : s # r => run'[s] = run[s] /\ ctl'[s] = ctl[s] /\ ~Running(s)
  BY DEF Guarded, TypeOK, InProgressHasRun, Settles
<1>2. TypeOK'
  BY DEF Guarded, TypeOK, Settles
<1>3. \A s \in Run : run'[s].status # "running"
  BY <1>1 DEF Settles, Running, Terminal
<1>4. InProgressHasRun'
  <2>1. stage'.status # "in_progress"
    BY DEF Settles
  <2> QED
    BY <1>3, <2>1 DEF InProgressHasRun, Running
<1>5. OwnerHolds' /\ SweepHolds' /\ SaveUncancelled'
  BY <1>1, GenerationAssumption
  DEF Guarded, OwnerHolds, SweepHolds, SaveUncancelled, At, Settling, HoldsRun, Running
<1>6. DeliveredSettled'
  BY <1>1 DEF Guarded, DeliveredSettled, Settles
<1>7. CancelWins'
  BY <1>1 DEF Guarded, CancelWins, Settles
<1> QED
  BY <1>2, <1>4, <1>5, <1>6, <1>7 DEF Guarded

\* The row of a run that terminalize_interrupted_run settles, and that a save settles.
Interrupted(old, status, back, saved, version) ==
    [old EXCEPT !.status = status, !.refunded = back, !.saved = saved, !.version = version]

Saved(old, status, version, parts) ==
    [old EXCEPT !.status = status, !.delivered = TRUE, !.saved = Part,
                !.version = version, !.parts = parts]

\* An interrupted run keeps its cancel request and what it delivered.
LEMMA InterruptedRow ==
    ASSUME NEW old \in RunRow, NEW status \in Terminal, NEW back \in BOOLEAN,
           NEW saved \in SUBSET Part, NEW version \in Nat
    PROVE  /\ Interrupted(old, status, back, saved, version) \in RunRow
           /\ Interrupted(old, status, back, saved, version).status = status
           /\ Interrupted(old, status, back, saved, version).cancel = old.cancel
           /\ Interrupted(old, status, back, saved, version).delivered = old.delivered
           /\ Interrupted(old, status, back, saved, version).version = version
BY DEF RunRow, Interrupted

\* A saved run keeps its cancel request.
LEMMA SavedRow ==
    ASSUME NEW old \in RunRow, NEW status \in Terminal, NEW version \in Nat,
           NEW parts \in Nat
    PROVE  /\ Saved(old, status, version, parts) \in RunRow
           /\ Saved(old, status, version, parts).status = status
           /\ Saved(old, status, version, parts).cancel = old.cancel
           /\ Saved(old, status, version, parts).version = version
BY DEF RunRow, Saved

\* The rows that terminalize_interrupted_run writes.
LEMMA TerminalizeSettles ==
    ASSUME TypeOK, NEW r \in Run, Running(r), NEW status \in Terminal,
           NEW discard \in BOOLEAN, NEW partial \in BOOLEAN, NEW unsafe \in BOOLEAN,
           Terminalize(r, status, discard, partial, unsafe)
    PROVE  Settles(r)
<1> DEFINE thrown == discard \/ (unsafe /\ (chunks[r] # {} \/ partial))
           surviving == IF thrown THEN {} ELSE chunks[r]
           combined == ~thrown /\ (chunks[r] # {} \/ partial)
           version == IF combined THEN stage.version + 1 ELSE 0
           back == Refunded(r, surviving)
           row == Interrupted(run[r], status, back, surviving, version)
<1>1. /\ run \in [Run -> RunRow]
      /\ chunks \in [Run -> SUBSET Part]
      /\ stage \in [status : {"draft", "stale", "in_progress", "finalised"}, version : Nat,
                    gateVersion : Nat, resume : Run \cup {NoRun}]
  BY DEF TypeOK
<1>2. run[r].charged \in BOOLEAN /\ run[r].prompt \in BOOLEAN /\ run[r].prev \in {"draft", "stale"}
  BY <1>1 DEF RunRow
<1>3. surviving \in SUBSET Part /\ version \in Nat
  BY <1>1
<1>4. back \in BOOLEAN
  BY <1>2 DEF Refunded, Resumable
<1>5. /\ chunks' = [chunks EXCEPT ![r] = surviving]
      /\ run' = [run EXCEPT ![r] = row]
      /\ stage' = IF combined
                  THEN [status |-> "draft", version |-> stage.version + 1,
                        gateVersion |-> stage.version + 1,
                        resume |-> IF Resumable(r, surviving) THEN r ELSE NoRun]
                  ELSE [stage EXCEPT !.status = run[r].prev]
  BY <1>1 DEF Terminalize, Interrupted
<1>6. stage'.version # stage.version => stage'.version = version
  BY <1>1, <1>5
<1>7. stage' \in [status : {"draft", "stale"}, version : Nat, gateVersion : Nat,
                  resume : Run \cup {NoRun}]
  BY <1>1, <1>2, <1>5
<1> HIDE DEF surviving, combined, version, back
<1>8. /\ row \in RunRow
      /\ row.status = status
      /\ row.cancel = run[r].cancel
      /\ row.delivered = run[r].delivered
      /\ row.version = version
  <2>1. run[r] \in RunRow
    BY <1>1
  <2> QED
    BY <1>3, <1>4, <2>1, InterruptedRow
<1> HIDE DEF row
<1>9. run'[r] = row /\ chunks' \in [Run -> SUBSET Part]
  BY <1>1, <1>3, <1>5
<1> QED
  BY <1>5, <1>6, <1>7, <1>8, <1>9 DEF Settles

\* The save settles an uncancelled run.
LEMMA SaveSettles ==
    ASSUME Guarded, NEW r \in Run, SaveCommit(r)
    PROVE  Settles(r)
<1> DEFINE parts == IF ctl[r].by = "api" THEN Cardinality(Part) ELSE run[r].parts
           version == stage.version + 1
           row == Saved(run[r], ctl[r].to, version, parts)
<1>1. /\ run \in [Run -> RunRow]
      /\ ctl[r].to \in Terminal
      /\ chunks' \in [Run -> SUBSET Part]
      /\ stage \in [status : {"draft", "stale", "in_progress", "finalised"}, version : Nat,
                    gateVersion : Nat, resume : Run \cup {NoRun}]
  BY DEF Guarded, TypeOK, Control, SaveCommit
<1>2. parts \in Nat
  <2>1. Cardinality(Part) \in Nat
    BY FS_CardinalityType, GenerationAssumption
  <2>2. run[r].parts \in Nat
    BY <1>1 DEF RunRow
  <2> QED
    BY <2>1, <2>2
<1>3. Running(r) /\ ~run[r].cancel
  BY DEF Guarded, OwnerHolds, SaveUncancelled, SaveCommit, At, Settling
<1>4. run' = [run EXCEPT ![r] = row]
  BY <1>1 DEF SaveCommit, Saved
<1>5. /\ stage' = [stage EXCEPT !.status = "draft", !.version = version,
                                !.gateVersion = version, !.resume = NoRun]
      /\ version \in Nat
  BY <1>1 DEF SaveCommit
<1> HIDE DEF parts, version
<1>6. /\ row \in RunRow
      /\ row.status = ctl[r].to
      /\ row.cancel = run[r].cancel
      /\ row.version = version
  <2>1. run[r] \in RunRow /\ ctl[r].to \in Terminal /\ version \in Nat
    BY <1>1, <1>5
  <2> QED
    BY <1>2, <2>1, SavedRow
<1> HIDE DEF row
<1>7. run'[r] = row
  BY <1>1, <1>4
<1>8. /\ stage' \in [status : {"draft", "stale"}, version : Nat, gateVersion : Nat,
                     resume : Run \cup {NoRun}]
      /\ stage'.version = version
  BY <1>1, <1>5
<1> QED
  BY <1>1, <1>3, <1>4, <1>6, <1>7, <1>8 DEF Settles

\* The owner settles the run with terminalize_interrupted_run.
LEMMA OwnerSettles ==
    ASSUME Guarded, NEW r \in Run, SettleCommit(r)
    PROVE  Settles(r)
<1>1. TypeOK /\ Running(r)
  BY DEF Guarded, OwnerHolds, SettleCommit, Settling
<1>2. ctl[r].to \in Terminal /\ ctl[r].discard \in BOOLEAN /\ ctl[r].partial \in BOOLEAN
  BY <1>1 DEF TypeOK, Control
<1>3. PICK unsafe \in BOOLEAN :
        Terminalize(r, ctl[r].to, ctl[r].discard, ctl[r].partial, unsafe)
  BY DEF SettleCommit
<1> QED
  BY <1>1, <1>2, <1>3, TerminalizeSettles

\* The sweep settles the run whose row it holds.
LEMMA SweepSettles ==
    ASSUME Guarded, NEW r \in Run, RecoverCommit(r)
    PROVE  Settles(r)
<1>1. TypeOK /\ Running(r)
  BY GenerationAssumption DEF Guarded, SweepHolds, RecoverCommit
<1>2. PICK unsafe \in BOOLEAN : Terminalize(r, "timed_out", FALSE, FALSE, unsafe)
  BY DEF RecoverCommit
<1> QED
  BY <1>1, <1>2, TerminalizeSettles, Statuses

\* The owner's commit ends the job; the sweep held no row, for it could only have held
\* that of the running run.
LEMMA OwnerCommitStep ==
    ASSUME Guarded, NEW r \in Run, SaveCommit(r) \/ SettleCommit(r)
    PROVE  Guarded'
<1>1. Settles(r)
  BY SaveSettles, OwnerSettles
<1>2. TypeOK /\ End(r, "done") /\ rec' = rec
  BY DEF Guarded, SaveCommit, SettleCommit
<1>3. rec # r
  BY DEF Guarded, OwnerHolds, SaveCommit, SettleCommit, At, HoldsRun
<1>4. rec' = NoRun
  BY <1>1, <1>2, <1>3 DEF Guarded, TypeOK, SweepHolds, InProgressHasRun, Settles
<1>5. /\ ctl' = [ctl EXCEPT ![r] = ctl'[r]]
      /\ ctl'[r] \in Control
      /\ ctl'[r].at = "done"
  BY <1>2, EndAt, FreePlaces
<1> QED
  BY <1>1, <1>4, <1>5, SettleStep, FreePlaces DEF SaveCommit, SettleCommit

\* The sweep's commit leaves the owner where it is: without the row.
LEMMA RecoverCommitStep ==
    ASSUME Guarded, NEW r \in Run, RecoverCommit(r)
    PROVE  Guarded'
<1>1. Settles(r)
  BY SweepSettles
<1>2. ctl' = [ctl EXCEPT ![r] = ctl'[r]] /\ ctl'[r] \in Control
  BY DEF Guarded, TypeOK, RecoverCommit
<1>3. ctl'[r].at \notin HoldsRun
  BY DEF Guarded, OwnerHolds, RecoverCommit
<1> QED
  BY <1>1, <1>2, <1>3, SettleStep DEF RecoverCommit

-----------------------------------------------------------------------------
(* The theorems.                                                           *)

\* Every step preserves the invariant.
LEMMA GuardedInductive == Guarded /\ [Next]_vars => Guarded'
<1> SUFFICES ASSUME Guarded, [Next]_vars
             PROVE  Guarded'
  OBVIOUS
<1>1. CASE UNCHANGED vars
  BY <1>1 DEF Guarded, TypeOK, InProgressHasRun, OwnerHolds, SweepHolds, SaveUncancelled,
              DeliveredSettled, CancelWins, Running, At, vars
<1>2. ASSUME NEW r \in Run, Request(r)
      PROVE  Guarded'
  BY <1>2, GenerateStep, EnqueueStep, QueueUnavailableStep, ReplayCachedStep, CancelStep
  DEF Request
<1>3. ASSUME NEW r \in Run, Work(r)
      PROVE  Guarded'
  BY <1>3, DeliverStep, PrepareStep, PrepareStopsStep, CheckpointStep, DraftStopsStep,
     DraftedStep, ValidateStep, SaveLockStep, SaveRefusedStep
  DEF Work
<1>4. ASSUME NEW r \in Run, Hold(r)
      PROVE  Guarded'
  BY <1>4, OwnerCommitStep, SaveTimesOutStep, SettleLockStep DEF Hold
<1>5. ASSUME NEW r \in Run, BeatStage(r) \/ Beat(r)
      PROVE  Guarded'
  BY <1>5, BeatStep, PipelineAbortedStep, RecoveryAbortedStep DEF Beat
<1>6. ASSUME NEW r \in Run,
             StatementTimeout(r) \/ Interrupt(r) \/ DeadlinePasses(r) \/ RecoverLock(r)
             \/ RecoverCommit(r)
      PROVE  Guarded'
  BY <1>6, StatementTimeoutStep, InterruptStep, DeadlinePassesStep, RecoverLockStep,
     RecoverCommitStep
<1>7. CASE OwnerActs \/ EditInputs
  BY <1>7, EditStep
<1> QED
  BY <1>1, <1>2, <1>3, <1>4, <1>5, <1>6, <1>7 DEF Next, OwnerActs

\* The row locks guard the runs in every reachable state.
THEOREM AlwaysGuarded == Spec => []Guarded
BY InitGuarded, GuardedInductive, PTL DEF Spec

\* The rows and the control state keep their shapes: the CHECK constraints of
\* stage_generation_runs hold after every transaction.
THEOREM TypesHold == Spec => []TypeOK
<1>1. Guarded => TypeOK
  BY DEF Guarded
<1> QED
  BY <1>1, AlwaysGuarded, PTL

\* A stage is in_progress exactly while one run is running, whatever is cancelled,
\* times out, is killed, redelivered or swept.
THEOREM OneRunPerStage == Spec => []InProgressHasRun
<1>1. Guarded => InProgressHasRun
  BY DEF Guarded
<1> QED
  BY <1>1, AlwaysGuarded, PTL

\* No save overtakes a committed cancel request.
THEOREM NoSaveAfterCancel == Spec => []CancelWins
<1>1. Guarded => CancelWins
  BY DEF Guarded
<1> QED
  BY <1>1, AlwaysGuarded, PTL

-----------------------------------------------------------------------------
(* Who may write a settled run, or the version of a generating stage.      *)

\* What SettledOnce says of one step.
KeepsSettled ==
    \A r \in Run : run[r].status \in Terminal =>
        /\ run'[r].status = run[r].status
        /\ run'[r].refunded = run[r].refunded
        /\ run'[r].version = run[r].version

\* What OnlyOwnerWrites says of one step.
OwnerWrites ==
    stage.status = "in_progress" /\ stage'.version # stage.version =>
        \E r \in Run : Running(r) /\ run'[r].status \in Terminal
                       /\ run'[r].version = stage'.version

\* A step that leaves run and stage alone.
LEMMA QuietStep == UNCHANGED <<run, stage>> => KeepsSettled /\ OwnerWrites
BY DEF KeepsSettled, OwnerWrites

\* The transaction that settles a run writes the row of a running one.
LEMMA SettlesWrites ==
    ASSUME Guarded, NEW r \in Run, Settles(r)
    PROVE  KeepsSettled /\ OwnerWrites
<1>1. \A s \in Run : s # r => run'[s] = run[s]
  BY DEF Guarded, TypeOK, Settles
<1>2. run[r].status \notin Terminal
  BY DEF Settles, Running, Terminal
<1>3. KeepsSettled
  BY <1>1, <1>2 DEF KeepsSettled
<1>4. OwnerWrites
  BY DEF OwnerWrites, Settles
<1> QED
  BY <1>3, <1>4

\* A run is created in an unused row.
LEMMA CreatedWrites ==
    ASSUME Guarded, NEW r \in Run, NEW fields, Created(r, fields)
    PROVE  KeepsSettled /\ OwnerWrites
<1>1. run[r].status \notin Terminal
  BY DEF Created, Terminal
<1>2. \A s \in Run : s # r => run'[s] = run[s]
  BY DEF Guarded, TypeOK, Created
<1>3. stage.status # "in_progress"
  BY DEF Created
<1> QED
  BY <1>1, <1>2, <1>3 DEF KeepsSettled, OwnerWrites

\* The prompt, the count and the cancel request may be written into a settled run, but
\* not its outcome.
LEMMA RowWrites ==
    ASSUME Guarded, NEW r \in Run,
           Prepare(r) \/ Cancel(r) \/ \E c \in Part : Checkpoint(r, c)
    PROVE  KeepsSettled /\ OwnerWrites
<1>1. run \in [Run -> RunRow] /\ stage' = stage
  BY DEF Guarded, TypeOK, Prepare, Cancel, Checkpoint
<1>2. CASE Prepare(r)
  BY <1>1, <1>2 DEF KeepsSettled, OwnerWrites, Prepare, RunRow
<1>3. CASE Cancel(r)
  BY <1>1, <1>3 DEF KeepsSettled, OwnerWrites, Cancel, RunRow
<1>4. ASSUME NEW c \in Part, Checkpoint(r, c)
      PROVE  KeepsSettled /\ OwnerWrites
  BY <1>1, <1>4 DEF KeepsSettled, OwnerWrites, Checkpoint, RunRow
<1> QED
  BY <1>2, <1>3, <1>4

\* No edit moves the version of a generating stage.
LEMMA EditWrites ==
    ASSUME Guarded, OwnerActs \/ EditInputs
    PROVE  KeepsSettled /\ OwnerWrites
<1>1. run' = run
  BY DEF OwnerActs, Owner, EditStage, Rollback, Finalise, EditInputs
<1>2. stage.status = "in_progress" => stage'.version = stage.version
  BY DEF Guarded, TypeOK, OwnerActs, Owner, EditStage, Rollback, Finalise, EditInputs
<1> QED
  BY <1>1, <1>2 DEF KeepsSettled, OwnerWrites

\* Every step keeps the settled runs and leaves a generating stage to its owner.
LEMMA StepWrites == Guarded /\ [Next]_vars => KeepsSettled /\ OwnerWrites
<1> SUFFICES ASSUME Guarded, [Next]_vars
             PROVE  KeepsSettled /\ OwnerWrites
  OBVIOUS
<1>1. CASE UNCHANGED vars
  BY <1>1, QuietStep DEF vars
<1>2. ASSUME NEW r \in Run, Request(r)
      PROVE  KeepsSettled /\ OwnerWrites
  <2>1. CASE Generate(r) \/ Resume(r) \/ GenerateCached(r)
    BY <2>1, CreatedWrites DEF Generate, Resume, GenerateCached
  <2>2. CASE Enqueue(r) \/ QueueUnavailable(r) \/ ReplayCached(r)
    BY <2>2, QuietStep DEF Enqueue, QueueUnavailable, ReplayCached
  <2>3. CASE Cancel(r)
    BY <2>3, RowWrites
  <2> QED
    BY <1>2, <2>1, <2>2, <2>3 DEF Request
<1>3. ASSUME NEW r \in Run, Work(r)
      PROVE  KeepsSettled /\ OwnerWrites
  <2>1. CASE Prepare(r) \/ \E c \in Part : Checkpoint(r, c)
    BY <2>1, RowWrites
  <2>2. CASE Deliver(r) \/ PrepareStops(r) \/ DraftStops(r) \/ Drafted(r)
    BY <2>2, QuietStep DEF Deliver, PrepareStops, DraftStops, Drafted
  <2>3. CASE Validate(r) \/ SaveLock(r) \/ SaveRefused(r)
    BY <2>3, QuietStep DEF Validate, SaveLock, SaveRefused
  <2> QED
    BY <1>3, <2>1, <2>2, <2>3 DEF Work
<1>4. ASSUME NEW r \in Run, Hold(r)
      PROVE  KeepsSettled /\ OwnerWrites
  <2>1. CASE SaveCommit(r) \/ SettleCommit(r)
    BY <2>1, SaveSettles, OwnerSettles, SettlesWrites
  <2>2. CASE SaveTimesOut(r) \/ SettleLock(r)
    BY <2>2, QuietStep DEF SaveTimesOut, SettleLock
  <2> QED
    BY <1>4, <2>1, <2>2 DEF Hold
<1>5. ASSUME NEW r \in Run, BeatStage(r) \/ Beat(r)
      PROVE  KeepsSettled /\ OwnerWrites
  BY <1>5, QuietStep
  DEF Beat, BeatStage, BeatRun, BeatAborted, PipelineAborted, RecoveryAborted
<1>6. ASSUME NEW r \in Run,
             StatementTimeout(r) \/ Interrupt(r) \/ DeadlinePasses(r) \/ RecoverLock(r)
             \/ RecoverCommit(r)
      PROVE  KeepsSettled /\ OwnerWrites
  <2>1. CASE RecoverCommit(r)
    BY <2>1, SweepSettles, SettlesWrites
  <2>2. CASE StatementTimeout(r) \/ Interrupt(r) \/ DeadlinePasses(r) \/ RecoverLock(r)
    BY <2>2, QuietStep DEF StatementTimeout, Interrupt, DeadlinePasses, RecoverLock
  <2> QED
    BY <1>6, <2>1, <2>2
<1>7. CASE OwnerActs \/ EditInputs
  BY <1>7, EditWrites
<1> QED
  BY <1>1, <1>2, <1>3, <1>4, <1>5, <1>6, <1>7 DEF Next, OwnerActs

\* A settled run is final: no late worker, redelivered job or sweep settles, refunds or
\* saves it again.
THEOREM SettledRunsFinal == Spec => SettledOnce
<1>1. Guarded /\ [Next]_vars => [KeepsSettled]_vars
  BY StepWrites
<1>2. Spec => [][KeepsSettled]_vars
  BY <1>1, AlwaysGuarded, PTL DEF Spec
<1> QED
  BY <1>2 DEF SettledOnce, KeepsSettled

\* The version of a generating stage is moved by its running run only.
THEOREM OwnerAloneWrites == Spec => OnlyOwnerWrites
<1>1. Guarded /\ [Next]_vars => [OwnerWrites]_vars
  BY StepWrites
<1>2. Spec => [][OwnerWrites]_vars
  BY <1>1, AlwaysGuarded, PTL DEF Spec
<1> QED
  BY <1>2 DEF OnlyOwnerWrites, OwnerWrites

-----------------------------------------------------------------------------
(***************************************************************************)
(* What a charge buys, and what the banked sections of a run are worth.    *)
(*                                                                         *)
(* Banked follows the sections of a run from the draft to the save.        *)
(* Accounts follows a charge along the chain of free resumes it pays for:  *)
(* a run that is still at work, or still on offer, holds the charge alone. *)
(* Redeemable follows what the user is left with when a run stops.         *)
(***************************************************************************)

(* The inductive invariants.                                               *)

\* The row of a run that was never created, and its owner.
Unused(r) ==
    run[r].status = "none" =>
        /\ run[r].payer = NoRun
        /\ chunks[r] = {}
        /\ ctl[r].at = "none"
        /\ ctl[r].by = "api"

\* Where a worker claims that every section is banked.
Complete(r) == ctl[r].by = "worker" /\ ctl[r].at \in {"validating", "saving", "saveLocked"}

\* completed_parts counts the banked sections, and the worker knows of no others.
Counts(r) ==
    Running(r) =>
        /\ run[r].parts = Cardinality(chunks[r])
        /\ ctl[r].at \in {"preflight", "drafting"} => ctl[r].have \subseteq chunks[r]
        /\ Complete(r) => chunks[r] = Part

Banked ==
    \A r \in Run : Unused(r) /\ Counts(r) /\ (At(r, "cached") => ctl[r].by = "api")

\* A run at work, and one whose sections a resume would take over.
Pending(r) == Running(r) \/ stage.resume = r

\* The charge that pays r is neither given back nor delivered by anybody.
Unspent(r) ==
    LET p == run[r].payer
    IN  p \in Run => /\ ~run[p].refunded
                     /\ \A s \in Run : run[s].payer = p => ~run[s].delivered

\* A run that somebody else's charge pays: that run is settled, its charge kept, and
\* both were generated from the same inputs.
PaidFor(r) ==
    LET p == run[r].payer
    IN  p \in Run /\ p # r => /\ run[p].status \in Terminal
                             /\ ~run[p].refunded
                             /\ run[p].inputs = run[r].inputs

Account(r) ==
    /\ run[r].charged => run[r].payer = r
    /\ run[r].refunded => run[r].status \in Terminal /\ run[r].charged /\ ~run[r].delivered
    /\ PaidFor(r)
    /\ Pending(r) => Unspent(r)
    /\ stage.resume = r => run[r].status \in Terminal

OneDelivers ==
    \A r, s \in Run :
        run[r].payer \in Run /\ run[s].payer = run[r].payer
        /\ run[r].delivered /\ run[s].delivered => r = s

Accounts == (\A r \in Run : Account(r)) /\ OneDelivers

Resumer(r) == run[r].payer \in Run /\ run[r].payer # r

\* What a resume takes over, what it leaves on offer while it runs, and the versions.
Resumed(r) ==
    /\ Resumer(r) => run[r].seed # {}
    /\ Resumer(r) /\ Running(r) =>
        /\ run[r].prompt
        /\ \E s \in Run : stage.resume = s /\ run[s].payer = run[r].payer
    /\ stage.resume = r => run[r].prompt /\ ResumeOffered(r)
    /\ run[r].version <= stage.version

\* No further step of its owner.
Over(r) == ctl[r].at \in {"done", "dead", "lost"}

\* A resume that stopped for good before its seeds were banked again.
LostSeeds(r) == Over(r) /\ run[r].version # 0 /\ ~(run[r].seed \subseteq chunks[r])

\* KeptChargeRedeemable, without the way out that a late worker could close.
Redeemed(p) ==
    run[p].charged /\ ~run[p].refunded
    /\ (\A r \in Run : run[r].payer = p => ~Running(r))
    => \/ \E r \in Run : run[r].payer = p /\ run[r].saved = Part
       \/ \E s \in Run : stage.resume = s /\ run[s].payer = p
       \/ \A r \in Run : run[r].payer = p => run[r].version < stage.version
       \/ stage.gateVersion # stage.version
       \/ \E r \in Run : run[r].payer = p /\ LostSeeds(r)

Redeemable == \A r \in Run : Resumed(r) /\ Redeemed(r)

ChargeInv == Guarded /\ Banked /\ Accounts /\ Redeemable

-----------------------------------------------------------------------------
(* Banked.                                                                 *)

\* The claims of one run.
BankedRun(r) == Unused(r) /\ Counts(r) /\ (At(r, "cached") => ctl[r].by = "api")

\* At the start no run was ever created.
LEMMA InitBanked == Init => Banked
BY DEF Init, Banked, Unused, Counts, Running, At, NewRun, Fresh

\* A step of one run leaves the claims of the others as they were.
LEMMA BankedLocal ==
    ASSUME Banked, NEW r \in Run, BankedRun(r)',
           \A s \in Run : s # r => run'[s] = run[s] /\ chunks'[s] = chunks[s]
                                   /\ ctl'[s] = ctl[s]
    PROVE  Banked'
<1>1. ASSUME NEW s \in Run, s # r
      PROVE  BankedRun(s)'
  BY <1>1 DEF Banked, BankedRun, Unused, Counts, Complete, Running, At
<1> QED
  BY <1>1 DEF Banked, BankedRun

\* The owner of a created run may go anywhere, if it claims there no more than is banked.
LEMMA OwnerBanks ==
    ASSUME Guarded, Banked, NEW r \in Run, run[r].status # "none",
           ctl' = [ctl EXCEPT ![r] = ctl'[r]], UNCHANGED <<run, chunks>>,
           Running(r) /\ ctl'[r].at \in {"preflight", "drafting"} =>
               ctl'[r].have \subseteq chunks[r],
           Running(r) /\ Complete(r)' => chunks[r] = Part,
           ctl'[r].at = "cached" => ctl'[r].by = "api"
    PROVE  Banked'
<1>1. \A s \in Run : s # r => run'[s] = run[s] /\ chunks'[s] = chunks[s] /\ ctl'[s] = ctl[s]
  BY DEF Guarded, TypeOK
<1>2. BankedRun(r)'
  BY DEF Banked, BankedRun, Unused, Counts, Running, At
<1> QED
  BY <1>1, <1>2, BankedLocal

\* The places where an owner claims nothing.
Unclaiming == {"handoff", "queued", "raised", "settle", "settleLocked", "cleanup",
               "cleanupLocked", "done", "dead", "lost"}

\* An owner that has begun may go to such a place.
LEMMA UnclaimedMove ==
    ASSUME Guarded, Banked, NEW r \in Run, ctl[r].at # "none", NEW where \in Unclaiming,
           ctl' = [ctl EXCEPT ![r] = ctl'[r]], ctl'[r].at = where,
           UNCHANGED <<run, chunks>>
    PROVE  Banked'
<1>1. run[r].status # "none"
  BY DEF Banked, Unused
<1> QED
  BY <1>1, OwnerBanks DEF Unclaiming, Complete

\* GoSettle keeps the kind of the owner.
LEMMA GoSettleBy ==
    ASSUME TypeOK, NEW r \in Run, NEW where, NEW status, NEW discard, NEW partial,
           GoSettle(r, where, status, discard, partial)
    PROVE  ctl' = [ctl EXCEPT ![r] = ctl'[r]] /\ ctl'[r].at = where /\ ctl'[r].by = ctl[r].by
<1> DEFINE row == [ctl[r] EXCEPT !.at = where, !.to = status, !.discard = discard,
                                 !.partial = partial, !.have = {}]
<1>1. ctl[r] \in Control /\ ctl \in [Run -> Control]
  BY DEF TypeOK
<1>2. row.at = where /\ row.by = ctl[r].by
  BY <1>1 DEF Control
<1>3. ctl' = [ctl EXCEPT ![r] = row]
  BY <1>1 DEF GoSettle
<1> HIDE DEF row
<1> QED
  BY <1>1, <1>2, <1>3

\* Go keeps the kind of the owner and the sections it knows.
LEMMA GoBy ==
    ASSUME TypeOK, NEW r \in Run, NEW where, Go(r, where)
    PROVE  /\ ctl' = [ctl EXCEPT ![r] = ctl'[r]]
           /\ ctl'[r].at = where
           /\ ctl'[r].by = ctl[r].by
BY DEF TypeOK, Go, Control

\* End keeps nothing.
LEMMA EndPlace ==
    ASSUME TypeOK, NEW r \in Run, NEW how, End(r, how)
    PROVE  ctl' = [ctl EXCEPT ![r] = ctl'[r]] /\ ctl'[r].at = how
BY DEF TypeOK, End, Fresh

\* An owner about to settle its run claims nothing.
LEMMA SettleBanks ==
    ASSUME Guarded, Banked, NEW r \in Run, ctl[r].at # "none",
           NEW where \in Unclaiming, NEW status, NEW discard, NEW partial,
           GoSettle(r, where, status, discard, partial), UNCHANGED <<run, chunks>>
    PROVE  Banked'
<1>1. ctl' = [ctl EXCEPT ![r] = ctl'[r]] /\ ctl'[r].at = where
  BY GoSettleBy DEF Guarded
<1> QED
  BY <1>1, UnclaimedMove

\* Nor does one that ends.
LEMMA EndBanks ==
    ASSUME Guarded, Banked, NEW r \in Run, ctl[r].at # "none",
           NEW how \in {"done", "dead", "lost"}, End(r, how), UNCHANGED <<run, chunks>>
    PROVE  Banked'
<1>1. ctl' = [ctl EXCEPT ![r] = ctl'[r]] /\ ctl'[r].at = how
  BY EndPlace DEF Guarded
<1> QED
  BY <1>1, UnclaimedMove DEF Unclaiming

\* The request hands over, and the deliveries that find nothing to do.
LEMMA RequestBanks ==
    ASSUME Guarded, Banked, NEW r \in Run,
           Enqueue(r) \/ QueueUnavailable(r) \/ ReplayCached(r)
    PROVE  Banked'
<1>1. CASE Enqueue(r)
  <2>1. ctl \in [Run -> Control] /\ ctl[r] \in Control /\ ctl[r].at # "none"
    BY <1>1 DEF Guarded, TypeOK, Enqueue, At
  <2>2. ctl' = [ctl EXCEPT ![r] = ctl'[r]] /\ ctl'[r].at = "queued"
    BY <1>1, <2>1 DEF Enqueue, Control
  <2> QED
    BY <1>1, <2>1, <2>2, UnclaimedMove DEF Unclaiming, Enqueue
<1>2. CASE QueueUnavailable(r)
  BY <1>2, SettleBanks DEF QueueUnavailable, At, Unclaiming
<1>3. CASE ReplayCached(r)
  <2>1. /\ ctl[r].at = "cached"
        /\ ctl[r].by = "api"
        /\ run[r].status # "none"
        /\ UNCHANGED <<run, chunks>>
    BY <1>3 DEF Banked, Unused, ReplayCached, At
  <2>2. CASE GoSettle(r, "saving", "succeeded", FALSE, FALSE)
    <3>1. /\ ctl' = [ctl EXCEPT ![r] = ctl'[r]]
          /\ ctl'[r].at = "saving"
          /\ ctl'[r].by = "api"
      BY <2>1, <2>2, GoSettleBy DEF Guarded
    <3> QED
      BY <2>1, <3>1, OwnerBanks DEF Complete
  <2>3. CASE \E t \in Terminal, d \in BOOLEAN : GoSettle(r, "cleanup", t, d, FALSE)
    BY <2>1, <2>3, SettleBanks DEF Unclaiming
  <2> QED
    BY <1>3, <2>2, <2>3, Statuses DEF ReplayCached
<1> QED
  BY <1>1, <1>2, <1>3

\* A delivery reads what is banked.
LEMMA DeliverBanks == ASSUME Guarded, Banked, NEW r \in Run, Deliver(r) PROVE Banked'
<1>1. ctl \in [Run -> Control] /\ ctl[r].at # "none" /\ UNCHANGED <<run, chunks>>
  BY DEF Guarded, TypeOK, Deliver, At
<1>2. CASE ~Running(r)
  BY <1>1, <1>2, EndBanks DEF Deliver
<1>3. CASE Running(r)
  <2>1. /\ ctl' = [ctl EXCEPT ![r] = ctl'[r]]
        /\ ctl'[r].have = chunks[r]
        /\ ctl'[r].at \in {"cleanup", "preflight"}
    BY <1>1, <1>3 DEF Deliver, Fresh
  <2> QED
    BY <1>1, <1>3, <2>1, OwnerBanks DEF Complete, Running
<1> QED
  BY <1>2, <1>3

\* The preflight and the draft stop.
LEMMA StopBanks ==
    ASSUME Guarded, Banked, NEW r \in Run, PrepareStops(r) \/ DraftStops(r)
    PROVE  Banked'
<1>1. ctl[r].at # "none" /\ UNCHANGED <<run, chunks>>
  BY DEF PrepareStops, DraftStops, At
<1>2. \E t, partial : GoSettle(r, "settle", t, FALSE, partial)
  BY DEF PrepareStops, DraftStops
<1> QED
  BY <1>1, <1>2, SettleBanks DEF Unclaiming

\* Every section is drafted, and so banked.
LEMMA DraftedBanks == ASSUME Guarded, Banked, NEW r \in Run, Drafted(r) PROVE Banked'
<1>1. /\ ctl \in [Run -> Control]
      /\ run[r].status # "none"
      /\ UNCHANGED <<run, chunks>>
  BY DEF Guarded, TypeOK, Banked, Unused, Drafted, At
<1>2. ctl' = [ctl EXCEPT ![r] = ctl'[r]] /\ ctl'[r].at = "validating"
  BY <1>1 DEF Drafted, Control
<1>3. Running(r) => chunks[r] = Part
  BY DEF Guarded, TypeOK, Banked, Counts, Drafted, At
<1> QED
  BY <1>1, <1>2, <1>3, OwnerBanks DEF Complete

\* The gates: a draft that goes on to the save is complete.
LEMMA ValidateBanks == ASSUME Guarded, Banked, NEW r \in Run, Validate(r) PROVE Banked'
<1>1. /\ ctl[r].at = "validating"
      /\ run[r].status # "none"
      /\ UNCHANGED <<run, chunks>>
  BY DEF Banked, Unused, Validate, At
<1>2. CASE \E t : GoSettle(r, "saving", t, FALSE, FALSE)
  <2>1. /\ ctl' = [ctl EXCEPT ![r] = ctl'[r]]
        /\ ctl'[r].at = "saving"
        /\ ctl'[r].by = ctl[r].by
    BY <1>2, GoSettleBy DEF Guarded
  <2>2. Running(r) /\ Complete(r)' => chunks[r] = Part
    BY <1>1, <2>1 DEF Banked, Counts, Complete
  <2> QED
    BY <1>1, <2>1, <2>2, OwnerBanks
<1>3. CASE \E where \in {"settle", "cleanup"}, t \in Terminal, d \in BOOLEAN :
             GoSettle(r, where, t, d, FALSE)
  BY <1>1, <1>3, SettleBanks DEF Unclaiming
<1> QED
  BY <1>2, <1>3, Statuses DEF Validate

\* The save takes the row; the sections stay complete.
LEMMA SaveLockBanks == ASSUME Guarded, Banked, NEW r \in Run, SaveLock(r) PROVE Banked'
<1>1. /\ ctl[r].at = "saving"
      /\ run[r].status # "none"
      /\ UNCHANGED <<run, chunks>>
  BY DEF Banked, Unused, SaveLock, At
<1>2. /\ ctl' = [ctl EXCEPT ![r] = ctl'[r]]
      /\ ctl'[r].at = "saveLocked"
      /\ ctl'[r].by = ctl[r].by
  BY GoBy DEF Guarded, SaveLock
<1>3. Running(r) /\ Complete(r)' => chunks[r] = Part
  BY <1>1, <1>2 DEF Banked, Counts, Complete
<1> QED
  BY <1>1, <1>2, <1>3, OwnerBanks

\* The other moves of an owner, all to places where it claims nothing.
LEMMA OtherBanks ==
    ASSUME Guarded, Banked, NEW r \in Run,
           SaveRefused(r) \/ StatementTimeout(r) \/ SaveTimesOut(r) \/ SettleLock(r)
           \/ PipelineAborted(r) \/ Interrupt(r)
    PROVE  Banked'
<1>1. ctl \in [Run -> Control] /\ UNCHANGED <<run, chunks>> /\ ctl[r].at # "none"
  BY DEF Guarded, TypeOK, SaveRefused, StatementTimeout, SaveTimesOut, SettleLock,
         PipelineAborted, LockCycle, Interrupt, At
<1>2. CASE SaveRefused(r) \/ SaveTimesOut(r) \/ PipelineAborted(r)
  <2>1. \/ \E how \in {"done", "dead"} : End(r, how)
        \/ \E where \in Unclaiming, t \in Terminal : GoSettle(r, where, t, FALSE, FALSE)
    BY <1>2, Statuses DEF SaveRefused, SaveTimesOut, PipelineAborted, Unclaiming
  <2> QED
    BY <1>1, <2>1, EndBanks, SettleBanks
<1>3. CASE StatementTimeout(r)
  BY <1>1, <1>3, EndBanks DEF StatementTimeout
<1>4. CASE SettleLock(r)
  <2>1. CASE Running(r)
    <3>1. PICK where \in {"settleLocked", "cleanupLocked"} : Go(r, where)
      BY <1>4, <2>1 DEF SettleLock
    <3>2. ctl' = [ctl EXCEPT ![r] = ctl'[r]] /\ ctl'[r].at = where
      BY <3>1, GoBy DEF Guarded
    <3> QED
      BY <1>1, <3>2, UnclaimedMove DEF Unclaiming
  <2>2. CASE ~Running(r)
    BY <1>1, <1>4, <2>2, EndBanks DEF SettleLock
  <2> QED
    BY <2>1, <2>2
<1>5. CASE Interrupt(r)
  <2>1. CASE ctl[r].by = "worker"
    <3>1. ctl' = [ctl EXCEPT ![r] = ctl'[r]] /\ ctl'[r].at = "queued"
      BY <1>1, <1>5, <2>1 DEF Interrupt, Fresh
    <3> QED
      BY <1>1, <3>1, UnclaimedMove DEF Unclaiming
  <2>2. CASE ctl[r].by # "worker"
    BY <1>1, <1>5, <2>2, EndBanks DEF Interrupt
  <2> QED
    BY <2>1, <2>2
<1> QED
  BY <1>2, <1>3, <1>4, <1>5

-----------------------------------------------------------------------------
(* A created run: what a paid run, a free resume and a replay start with.  *)

\* The offer a resume takes up, and the row it creates.
ResumeRow(s) == [NewRun EXCEPT !.source = s, !.payer = run[s].payer, !.seed = chunks[s],
                               !.prompt = run[s].prompt]

PaidRow(r) == [NewRun EXCEPT !.charged = TRUE, !.payer = r]

\* The three rows, field by field.
LEMMA StartRows ==
    ASSUME Guarded, NEW r \in Run, NEW s \in Run
    PROVE  /\ {NewRun, PaidRow(r), ResumeRow(s)} \subseteq RunRow
           /\ \A f \in {NewRun, PaidRow(r), ResumeRow(s)} :
                 f.parts = 0 /\ ~f.refunded /\ ~f.delivered /\ f.version = 0
           /\ NewRun.payer = NoRun /\ ~NewRun.charged
           /\ PaidRow(r).payer = r /\ PaidRow(r).charged
           /\ ResumeRow(s).payer = run[s].payer /\ ~ResumeRow(s).charged
           /\ ResumeRow(s).seed = chunks[s] /\ ResumeRow(s).prompt = run[s].prompt
<1>1. /\ run[s].payer \in Run \cup {NoRun}
      /\ run[s].prompt \in BOOLEAN
      /\ chunks[s] \in SUBSET Part
  BY DEF Guarded, TypeOK, RunRow
<1>2. NewRun \in RunRow /\ PaidRow(r) \in RunRow
  BY DEF NewRun, PaidRow, RunRow, Terminal
<1>3. ResumeRow(s) \in RunRow
  BY <1>1 DEF NewRun, ResumeRow, RunRow, Terminal
<1>4. \A f \in {NewRun, PaidRow(r), ResumeRow(s)} :
        f.parts = 0 /\ ~f.refunded /\ ~f.delivered /\ f.version = 0
  <2> DEFINE Blank(f) == f.parts = 0 /\ ~f.refunded /\ ~f.delivered /\ f.version = 0
  <2>1. Blank(NewRun)
    BY DEF NewRun
  <2>2. Blank(PaidRow(r))
    BY DEF NewRun, PaidRow
  <2>3. Blank(ResumeRow(s))
    BY DEF NewRun, ResumeRow
  <2> HIDE DEF Blank
  <2>4. \A f \in {NewRun, PaidRow(r), ResumeRow(s)} : Blank(f)
    BY <2>1, <2>2, <2>3
  <2> QED
    BY <2>4 DEF Blank
<1>5. NewRun.payer = NoRun /\ ~NewRun.charged
  BY DEF NewRun
<1>6. PaidRow(r).payer = r /\ PaidRow(r).charged
  BY DEF NewRun, PaidRow
<1>7. /\ ResumeRow(s).payer = run[s].payer /\ ~ResumeRow(s).charged
      /\ ResumeRow(s).seed = chunks[s] /\ ResumeRow(s).prompt = run[s].prompt
  BY DEF NewRun, ResumeRow
<1> QED
  BY <1>2, <1>3, <1>4, <1>5, <1>6, <1>7

\* Which of the three a request creates.
LEMMA StartsWith ==
    ASSUME Guarded, NEW r \in Run, Generate(r) \/ Resume(r) \/ GenerateCached(r)
    PROVE  \/ Created(r, PaidRow(r)) /\ Go(r, "handoff")
           \/ \E s \in Run : /\ ResumeOffered(s) /\ run[s].inputs = inputs
                           /\ Created(r, ResumeRow(s)) /\ Go(r, "handoff")
           \/ Created(r, NewRun) /\ Go(r, "cached")
BY DEF Generate, Resume, GenerateCached, PaidRow, ResumeRow

\* In any case no section is counted.
LEMMA CreatedFields ==
    ASSUME Guarded, NEW r \in Run, Generate(r) \/ Resume(r) \/ GenerateCached(r)
    PROVE  \E fields \in RunRow, where \in {"handoff", "cached"} :
               fields.parts = 0 /\ Created(r, fields) /\ Go(r, where)
BY StartRows, StartsWith

\* The prompt is stored, and the draft starts from what the delivery has read.
LEMMA PrepareBanks == ASSUME Guarded, Banked, NEW r \in Run, Prepare(r) PROVE Banked'
<1>1. /\ run \in [Run -> RunRow]
      /\ ctl \in [Run -> Control]
      /\ chunks' = chunks
      /\ run[r].status # "none"
  BY DEF Guarded, TypeOK, Banked, Unused, Prepare, At
<1>2. run' = [run EXCEPT ![r].prompt = TRUE]
  BY DEF Prepare
<1>3. /\ \A s \in Run : s # r => run'[s] = run[s]
      /\ run'[r].status = run[r].status
      /\ run'[r].parts = run[r].parts
  BY <1>1, <1>2 DEF RunRow
<1>4. /\ \A s \in Run : s # r => ctl'[s] = ctl[s]
      /\ ctl'[r].at = "drafting"
      /\ ctl'[r].have = ctl[r].have
  BY <1>1 DEF Prepare, Control
<1>5. BankedRun(r)'
  BY <1>1, <1>3, <1>4 DEF Banked, BankedRun, Unused, Counts, Complete, Running, At, Prepare
<1> QED
  BY <1>1, <1>3, <1>4, <1>5, BankedLocal

\* A section is banked and counted in one transaction.
LEMMA CheckpointBanks ==
    ASSUME Guarded, Banked, NEW r \in Run, NEW c \in Part, Checkpoint(r, c)
    PROVE  Banked'
<1>1. /\ run \in [Run -> RunRow]
      /\ ctl \in [Run -> Control]
      /\ chunks \in [Run -> SUBSET Part]
      /\ run[r].status # "none"
      /\ ctl[r].at = "drafting"
  BY DEF Guarded, TypeOK, Banked, Unused, Checkpoint, At
<1>2. /\ run' = [run EXCEPT ![r].parts = Counted(r, chunks[r] \cup {c})]
      /\ chunks' = [chunks EXCEPT ![r] = chunks[r] \cup {c}]
      /\ ctl' = [ctl EXCEPT ![r].have = ctl[r].have \cup {c}]
  BY <1>1 DEF Checkpoint
<1>3. /\ \A s \in Run : s # r => run'[s] = run[s]
      /\ run'[r].status = run[r].status
      /\ run'[r].parts = Counted(r, chunks[r] \cup {c})
  BY <1>1, <1>2 DEF RunRow
<1>4. /\ \A s \in Run : s # r => ctl'[s] = ctl[s]
      /\ ctl'[r].at = "drafting"
      /\ ctl'[r].have = ctl[r].have \cup {c}
  BY <1>1, <1>2 DEF Control
<1>5. /\ \A s \in Run : s # r => chunks'[s] = chunks[s]
      /\ chunks'[r] = chunks[r] \cup {c}
  BY <1>1, <1>2
<1>6. Running(r) => /\ run'[r].parts = Cardinality(chunks'[r])
                    /\ ctl'[r].have \subseteq chunks'[r]
  BY <1>1, <1>3, <1>4, <1>5 DEF Counted, Banked, Counts
<1>7. BankedRun(r)'
  BY <1>1, <1>3, <1>4, <1>6 DEF BankedRun, Unused, Counts, Complete, Running, At
<1> QED
  BY <1>3, <1>4, <1>5, <1>7, BankedLocal

\* The cancel request is written into the row and nowhere else.
LEMMA CancelBanks == ASSUME Guarded, Banked, NEW r \in Run, Cancel(r) PROVE Banked'
<1>1. run \in [Run -> RunRow] /\ UNCHANGED <<ctl, chunks>> /\ Running(r)
  BY DEF Guarded, TypeOK, Cancel
<1>2. run' = [run EXCEPT ![r].cancel = TRUE]
  BY DEF Cancel
<1>3. /\ \A s \in Run : s # r => run'[s] = run[s]
      /\ run'[r].status = run[r].status
      /\ run'[r].parts = run[r].parts
  BY <1>1, <1>2 DEF RunRow
<1>4. BankedRun(r)'
  BY <1>1, <1>3 DEF Banked, BankedRun, Unused, Counts, Complete, Running, At
<1> QED
  BY <1>1, <1>3, <1>4, BankedLocal

\* A run starts with no section banked and none counted.
LEMMA CreatedBanks ==
    ASSUME Guarded, Banked, NEW r \in Run, NEW fields \in RunRow, fields.parts = 0,
           Created(r, fields), NEW where \in {"handoff", "cached"}, Go(r, where)
    PROVE  Banked'
<1> DEFINE row == [fields EXCEPT !.status = "running", !.inputs = inputs,
                                 !.prev = stage.status]
<1>1. /\ run \in [Run -> RunRow]
      /\ chunks' = chunks
      /\ chunks[r] = {}
      /\ ctl[r].by = "api"
  BY DEF Guarded, TypeOK, Banked, Unused, Created
<1>2. row.status = "running" /\ row.parts = 0
  BY DEF RunRow
<1>3. run' = [run EXCEPT ![r] = row]
  BY DEF Created
<1> HIDE DEF row
<1>4. (\A s \in Run : s # r => run'[s] = run[s]) /\ run'[r] = row
  BY <1>1, <1>3
<1>5. /\ ctl' = [ctl EXCEPT ![r] = ctl'[r]]
      /\ ctl'[r].at = where
      /\ ctl'[r].by = "api"
  BY <1>1, GoBy DEF Guarded
<1>6. \A s \in Run : s # r => ctl'[s] = ctl[s]
  BY <1>5 DEF Guarded, TypeOK
<1>7. Cardinality({}) = 0
  BY FS_EmptySet
<1>8. BankedRun(r)'
  BY <1>1, <1>2, <1>4, <1>5, <1>7 DEF BankedRun, Unused, Counts, Complete, Running, At
<1> QED
  BY <1>1, <1>4, <1>6, <1>8, BankedLocal

\* A settled run makes no claim.
LEMMA SettledBanks ==
    ASSUME Guarded, Banked, NEW r \in Run, Settles(r),
           ctl' = [ctl EXCEPT ![r] = ctl'[r]], ctl'[r].at # "cached" \/ ctl'[r] = ctl[r],
           \A s \in Run : s # r => chunks'[s] = chunks[s]
    PROVE  Banked'
<1>1. \A s \in Run : s # r => run'[s] = run[s] /\ ctl'[s] = ctl[s]
  BY DEF Guarded, TypeOK, Settles
<1>2. run'[r].status \notin {"none", "running"}
  BY DEF Settles, Terminal
<1>3. BankedRun(r)'
  BY <1>2 DEF Banked, BankedRun, Unused, Counts, Running, At
<1> QED
  BY <1>1, <1>3, BankedLocal

\* The three transactions that settle a run.
LEMMA CommitBanks ==
    ASSUME Guarded, Banked, NEW r \in Run, SaveCommit(r) \/ SettleCommit(r) \/ RecoverCommit(r)
    PROVE  Banked'
<1>1. Settles(r)
  BY SaveSettles, OwnerSettles, SweepSettles
<1>2. \A s \in Run : s # r => chunks'[s] = chunks[s]
  BY DEF Guarded, TypeOK, SaveCommit, SettleCommit, RecoverCommit, Terminalize
<1>3. CASE SaveCommit(r) \/ SettleCommit(r)
  <2>1. ctl' = [ctl EXCEPT ![r] = ctl'[r]] /\ ctl'[r].at = "done"
    BY <1>3, EndPlace DEF Guarded, SaveCommit, SettleCommit
  <2> QED
    BY <1>1, <1>2, <2>1, SettledBanks
<1>4. CASE RecoverCommit(r)
  <2>1. ctl' = [ctl EXCEPT ![r] = ctl'[r]] /\ ctl'[r] = ctl[r]
    BY <1>4 DEF Guarded, TypeOK, RecoverCommit
  <2> QED
    BY <1>1, <1>2, <2>1, SettledBanks
<1> QED
  BY <1>3, <1>4

\* Every step preserves what is banked.
LEMMA StepBanks == Guarded /\ Banked /\ [Next]_vars => Banked'
<1> SUFFICES ASSUME Guarded, Banked, [Next]_vars
             PROVE  Banked'
  OBVIOUS
<1>1. UNCHANGED <<run, chunks, ctl>> => Banked'
  BY DEF Banked, Unused, Counts, Complete, Running, At
<1>2. ASSUME NEW r \in Run, Request(r)
      PROVE  Banked'
  <2>1. CASE Generate(r) \/ Resume(r) \/ GenerateCached(r)
    <3>1. PICK fields \in RunRow, where \in {"handoff", "cached"} :
            fields.parts = 0 /\ Created(r, fields) /\ Go(r, where)
      BY <2>1, CreatedFields
    <3> QED
      BY <3>1, CreatedBanks
  <2> QED
    BY <1>2, <2>1, RequestBanks, CancelBanks DEF Request
<1>3. ASSUME NEW r \in Run, Work(r)
      PROVE  Banked'
  BY <1>3, DeliverBanks, PrepareBanks, StopBanks, CheckpointBanks, DraftedBanks,
     ValidateBanks, SaveLockBanks, OtherBanks
  DEF Work
<1>4. ASSUME NEW r \in Run, Hold(r) \/ RecoverCommit(r)
      PROVE  Banked'
  BY <1>4, CommitBanks, OtherBanks DEF Hold
<1>5. ASSUME NEW r \in Run, StatementTimeout(r) \/ PipelineAborted(r) \/ Interrupt(r)
      PROVE  Banked'
  BY <1>5, OtherBanks
<1>6. ASSUME NEW r \in Run,
             BeatStage(r) \/ BeatRun(r) \/ BeatAborted(r) \/ RecoveryAborted(r)
             \/ DeadlinePasses(r) \/ RecoverLock(r)
      PROVE  Banked'
  BY <1>1, <1>6 DEF BeatStage, BeatRun, BeatAborted, RecoveryAborted, DeadlinePasses,
                    RecoverLock
<1>7. CASE OwnerActs \/ EditInputs \/ UNCHANGED vars
  BY <1>1, <1>7 DEF OwnerActs, Owner, EditStage, Rollback, Finalise, EditInputs, vars
<1> QED
  BY <1>2, <1>3, <1>4, <1>5, <1>6, <1>7 DEF Next, Beat, OwnerActs

-----------------------------------------------------------------------------
(* What a step does to the accounts: five kinds of step.                   *)

\* The account of s is untouched; its prompt may be stored.
SameAccount(s) ==
    /\ run'[s].status = run[s].status
    /\ run'[s].charged = run[s].charged
    /\ run'[s].refunded = run[s].refunded
    /\ run'[s].payer = run[s].payer
    /\ run'[s].seed = run[s].seed
    /\ run'[s].delivered = run[s].delivered
    /\ run'[s].saved = run[s].saved
    /\ run'[s].version = run[s].version
    /\ run'[s].inputs = run[s].inputs
    /\ run[s].prompt => run'[s].prompt

SameStage ==
    /\ stage'.version = stage.version
    /\ stage'.gateVersion = stage.gateVersion
    /\ stage'.resume = stage.resume

\* No account moves; sections may be banked by an owner that is not over.
Quiet ==
    /\ SameStage
    /\ \A s \in Run : /\ SameAccount(s)
                      /\ chunks[s] \subseteq chunks'[s]
                      /\ Over(s) => chunks'[s] = chunks[s]

\* The owner moves the stage on or unlocks it while nothing runs; the offer is gone.
Edited ==
    /\ \A s \in Run : SameAccount(s) /\ chunks'[s] = chunks[s] /\ ~Running(s)
    /\ \/ stage'.version = stage.version + 1
       \/ stage'.version = stage.version /\ stage'.gateVersion # stage'.version
    /\ stage'.resume = NoRun

\* r is created while nothing runs: charged, free on an offer, or from the cache.
Creates(r) ==
    /\ run[r].status = "none" /\ run[r].payer = NoRun
    /\ \A s \in Run : ~Running(s)
    /\ \A s \in Run : s # r => SameAccount(s)
    /\ run'[r].status = "running"
    /\ ~run'[r].refunded /\ ~run'[r].delivered /\ run'[r].version = 0
    /\ run'[r].inputs = inputs
    /\ \/ run'[r].charged /\ run'[r].payer = r
       \/ ~run'[r].charged /\ run'[r].payer = NoRun
       \/ \E s \in Run : /\ ResumeOffered(s)
                         /\ run[s].inputs = inputs
                         /\ ~run'[r].charged
                         /\ run'[r].payer = run[s].payer
                         /\ run'[r].seed = chunks[s]
                         /\ run'[r].prompt = run[s].prompt
    /\ SameStage
    /\ chunks' = chunks

\* r delivers the whole artifact.
Delivers(r) ==
    /\ Running(r)
    /\ \A s \in Run : s # r => SameAccount(s) /\ ~Running(s)
    /\ run'[r].status \in Terminal
    /\ run'[r].charged = run[r].charged /\ run'[r].refunded = run[r].refunded
    /\ run'[r].payer = run[r].payer /\ run'[r].seed = run[r].seed
    /\ run'[r].inputs = run[r].inputs
    /\ run'[r].delivered /\ run'[r].saved = Part /\ run'[r].version = stage.version + 1
    /\ stage'.version = stage.version + 1
    /\ stage'.resume = NoRun
    /\ chunks' = chunks

\* r stops with the sections kept, and leaves a version unless it has nothing to show.
Stops(r, kept, combined) ==
    /\ Running(r)
    /\ \A s \in Run : s # r => SameAccount(s) /\ ~Running(s) /\ chunks'[s] = chunks[s]
    /\ run'[r].status \in Terminal
    /\ run'[r].charged = run[r].charged /\ run'[r].payer = run[r].payer
    /\ run'[r].seed = run[r].seed /\ run'[r].delivered = run[r].delivered
    /\ run'[r].prompt = run[r].prompt /\ run'[r].inputs = run[r].inputs
    /\ run'[r].refunded <=> Refunded(r, kept)
    /\ run'[r].saved = kept /\ chunks'[r] = kept
    /\ kept # {} => combined
    /\ combined /\ kept = {} => Over(r)'
    /\ combined =>
        /\ run'[r].version = stage.version + 1
        /\ stage'.version = stage.version + 1
        /\ stage'.gateVersion = stage.version + 1
        /\ stage'.resume = IF Resumable(r, kept) THEN r ELSE NoRun
    /\ ~combined => run'[r].version = 0 /\ SameStage

\* An owner that is over stays where it is.
StaysOver == \A s \in Run : Over(s) => Over(s)'

\* Every step is of one of these kinds.
Kinds ==
    \/ Quiet
    \/ Edited
    \/ \E r \in Run : Creates(r) \/ Delivers(r)
                      \/ \E kept \in SUBSET Part, combined \in BOOLEAN :
                             Stops(r, kept, combined)

\* A step that leaves the rows alone is quiet.
LEMMA RowsAlone == UNCHANGED <<run, chunks, stage>> => Kinds
BY DEF Kinds, Quiet, SameStage, SameAccount

\* So is one that writes the prompt, the count or the cancel request.
LEMMA TouchKind ==
    ASSUME Guarded, NEW r \in Run,
           Prepare(r) \/ Cancel(r) \/ \E c \in Part : Checkpoint(r, c)
    PROVE  Quiet
<1>1. /\ run \in [Run -> RunRow]
      /\ chunks \in [Run -> SUBSET Part]
      /\ SameStage
  BY DEF Guarded, TypeOK, Prepare, Cancel, Checkpoint, SameStage
<1>2. CASE Prepare(r)
  <2>1. run' = [run EXCEPT ![r].prompt = TRUE] /\ chunks' = chunks
    BY <1>2 DEF Prepare
  <2>2. \A s \in Run : SameAccount(s)
    BY <1>1, <2>1 DEF SameAccount, RunRow
  <2> QED
    BY <1>1, <2>1, <2>2 DEF Quiet
<1>3. CASE Cancel(r)
  <2>1. run' = [run EXCEPT ![r].cancel = TRUE] /\ chunks' = chunks
    BY <1>3 DEF Cancel
  <2>2. \A s \in Run : SameAccount(s)
    BY <1>1, <2>1 DEF SameAccount, RunRow
  <2> QED
    BY <1>1, <2>1, <2>2 DEF Quiet
<1>4. ASSUME NEW c \in Part, Checkpoint(r, c)
      PROVE  Quiet
  <2>1. /\ run' = [run EXCEPT ![r].parts = Counted(r, chunks[r] \cup {c})]
        /\ chunks' = [chunks EXCEPT ![r] = chunks[r] \cup {c}]
        /\ ctl[r].at = "drafting"
    BY <1>1, <1>4 DEF Checkpoint, At
  <2>2. \A s \in Run : SameAccount(s)
    BY <1>1, <2>1 DEF SameAccount, RunRow
  <2>3. \A s \in Run : chunks[s] \subseteq chunks'[s] /\ (s # r => chunks'[s] = chunks[s])
    BY <1>1, <2>1
  <2> QED
    BY <1>1, <2>1, <2>2, <2>3 DEF Quiet, Over
<1> QED
  BY <1>2, <1>3, <1>4

\* An edit of the stage, or of its inputs.
LEMMA EditKind ==
    ASSUME Guarded, OwnerActs \/ EditInputs
    PROVE  Kinds
<1>1. stage \in [status : {"draft", "stale", "in_progress", "finalised"}, version : Nat,
                 gateVersion : Nat, resume : Run \cup {NoRun}]
  BY DEF Guarded, TypeOK
<1>2. CASE OwnerActs
  <2>1. Owner
    BY <1>2 DEF OwnerActs, EditStage, Rollback, Finalise
  <2>2. (\A s \in Run : ~Running(s)) /\ run' = run /\ chunks' = chunks
    BY <2>1 DEF Guarded, InProgressHasRun, Owner
  <2>3. CASE EditStage
    BY <1>1, <2>2, <2>3 DEF EditStage, Kinds, Edited, SameAccount
  <2>4. CASE Rollback
    <3>1. stage'.resume = NoRun
      BY <1>1, <2>4 DEF Rollback
    <3>2. \/ stage'.version = stage.version + 1
          \/ stage'.version = stage.version /\ stage'.gateVersion # stage'.version
      BY <1>1, <2>4 DEF Rollback
    <3> QED
      BY <2>2, <3>1, <3>2 DEF Kinds, Edited, SameAccount
  <2>5. CASE Finalise
    <3>1. SameStage
      BY <1>1, <2>5 DEF Finalise, SameStage
    <3> QED
      BY <2>2, <3>1 DEF Kinds, Quiet, SameAccount
  <2> QED
    BY <1>2, <2>3, <2>4, <2>5 DEF OwnerActs
<1>3. CASE EditInputs
  <2>1. SameStage
    BY <1>1, <1>3 DEF EditInputs, SameStage
  <2> QED
    BY <1>3, <2>1 DEF EditInputs, Kinds, Quiet, SameAccount
<1> QED
  BY <1>2, <1>3

\* A run is created.
LEMMA CreateKind ==
    ASSUME Guarded, Banked, NEW r \in Run, Generate(r) \/ Resume(r) \/ GenerateCached(r)
    PROVE  Creates(r)
<1>1. /\ run \in [Run -> RunRow]
      /\ stage \in [status : {"draft", "stale", "in_progress", "finalised"}, version : Nat,
                    gateVersion : Nat, resume : Run \cup {NoRun}]
  BY DEF Guarded, TypeOK
<1>2. ASSUME NEW fields \in RunRow, Created(r, fields),
             ~fields.refunded, ~fields.delivered, fields.version = 0,
             \/ fields.charged /\ fields.payer = r
             \/ ~fields.charged /\ fields.payer = NoRun
             \/ \E s \in Run : /\ ResumeOffered(s)
                               /\ run[s].inputs = inputs
                               /\ ~fields.charged
                               /\ fields.payer = run[s].payer
                               /\ fields.seed = chunks[s]
                               /\ fields.prompt = run[s].prompt
      PROVE  Creates(r)
  <2> DEFINE row == [fields EXCEPT !.status = "running", !.inputs = inputs,
                                   !.prev = stage.status]
  <2>1. /\ row.status = "running" /\ row.charged = fields.charged
        /\ row.refunded = fields.refunded /\ row.payer = fields.payer
        /\ row.seed = fields.seed /\ row.prompt = fields.prompt
        /\ row.delivered = fields.delivered /\ row.version = fields.version
        /\ row.inputs = inputs
    BY DEF RunRow
  <2>2. run' = [run EXCEPT ![r] = row]
    BY <1>2 DEF Created
  <2> HIDE DEF row
  <2>3. run'[r] = row /\ \A s \in Run : s # r => run'[s] = run[s]
    BY <1>1, <2>2
  <2>4. run[r].status = "none" /\ run[r].payer = NoRun
    BY <1>2 DEF Banked, Unused, Created
  <2>5. \A s \in Run : ~Running(s)
    BY <1>2 DEF Guarded, InProgressHasRun, Created
  <2>6. SameStage /\ chunks' = chunks
    BY <1>1, <1>2 DEF SameStage, Created
  <2>7. \A s \in Run : s # r => SameAccount(s)
    BY <2>3 DEF SameAccount
  <2> QED
    BY <1>2, <2>1, <2>3, <2>4, <2>5, <2>6, <2>7 DEF Creates
<1>3. CASE Created(r, PaidRow(r))
  BY <1>2, <1>3, StartRows
<1>4. CASE Created(r, NewRun)
  BY <1>2, <1>4, StartRows
<1>5. ASSUME NEW s \in Run, ResumeOffered(s), run[s].inputs = inputs,
             Created(r, ResumeRow(s))
      PROVE  Creates(r)
  <2>1. ResumeRow(s) \in RunRow /\ ~ResumeRow(s).refunded /\ ~ResumeRow(s).delivered
        /\ ResumeRow(s).version = 0
    BY StartRows
  <2>2. /\ ~ResumeRow(s).charged
        /\ ResumeRow(s).payer = run[s].payer
        /\ ResumeRow(s).seed = chunks[s]
        /\ ResumeRow(s).prompt = run[s].prompt
    BY StartRows
  <2> QED
    BY <1>2, <1>5, <2>1, <2>2
<1> QED
  BY <1>3, <1>4, <1>5, StartsWith

\* The save.
LEMMA SaveKind == ASSUME Guarded, NEW r \in Run, SaveCommit(r) PROVE Delivers(r)
<1> DEFINE parts == IF ctl[r].by = "api" THEN Cardinality(Part) ELSE run[r].parts
           row == Saved(run[r], ctl[r].to, stage.version + 1, parts)
<1>1. /\ run \in [Run -> RunRow]
      /\ ctl[r].to \in Terminal
      /\ stage \in [status : {"draft", "stale", "in_progress", "finalised"}, version : Nat,
                    gateVersion : Nat, resume : Run \cup {NoRun}]
  BY DEF Guarded, TypeOK, Control
<1>2. Running(r)
  BY DEF Guarded, OwnerHolds, SaveCommit, At, Settling
<1>3. run' = [run EXCEPT ![r] = row]
  BY <1>1 DEF SaveCommit, Saved
<1>4. /\ row.status = ctl[r].to /\ row.charged = run[r].charged
      /\ row.refunded = run[r].refunded /\ row.payer = run[r].payer
      /\ row.seed = run[r].seed /\ row.inputs = run[r].inputs
      /\ row.delivered /\ row.saved = Part /\ row.version = stage.version + 1
  <2>1. run[r] \in RunRow
    BY <1>1
  <2> HIDE DEF parts
  <2> QED
    BY <2>1 DEF Saved, RunRow
<1> HIDE DEF row
<1>5. run'[r] = row /\ \A s \in Run : s # r => run'[s] = run[s]
  BY <1>1, <1>3
<1>6. \A s \in Run : s # r => SameAccount(s) /\ ~Running(s)
  BY <1>2, <1>5 DEF Guarded, InProgressHasRun, SameAccount
<1>7. stage'.version = stage.version + 1 /\ stage'.resume = NoRun /\ chunks' = chunks
  BY <1>1 DEF SaveCommit
<1> QED
  BY <1>1, <1>2, <1>4, <1>5, <1>6, <1>7 DEF Delivers

\* terminalize_interrupted_run.
LEMMA TerminalizeKind ==
    ASSUME Guarded, NEW r \in Run, Running(r), NEW status \in Terminal,
           NEW discard \in BOOLEAN, NEW partial \in BOOLEAN, NEW unsafe \in BOOLEAN,
           Terminalize(r, status, discard, partial, unsafe), partial => Over(r)'
    PROVE  \E kept \in SUBSET Part, combined \in BOOLEAN : Stops(r, kept, combined)
<1> DEFINE thrown == discard \/ (unsafe /\ (chunks[r] # {} \/ partial))
           kept == IF thrown THEN {} ELSE chunks[r]
           combined == ~thrown /\ (chunks[r] # {} \/ partial)
           version == IF combined THEN stage.version + 1 ELSE 0
           back == Refunded(r, kept)
           row == Interrupted(run[r], status, back, kept, version)
<1>1. /\ run \in [Run -> RunRow]
      /\ run[r] \in RunRow
      /\ chunks \in [Run -> SUBSET Part]
      /\ stage \in [status : {"draft", "stale", "in_progress", "finalised"}, version : Nat,
                    gateVersion : Nat, resume : Run \cup {NoRun}]
  BY DEF Guarded, TypeOK
<1>2. /\ chunks' = [chunks EXCEPT ![r] = kept]
      /\ run' = [run EXCEPT ![r] = row]
      /\ stage' = IF combined
                  THEN [status |-> "draft", version |-> stage.version + 1,
                        gateVersion |-> stage.version + 1,
                        resume |-> IF Resumable(r, kept) THEN r ELSE NoRun]
                  ELSE [stage EXCEPT !.status = run[r].prev]
  BY <1>1 DEF Terminalize, Interrupted
<1>3. kept \in SUBSET Part /\ combined \in BOOLEAN
  BY <1>1
<1>4. (kept # {} => combined) /\ (combined /\ kept = {} => partial)
  OBVIOUS
<1>5. /\ combined => /\ version = stage.version + 1
                     /\ stage'.version = stage.version + 1
                     /\ stage'.gateVersion = stage.version + 1
                     /\ stage'.resume = IF Resumable(r, kept) THEN r ELSE NoRun
      /\ ~combined => version = 0 /\ SameStage
  BY <1>1, <1>2 DEF SameStage
<1> HIDE DEF thrown, kept, combined, version
<1>6. back <=> Refunded(r, kept)
  OBVIOUS
<1> HIDE DEF back
<1>7. /\ row.status = status /\ row.charged = run[r].charged /\ row.payer = run[r].payer
      /\ row.seed = run[r].seed /\ row.delivered = run[r].delivered
      /\ row.prompt = run[r].prompt /\ row.inputs = run[r].inputs
      /\ row.saved = kept /\ row.version = version
      /\ row.refunded <=> back
  BY <1>1 DEF Interrupted, RunRow
<1> HIDE DEF row
<1>8. /\ run'[r] = row /\ chunks'[r] = kept
      /\ \A s \in Run : s # r => run'[s] = run[s] /\ chunks'[s] = chunks[s]
  BY <1>1, <1>2
<1>9. \A s \in Run : s # r => SameAccount(s) /\ ~Running(s)
  BY <1>8 DEF Guarded, InProgressHasRun, SameAccount
<1>10. Stops(r, kept, combined)
  BY <1>4, <1>5, <1>6, <1>7, <1>8, <1>9 DEF Stops
<1> QED
  BY <1>3, <1>10

\* The owner settles its run, or the sweep does, which has no text in hand.
LEMMA StopKind ==
    ASSUME Guarded, NEW r \in Run, SettleCommit(r) \/ RecoverCommit(r)
    PROVE  \E kept \in SUBSET Part, combined \in BOOLEAN : Stops(r, kept, combined)
<1>1. CASE SettleCommit(r)
  <2>1. Running(r) /\ ctl[r] \in Control
    BY <1>1 DEF Guarded, TypeOK, OwnerHolds, SettleCommit, Settling
  <2>2. ctl[r].to \in Terminal /\ ctl[r].discard \in BOOLEAN /\ ctl[r].partial \in BOOLEAN
    BY <2>1 DEF Control
  <2>3. Over(r)'
    BY <1>1, EndPlace DEF Guarded, SettleCommit, Over
  <2>4. PICK unsafe \in BOOLEAN :
          Terminalize(r, ctl[r].to, ctl[r].discard, ctl[r].partial, unsafe)
    BY <1>1 DEF SettleCommit
  <2> QED
    BY <2>1, <2>2, <2>3, <2>4, TerminalizeKind
<1>2. CASE RecoverCommit(r)
  <2>1. Running(r)
    BY <1>2, GenerationAssumption DEF Guarded, SweepHolds, RecoverCommit
  <2>2. PICK unsafe \in BOOLEAN : Terminalize(r, "timed_out", FALSE, FALSE, unsafe)
    BY <1>2 DEF RecoverCommit
  <2> QED
    BY <2>1, <2>2, TerminalizeKind, Statuses
<1> QED
  BY <1>1, <1>2

\* Every step is of one of the five kinds.
LEMMA StepKinds == Guarded /\ Banked /\ [Next]_vars => Kinds
<1> SUFFICES ASSUME Guarded, Banked, [Next]_vars
             PROVE  Kinds
  OBVIOUS
<1>1. CASE UNCHANGED vars
  BY <1>1, RowsAlone DEF vars
<1>2. ASSUME NEW r \in Run, Request(r)
      PROVE  Kinds
  <2>1. CASE Generate(r) \/ Resume(r) \/ GenerateCached(r)
    BY <2>1, CreateKind DEF Kinds
  <2>2. CASE Enqueue(r) \/ QueueUnavailable(r) \/ ReplayCached(r)
    BY <2>2, RowsAlone DEF Enqueue, QueueUnavailable, ReplayCached
  <2>3. CASE Cancel(r)
    BY <2>3, TouchKind DEF Kinds
  <2> QED
    BY <1>2, <2>1, <2>2, <2>3 DEF Request
<1>3. ASSUME NEW r \in Run, Work(r)
      PROVE  Kinds
  <2>1. CASE Prepare(r) \/ \E c \in Part : Checkpoint(r, c)
    BY <2>1, TouchKind DEF Kinds
  <2>2. CASE Deliver(r) \/ PrepareStops(r) \/ DraftStops(r) \/ Drafted(r)
    BY <2>2, RowsAlone DEF Deliver, PrepareStops, DraftStops, Drafted
  <2>3. CASE Validate(r) \/ SaveLock(r) \/ SaveRefused(r)
    BY <2>3, RowsAlone DEF Validate, SaveLock, SaveRefused
  <2> QED
    BY <1>3, <2>1, <2>2, <2>3 DEF Work
<1>4. ASSUME NEW r \in Run, Hold(r)
      PROVE  Kinds
  <2>1. CASE SaveCommit(r)
    BY <2>1, SaveKind DEF Kinds
  <2>2. CASE SettleCommit(r)
    BY <2>2, StopKind DEF Kinds
  <2>3. CASE SaveTimesOut(r) \/ SettleLock(r)
    BY <2>3, RowsAlone DEF SaveTimesOut, SettleLock
  <2> QED
    BY <1>4, <2>1, <2>2, <2>3 DEF Hold
<1>5. ASSUME NEW r \in Run, BeatStage(r) \/ Beat(r)
      PROVE  Kinds
  BY <1>5, RowsAlone
  DEF Beat, BeatStage, BeatRun, BeatAborted, PipelineAborted, RecoveryAborted
<1>6. ASSUME NEW r \in Run,
             StatementTimeout(r) \/ Interrupt(r) \/ DeadlinePasses(r) \/ RecoverLock(r)
             \/ RecoverCommit(r)
      PROVE  Kinds
  <2>1. CASE RecoverCommit(r)
    BY <2>1, StopKind DEF Kinds
  <2>2. CASE StatementTimeout(r) \/ Interrupt(r) \/ DeadlinePasses(r) \/ RecoverLock(r)
    BY <2>2, RowsAlone DEF StatementTimeout, Interrupt, DeadlinePasses, RecoverLock
  <2> QED
    BY <1>6, <2>1, <2>2
<1>7. CASE OwnerActs \/ EditInputs
  BY <1>7, EditKind
<1> QED
  BY <1>1, <1>2, <1>3, <1>4, <1>5, <1>6, <1>7 DEF Next, OwnerActs

-----------------------------------------------------------------------------
(* Accounts.                                                               *)

\* At the start nothing is charged and nothing on offer.
LEMMA InitAccounts == Init => Accounts
BY GenerationAssumption
DEF Init, Accounts, Account, OneDelivers, PaidFor, Pending, Unspent, Running, NewRun

\* Settled runs stay settled in a step that leaves the accounts alone.
LEMMA QuietAccounts == ASSUME Guarded, Accounts, Quiet \/ Edited PROVE Accounts'
<1>1. \A s \in Run : SameAccount(s)
  BY DEF Quiet, Edited
<1>2. stage'.resume = stage.resume \/ stage'.resume = NoRun
  BY DEF Quiet, Edited, SameStage
<1>3. ASSUME NEW r \in Run
      PROVE  Account(r)'
  <2>1. Account(r) /\ SameAccount(r)
    BY <1>1 DEF Accounts
  <2>2. Unspent(r) => Unspent(r)'
    BY <1>1 DEF SameAccount, Unspent
  <2>3. PaidFor(r)'
    BY <1>1, <2>1 DEF SameAccount, PaidFor, Account
  <2>4. stage'.resume = r => stage.resume = r
    BY <1>2, GenerationAssumption
  <2> QED
    BY <2>1, <2>2, <2>3, <2>4 DEF Account, SameAccount, Pending, Running
<1>4. OneDelivers'
  BY <1>1 DEF Accounts, OneDelivers, SameAccount
<1> QED
  BY <1>3, <1>4 DEF Accounts

\* Nobody else is paid for by a run that is not settled.
LEMMA OwnPayer ==
    ASSUME Accounts, NEW p \in Run, run[p].status \notin Terminal, NEW s \in Run, s # p
    PROVE  run[s].payer # p
BY DEF Accounts, Account, PaidFor

\* A new run: its charge is its own, or that of the offer it takes up.
LEMMA CreatesAccounts == ASSUME Guarded, Accounts, NEW r \in Run, Creates(r) PROVE Accounts'
<1>1. /\ \A s \in Run : s # r => SameAccount(s)
      /\ run[r].status = "none" /\ run[r].status \notin Terminal
      /\ stage'.resume = stage.resume
      /\ run'[r].status = "running" /\ run'[r].status \notin Terminal
      /\ ~run'[r].refunded /\ ~run'[r].delivered
  BY DEF Creates, SameStage, Terminal
<1>2. \A s \in Run : s # r => run[s].payer # r
  BY <1>1, OwnPayer
<1>3. stage.resume # r
  BY <1>1 DEF Accounts, Account
<1>4. NoRun \notin Run
  BY GenerationAssumption
<1>5. /\ run'[r].charged => run'[r].payer = r
      /\ \/ run'[r].payer \in {r, NoRun}
         \/ \E s \in Run : /\ s # r /\ stage.resume = s
                            /\ run'[r].payer = run[s].payer
                            /\ run'[r].inputs = run[s].inputs
  BY <1>3 DEF Creates, ResumeOffered
<1>6. PaidFor(r)' /\ Unspent(r)'
  <2>1. CASE run'[r].payer \in {r, NoRun}
    BY <1>1, <1>2, <1>4, <2>1 DEF PaidFor, Unspent, SameAccount
  <2>2. ASSUME NEW s \in Run, s # r, stage.resume = s, run'[r].payer = run[s].payer,
               run'[r].inputs = run[s].inputs
        PROVE  PaidFor(r)' /\ Unspent(r)'
    <3>1. Unspent(s) /\ run[s].status \in Terminal /\ PaidFor(s)
      BY <2>2 DEF Accounts, Account, Pending
    <3>2. run[s].payer \in Run =>
            /\ run[run[s].payer].status \in Terminal
            /\ ~run[run[s].payer].refunded
            /\ run[run[s].payer].inputs = run[s].inputs
            /\ run[s].payer # r
      BY <1>1, <3>1 DEF Unspent, PaidFor
    <3> QED
      BY <1>1, <2>2, <3>1, <3>2 DEF PaidFor, Unspent, SameAccount
  <2> QED
    BY <1>5, <2>1, <2>2
<1>7. ASSUME NEW s \in Run, s # r
      PROVE  Account(s)'
  <2>1. Account(s) /\ SameAccount(s) /\ run[s].payer # r
    BY <1>1, <1>2, <1>7 DEF Accounts
  <2>2. PaidFor(s)'
    BY <1>1, <2>1 DEF SameAccount, PaidFor, Account
  <2>3. Unspent(s) => Unspent(s)'
    BY <1>1, <2>1 DEF SameAccount, Unspent
  <2> QED
    BY <1>1, <2>1, <2>2, <2>3 DEF Account, SameAccount, Pending, Running
<1>8. Account(r)'
  BY <1>1, <1>3, <1>5, <1>6 DEF Account
<1>9. OneDelivers'
  BY <1>1 DEF Accounts, OneDelivers, SameAccount
<1> QED
  BY <1>7, <1>8, <1>9 DEF Accounts

\* The only run at work delivers; nobody delivered on its charge before, and nobody is
\* left who could.
LEMMA DeliversAccounts ==
    ASSUME Guarded, Accounts, NEW r \in Run, Delivers(r)
    PROVE  Accounts'
<1>1. /\ \A s \in Run : s # r => SameAccount(s) /\ ~Running(s)
      /\ run[r].status \notin Terminal /\ run'[r].status \in Terminal
      /\ ~Running(r)'
      /\ run'[r].charged = run[r].charged
      /\ run'[r].refunded = run[r].refunded
      /\ run'[r].payer = run[r].payer /\ run'[r].inputs = run[r].inputs
      /\ stage'.resume = NoRun
  BY DEF Delivers, Running, Terminal
<1>2. \A s \in Run : s # r => run[s].payer # r
  BY <1>1, OwnPayer
<1>3. Unspent(r) /\ ~run[r].refunded
  BY <1>1 DEF Accounts, Account, Pending, Delivers
<1>4. NoRun \notin Run
  BY GenerationAssumption
<1>5. \A s \in Run : ~Pending(s)'
  BY <1>1, <1>4 DEF Pending, Running, SameAccount
<1>6. ASSUME NEW s \in Run
      PROVE  Account(s)'
  <2>1. Account(s)
    BY DEF Accounts
  <2>2. PaidFor(s)'
    BY <1>1, <2>1 DEF SameAccount, PaidFor, Account
  <2> QED
    BY <1>1, <1>3, <1>4, <1>5, <2>1, <2>2 DEF Account, SameAccount
<1>7. OneDelivers'
  BY <1>1, <1>3 DEF Accounts, OneDelivers, SameAccount, Unspent
<1> QED
  BY <1>6, <1>7 DEF Accounts

\* The only run at work stops: its charge is given back, or stays with the sections it
\* offers, and a refunded charge has paid for nobody else.
LEMMA StopsAccounts ==
    ASSUME Guarded, Accounts, NEW r \in Run, NEW kept \in SUBSET Part,
           NEW combined \in BOOLEAN, Stops(r, kept, combined)
    PROVE  Accounts'
<1>1. /\ \A s \in Run : s # r => SameAccount(s) /\ ~Running(s)
      /\ run[r].status \notin Terminal /\ run'[r].status \in Terminal
      /\ ~Running(r)'
      /\ run'[r].charged = run[r].charged
      /\ run'[r].payer = run[r].payer /\ run'[r].inputs = run[r].inputs
      /\ run'[r].delivered = run[r].delivered
      /\ run'[r].refunded <=> run[r].charged /\ ~Resumable(r, kept)
  BY DEF Stops, Running, Terminal, Refunded
<1>2. \A s \in Run : s # r => run[s].payer # r
  BY <1>1, OwnPayer
<1>3. Account(r) /\ Unspent(r) /\ ~run[r].delivered
  BY <1>1 DEF Accounts, Account, Pending, Stops, Guarded, DeliveredSettled
<1>4. NoRun \notin Run
  BY GenerationAssumption
<1>5. \A s \in Run : stage'.resume = s =>
        \/ s = r /\ Resumable(r, kept)
        \/ s # r /\ stage.resume = s
  BY <1>1, <1>4 DEF Stops, SameStage, Accounts, Account
<1>6. \A s \in Run : ~Running(s)'
  BY <1>1 DEF Running, SameAccount
<1>7. stage'.resume = r => Unspent(r)'
  <2>1. ASSUME stage'.resume = r
        PROVE  ~run'[r].refunded
    BY <1>1, <1>5, <2>1
  <2> QED
    BY <1>1, <1>3, <2>1 DEF Unspent, SameAccount
<1>8. ASSUME NEW s \in Run, s # r
      PROVE  Account(s)'
  <2>1. Account(s) /\ SameAccount(s) /\ run[s].payer # r
    BY <1>1, <1>2, <1>8 DEF Accounts
  <2>2. PaidFor(s)'
    BY <1>1, <2>1 DEF SameAccount, PaidFor, Account
  <2>3. Unspent(s) => Unspent(s)'
    BY <1>1, <2>1 DEF SameAccount, Unspent
  <2> QED
    BY <1>5, <1>6, <1>8, <2>1, <2>2, <2>3 DEF Account, SameAccount, Pending
<1>9. Account(r)'
  <2>1. PaidFor(r)'
    BY <1>1, <1>3 DEF SameAccount, PaidFor, Account
  <2> QED
    BY <1>1, <1>3, <1>6, <1>7, <2>1 DEF Account, Pending
<1>10. OneDelivers'
  BY <1>1, <1>3 DEF Accounts, OneDelivers, SameAccount
<1> QED
  BY <1>8, <1>9, <1>10 DEF Accounts

\* Every kind of step keeps the accounts.
LEMMA StepAccounts == ASSUME Guarded, Accounts, Kinds PROVE Accounts'
BY QuietAccounts, CreatesAccounts, DeliversAccounts, StopsAccounts DEF Kinds

\* A charge that was given back has delivered nothing, and at most one run delivers.
LEMMA AccountsSettle == ASSUME Guarded, Accounts PROVE ChargeBuysOnce
<1> SUFFICES ASSUME NEW p \in Run, run[p].charged
             PROVE  Cardinality(Delivered(p)) + (IF run[p].refunded THEN 1 ELSE 0) <= 1
  BY DEF ChargeBuysOnce
<1>1. \A r, s \in Delivered(p) : r = s
  BY DEF Accounts, OneDelivers, Delivered
<1>2. Delivered(p) = {} \/ \E r \in Run : Delivered(p) = {r}
  <2>1. ASSUME NEW r \in Delivered(p)
        PROVE  r \in Run /\ Delivered(p) = {r}
    BY <1>1 DEF Delivered
  <2> QED
    BY <2>1
<1>3. Cardinality(Delivered(p)) \in {0, 1} /\ (Delivered(p) = {} => Cardinality(Delivered(p)) = 0)
  BY <1>2, FS_EmptySet, FS_Singleton
<1>4. run[p].refunded => Delivered(p) = {}
  <2>1. SUFFICES ASSUME run[p].refunded, NEW r \in Delivered(p)
                 PROVE  FALSE
    OBVIOUS
  <2>2. r \in Run /\ run[r].payer = p /\ run[r].delivered
    BY DEF Delivered
  <2>3. r = p
    BY <2>1, <2>2 DEF Accounts, Account, PaidFor
  <2> QED
    BY <2>1, <2>2, <2>3 DEF Accounts, Account
<1> QED
  BY <1>3, <1>4

-----------------------------------------------------------------------------
(* Redeemable.                                                             *)

\* At the start nothing is charged, and every version is 0.
LEMMA InitRedeemable == Init => Redeemable
BY GenerationAssumption
DEF Init, Redeemable, Resumed, Redeemed, Resumer, Running, NewRun

\* No owner comes back once it is over.
LEMMA StepStaysOver == Guarded /\ Banked /\ [Next]_vars => StaysOver
<1> SUFFICES ASSUME Guarded, Banked, [Next]_vars, NEW s \in Run, Over(s)
             PROVE  Over(s)'
  BY DEF StaysOver
<1>1. /\ ctl \in [Run -> Control]
      /\ ctl[s].at \in {"done", "dead", "lost"}
      /\ run[s].status # "none"
  BY DEF Guarded, TypeOK, Banked, Unused, Over
<1>2. ctl' = ctl => Over(s)'
  BY DEF Over
<1>3. ASSUME NEW r \in Run, r # s, ctl' = [ctl EXCEPT ![r] = ctl'[r]]
      PROVE  Over(s)'
  BY <1>1, <1>3 DEF Over
<1>4. ASSUME NEW r \in Run, NEW where, Go(r, where) \/ End(r, where), r # s
      PROVE  Over(s)'
  BY <1>1, <1>4 DEF Over, Go, End
<1>5. ASSUME NEW r \in Run, NEW where, NEW t, NEW d, NEW p, GoSettle(r, where, t, d, p), r # s
      PROVE  Over(s)'
  BY <1>1, <1>3, <1>5, GoSettleBy DEF Guarded
<1>6. ASSUME NEW r \in Run, Request(r)
      PROVE  Over(s)'
  <2>1. CASE Generate(r) \/ Resume(r) \/ GenerateCached(r)
    <3>1. r # s
      BY <1>1, <2>1 DEF Generate, Resume, GenerateCached, Created
    <3> QED
      BY <1>4, <2>1, <3>1 DEF Generate, Resume, GenerateCached
  <2>2. CASE Enqueue(r)
    BY <1>1, <2>2 DEF Enqueue, At, Over
  <2>3. CASE QueueUnavailable(r) \/ ReplayCached(r)
    <3>1. r # s
      BY <1>1, <2>3 DEF QueueUnavailable, ReplayCached, At
    <3> QED
      BY <1>5, <2>3, <3>1 DEF QueueUnavailable, ReplayCached
  <2>4. CASE Cancel(r)
    BY <1>2, <2>4 DEF Cancel
  <2> QED
    BY <1>6, <2>1, <2>2, <2>3, <2>4 DEF Request
<1>7. ASSUME NEW r \in Run, Work(r)
      PROVE  Over(s)'
  <2>1. CASE Deliver(r) \/ Prepare(r) \/ Drafted(r) \/ \E c \in Part : Checkpoint(r, c)
    BY <1>1, <1>4, <2>1 DEF Deliver, Prepare, Drafted, Checkpoint, At, Over
  <2>2. CASE PrepareStops(r) \/ DraftStops(r) \/ Validate(r)
    <3>1. r # s
      BY <1>1, <2>2 DEF PrepareStops, DraftStops, Validate, At
    <3> QED
      BY <1>5, <2>2, <3>1 DEF PrepareStops, DraftStops, Validate
  <2>3. CASE SaveLock(r) \/ SaveRefused(r)
    <3>1. r # s
      BY <1>1, <2>3 DEF SaveLock, SaveRefused, At
    <3> QED
      BY <1>4, <1>5, <2>3, <3>1 DEF SaveLock, SaveRefused
  <2> QED
    BY <1>7, <2>1, <2>2, <2>3 DEF Work
<1>8. ASSUME NEW r \in Run,
             Hold(r) \/ StatementTimeout(r) \/ PipelineAborted(r) \/ Interrupt(r)
      PROVE  Over(s)'
  <2>1. r # s
    BY <1>1, <1>8 DEF Hold, SaveCommit, SaveTimesOut, SettleLock, SettleCommit,
                      StatementTimeout, PipelineAborted, LockCycle, Interrupt, At
  <2>2. CASE Hold(r)
    BY <1>4, <1>5, <2>1, <2>2 DEF Hold, SaveCommit, SaveTimesOut, SettleLock, SettleCommit
  <2>3. CASE StatementTimeout(r) \/ PipelineAborted(r)
    BY <1>4, <1>5, <2>1, <2>3 DEF StatementTimeout, PipelineAborted
  <2>4. CASE Interrupt(r)
    BY <1>1, <1>4, <2>1, <2>4 DEF Interrupt, Over
  <2> QED
    BY <1>8, <2>2, <2>3, <2>4
<1>9. ASSUME NEW r \in Run,
             BeatStage(r) \/ BeatRun(r) \/ BeatAborted(r) \/ RecoveryAborted(r)
             \/ DeadlinePasses(r) \/ RecoverLock(r) \/ RecoverCommit(r)
      PROVE  Over(s)'
  BY <1>2, <1>9 DEF BeatStage, BeatRun, BeatAborted, RecoveryAborted, DeadlinePasses,
                    RecoverLock, RecoverCommit
<1>10. CASE OwnerActs \/ EditInputs \/ UNCHANGED vars
  BY <1>2, <1>10 DEF OwnerActs, Owner, EditStage, Rollback, Finalise, EditInputs, vars
<1> QED
  BY <1>6, <1>7, <1>8, <1>9, <1>10 DEF Next, Beat, OwnerActs

\* What a step that moves no account of p leaves of its redemption.
LEMMA StillRedeemed ==
    ASSUME Guarded, Redeemable, StaysOver, NEW p \in Run,
           run'[p].charged = run[p].charged, run'[p].refunded = run[p].refunded,
           \A s \in Run : (run'[s].payer = p <=> run[s].payer = p),
           \A s \in Run : run[s].payer = p =>
               /\ run'[s].status = run[s].status
               /\ run'[s].seed = run[s].seed
               /\ run'[s].saved = run[s].saved
               /\ run'[s].version = run[s].version
               /\ Over(s) => chunks'[s] = chunks[s],
           \/ SameStage
           \/ stage'.version = stage.version + 1
           \/ stage'.gateVersion # stage'.version
    PROVE  Redeemed(p)'
<1> SUFFICES ASSUME run'[p].charged, ~run'[p].refunded,
                    \A r \in Run : run'[r].payer = p => ~Running(r)'
             PROVE  (\/ \E r \in Run : run[r].payer = p /\ run[r].saved = Part
                     \/ \E s \in Run : stage.resume = s /\ run[s].payer = p
                     \/ \A r \in Run : run[r].payer = p => run[r].version < stage.version
                     \/ stage.gateVersion # stage.version
                     \/ \E r \in Run : run[r].payer = p /\ LostSeeds(r))'
  BY DEF Redeemed
<1>1. stage \in [status : {"draft", "stale", "in_progress", "finalised"}, version : Nat,
                 gateVersion : Nat, resume : Run \cup {NoRun}]
      /\ run \in [Run -> RunRow]
  BY DEF Guarded, TypeOK
<1>2. CASE stage'.version = stage.version + 1
  <2>1. \A r \in Run : run[r].version \in Nat /\ run[r].version <= stage.version
    BY <1>1 DEF Redeemable, Resumed, RunRow
  <2>2. stage.version \in Nat
    BY <1>1
  <2>3. \A r \in Run : run'[r].payer = p => run'[r].version < stage'.version
    BY <1>2, <2>1, <2>2
  <2> QED
    BY <2>3
<1>3. CASE SameStage
  <2>1. \A r \in Run : run[r].payer = p => ~Running(r)
    BY DEF Running
  <2>2. \/ \E r \in Run : run[r].payer = p /\ run[r].saved = Part
        \/ \E s \in Run : stage.resume = s /\ run[s].payer = p
        \/ \A r \in Run : run[r].payer = p => run[r].version < stage.version
        \/ stage.gateVersion # stage.version
        \/ \E r \in Run : run[r].payer = p /\ LostSeeds(r)
    BY <2>1 DEF Redeemable, Redeemed
  <2>3. \A r \in Run : run[r].payer = p /\ LostSeeds(r) => LostSeeds(r)'
    BY DEF LostSeeds, StaysOver
  <2> QED
    BY <1>3, <2>2, <2>3 DEF SameStage
<1> QED
  BY <1>2, <1>3

\* Quiet steps and edits.
LEMMA QuietRedeems ==
    ASSUME Guarded, Accounts, Redeemable, StaysOver, Quiet \/ Edited
    PROVE  Redeemable'
<1>1. stage \in [status : {"draft", "stale", "in_progress", "finalised"}, version : Nat,
                 gateVersion : Nat, resume : Run \cup {NoRun}]
      /\ run \in [Run -> RunRow]
  BY DEF Guarded, TypeOK
<1>2. \A s \in Run : SameAccount(s) /\ chunks[s] \subseteq chunks'[s]
                     /\ (Over(s) => chunks'[s] = chunks[s])
  BY DEF Quiet, Edited
<1>3. ASSUME NEW p \in Run
      PROVE  Redeemed(p)'
  <2>1. \/ SameStage
        \/ stage'.version = stage.version + 1
        \/ stage'.gateVersion # stage'.version
    BY DEF Quiet, Edited
  <2> QED
    BY <1>2, <2>1, StillRedeemed DEF SameAccount
<1>4. ASSUME NEW r \in Run
      PROVE  Resumed(r)'
  <2>1. Resumed(r) /\ SameAccount(r)
    BY <1>2 DEF Redeemable
  <2>2. run'[r].version <= stage'.version
    <3>1. run[r].version \in Nat /\ stage.version \in Nat
      BY <1>1 DEF RunRow
    <3>2. stage'.version \in {stage.version, stage.version + 1}
      BY DEF Quiet, Edited, SameStage
    <3>3. run'[r].version = run[r].version /\ run[r].version <= stage.version
      BY <2>1 DEF Resumed, SameAccount
    <3> QED
      BY <3>1, <3>2, <3>3
  <2>3. CASE Quiet
    <3>1. stage'.resume = r => ResumeOffered(r)'
      BY <1>2, <2>1, <2>3 DEF Quiet, SameStage, Resumed, ResumeOffered
    <3> QED
      BY <1>2, <2>1, <2>2, <2>3, <3>1
      DEF Quiet, SameStage, SameAccount, Resumed, Resumer, Running
  <2>4. CASE Edited
    <3>1. \A s \in Run : stage'.resume # s
      BY <2>4, GenerationAssumption DEF Edited
    <3>2. ~Running(r)'
      BY <1>2, <2>4 DEF Edited, SameAccount, Running
    <3> QED
      BY <1>2, <2>1, <2>2, <3>1, <3>2 DEF SameAccount, Resumed, Resumer
  <2> QED
    BY <2>3, <2>4
<1> QED
  BY <1>3, <1>4 DEF Redeemable

\* A run at work holds its charge, so nothing is promised of it; the offer it takes up
\* stays on the stage while it runs.
LEMMA CreatesRedeems ==
    ASSUME Guarded, Banked, Accounts, Redeemable, StaysOver, NEW r \in Run, Creates(r)
    PROVE  Redeemable'
<1>1. /\ \A s \in Run : s # r => SameAccount(s)
      /\ run[r].status = "none" /\ run[r].status \notin Terminal
      /\ Running(r)'
      /\ run'[r].version = 0
      /\ stage'.version = stage.version /\ stage'.gateVersion = stage.gateVersion
      /\ stage'.resume = stage.resume /\ SameStage
      /\ chunks' = chunks
      /\ run[r].payer = NoRun
  BY DEF Creates, SameStage, Terminal, Running
<1>2. NoRun \notin Run
  BY GenerationAssumption
<1>3. stage.resume # r
  BY <1>1 DEF Accounts, Account
<1>4. stage \in [status : {"draft", "stale", "in_progress", "finalised"}, version : Nat,
                 gateVersion : Nat, resume : Run \cup {NoRun}]
  BY DEF Guarded, TypeOK
<1>5. ASSUME NEW p \in Run
      PROVE  Redeemed(p)'
  <2>1. CASE run'[r].payer = p
    BY <1>1, <2>1 DEF Redeemed
  <2>2. CASE run'[r].payer # p /\ p # r
    <3>1. \A s \in Run : (run'[s].payer = p <=> run[s].payer = p)
      BY <1>1, <1>2, <2>2 DEF SameAccount
    <3>2. \A s \in Run : run[s].payer = p => s # r
      BY <1>1, <1>2
    <3> QED
      BY <1>1, <2>2, <3>1, <3>2, StillRedeemed DEF SameAccount
  <2>3. CASE run'[r].payer # p /\ p = r
    <3>1. ~run'[r].charged
      BY <2>3 DEF Creates
    <3> QED
      BY <2>3, <3>1 DEF Redeemed
  <2> QED
    BY <2>1, <2>2, <2>3
<1>6. ASSUME NEW s \in Run, s # r
      PROVE  Resumed(s)'
  <2>1. Resumed(s) /\ SameAccount(s) /\ ~Running(s)
    BY <1>1, <1>6 DEF Redeemable, Creates
  <2>2. ~Running(s)' /\ (Resumer(s)' <=> Resumer(s))
    BY <2>1 DEF Running, SameAccount, Resumer
  <2>3. stage'.resume = s => ResumeOffered(s)'
    BY <1>1, <2>1 DEF Resumed, ResumeOffered
  <2> QED
    BY <1>1, <2>1, <2>2, <2>3 DEF Resumed, SameAccount
<1>7. Resumed(r)'
  <2>1. run'[r].version <= stage'.version
    BY <1>1, <1>4
  <2>2. CASE run'[r].payer \in {r, NoRun}
    BY <1>1, <1>2, <1>3, <2>1, <2>2 DEF Resumed, Resumer
  <2>3. ASSUME NEW s \in Run, ResumeOffered(s), run'[r].payer = run[s].payer,
               run'[r].seed = chunks[s], run'[r].prompt = run[s].prompt
        PROVE  Resumed(r)'
    <3>1. stage.resume = s /\ chunks[s] # {} /\ s # r
      BY <1>3, <2>3 DEF ResumeOffered
    <3>2. run[s].prompt
      BY <3>1 DEF Redeemable, Resumed
    <3>3. run'[s].payer = run[s].payer
      BY <1>1, <3>1 DEF SameAccount
    <3> QED
      BY <1>1, <1>3, <2>1, <2>3, <3>1, <3>2, <3>3 DEF Resumed
  <2> QED
    BY <2>2, <2>3 DEF Creates
<1> QED
  BY <1>5, <1>6, <1>7 DEF Redeemable

\* A delivered charge has left every section; for the others the stage has moved on.
LEMMA DeliversRedeems ==
    ASSUME Guarded, Accounts, Redeemable, StaysOver, NEW r \in Run, Delivers(r)
    PROVE  Redeemable'
<1>1. /\ \A s \in Run : s # r => SameAccount(s) /\ ~Running(s)
      /\ run'[r].status \in Terminal
      /\ run'[r].charged = run[r].charged /\ run'[r].refunded = run[r].refunded
      /\ run'[r].payer = run[r].payer /\ run'[r].seed = run[r].seed
      /\ run'[r].saved = Part /\ run'[r].version = stage.version + 1
      /\ stage'.version = stage.version + 1
      /\ stage'.resume = NoRun
      /\ chunks' = chunks
  BY DEF Delivers
<1>2. NoRun \notin Run
  BY GenerationAssumption
<1>3. stage \in [status : {"draft", "stale", "in_progress", "finalised"}, version : Nat,
                 gateVersion : Nat, resume : Run \cup {NoRun}]
      /\ run \in [Run -> RunRow]
  BY DEF Guarded, TypeOK
<1>4. \A s \in Run : ~Running(s)'
  BY <1>1 DEF Running, SameAccount, Terminal
<1>5. ASSUME NEW p \in Run
      PROVE  Redeemed(p)'
  <2>1. CASE run[r].payer = p
    BY <1>1, <2>1 DEF Redeemed
  <2>2. CASE run[r].payer # p
    <3>1. \A s \in Run : (run'[s].payer = p <=> run[s].payer = p)
      BY <1>1 DEF SameAccount
    <3>2. run'[p].charged = run[p].charged /\ run'[p].refunded = run[p].refunded
      BY <1>1 DEF SameAccount
    <3>3. \A s \in Run : run[s].payer = p => SameAccount(s) /\ chunks'[s] = chunks[s]
      BY <1>1, <2>2
    <3> QED
      BY <1>1, <3>1, <3>2, <3>3, StillRedeemed DEF SameAccount
  <2> QED
    BY <2>1, <2>2
<1>6. ASSUME NEW s \in Run
      PROVE  Resumed(s)'
  <2>1. Resumed(s) /\ ~Running(s)' /\ stage'.resume # s
    BY <1>1, <1>2, <1>4 DEF Redeemable
  <2>2. run'[s].version <= stage'.version
    <3>1. run[s].version \in Nat /\ stage.version \in Nat /\ run[s].version <= stage.version
      BY <1>3, <2>1 DEF RunRow, Resumed
    <3>2. run'[s].version \in {run[s].version, stage.version + 1}
      BY <1>1 DEF SameAccount
    <3> QED
      BY <1>1, <3>1, <3>2
  <2>3. Resumer(s)' => Resumer(s) /\ run'[s].seed = run[s].seed
    BY <1>1 DEF SameAccount, Resumer
  <2> QED
    BY <2>1, <2>2, <2>3 DEF Resumed
<1> QED
  BY <1>5, <1>6 DEF Redeemable

\* A run that stops and keeps its charge has its sections on offer; a resume that stops
\* leaves the older offer, or its own, or the whole artifact, or is over.
LEMMA StopsRedeems ==
    ASSUME Guarded, Accounts, Redeemable, StaysOver, NEW r \in Run,
           NEW kept \in SUBSET Part, NEW combined \in BOOLEAN, Stops(r, kept, combined)
    PROVE  Redeemable'
<1>1. /\ \A s \in Run : s # r => SameAccount(s) /\ ~Running(s) /\ chunks'[s] = chunks[s]
      /\ run'[r].status \in Terminal
      /\ run'[r].charged = run[r].charged /\ run'[r].payer = run[r].payer
      /\ run'[r].seed = run[r].seed /\ run'[r].prompt = run[r].prompt
      /\ run'[r].refunded <=> run[r].charged /\ ~Resumable(r, kept)
      /\ run'[r].saved = kept /\ chunks'[r] = kept
      /\ kept # {} => combined
      /\ combined /\ kept = {} => Over(r)'
  BY DEF Stops, Refunded
<1>2. /\ combined => /\ run'[r].version = stage.version + 1
                     /\ stage'.version = stage.version + 1
                     /\ stage'.gateVersion = stage.version + 1
                     /\ stage'.resume = IF Resumable(r, kept) THEN r ELSE NoRun
      /\ ~combined => /\ run'[r].version = 0
                      /\ stage'.version = stage.version
                      /\ stage'.gateVersion = stage.gateVersion
                      /\ stage'.resume = stage.resume
                      /\ SameStage
  BY DEF Stops, SameStage
<1>3. NoRun \notin Run
  BY GenerationAssumption
<1>4. stage \in [status : {"draft", "stale", "in_progress", "finalised"}, version : Nat,
                 gateVersion : Nat, resume : Run \cup {NoRun}]
      /\ run \in [Run -> RunRow]
  BY DEF Guarded, TypeOK
<1>5. /\ Running(r) /\ Account(r) /\ Resumed(r)
      /\ run[r].status \notin Terminal
      /\ stage.resume # r
  BY DEF Stops, Accounts, Account, Redeemable, Running, Terminal
<1>6. \A s \in Run : ~Running(s)'
  BY <1>1 DEF Running, SameAccount, Terminal
<1>7. ASSUME NEW p \in Run
      PROVE  Redeemed(p)'
  <2>1. CASE run[r].payer # p
    <3>1. p # r \/ ~run[p].charged
      BY <1>5, <2>1 DEF Account
    <3>2. \A s \in Run : (run'[s].payer = p <=> run[s].payer = p)
      BY <1>1 DEF SameAccount
    <3>3. \A s \in Run : run[s].payer = p => SameAccount(s) /\ chunks'[s] = chunks[s]
      BY <1>1, <2>1
    <3>4. CASE p # r
      <4>1. run'[p].charged = run[p].charged /\ run'[p].refunded = run[p].refunded
        BY <1>1, <3>4 DEF SameAccount
      <4> QED
        BY <1>2, <3>2, <3>3, <4>1, StillRedeemed DEF SameAccount
    <3>5. CASE ~run[p].charged /\ p = r
      BY <1>1, <3>5 DEF Redeemed
    <3> QED
      BY <3>1, <3>4, <3>5
  <2>2. CASE run[r].payer = p /\ p = r
    <3>1. CASE Resumable(r, kept)
      <4>1. combined
        BY <1>1, <3>1 DEF Resumable
      <4> QED
        BY <1>1, <1>2, <2>2, <3>1, <4>1 DEF Redeemed
    <3>2. CASE ~Resumable(r, kept)
      BY <1>1, <2>2, <3>2 DEF Redeemed
    <3> QED
      BY <3>1, <3>2
  <2>3. CASE run[r].payer = p /\ p # r
    <3>1. /\ run[r].seed # {}
          /\ run[r].prompt
          /\ \E s \in Run : stage.resume = s /\ run[s].payer = p
      BY <1>5, <2>3 DEF Resumed, Resumer
    <3>2. CASE ~combined
      <4>1. PICK s \in Run : stage.resume = s /\ run[s].payer = p
        BY <3>1
      <4>2. run'[s].payer = p /\ stage'.resume = s
        BY <1>1, <1>2, <1>5, <3>2, <4>1 DEF SameAccount
      <4> QED
        BY <4>2 DEF Redeemed
    <3>3. CASE combined /\ Resumable(r, kept)
      BY <1>1, <1>2, <2>3, <3>3 DEF Redeemed
    <3>4. CASE combined /\ kept = Part
      BY <1>1, <2>3, <3>4 DEF Redeemed
    <3>5. CASE combined /\ kept = {}
      <4>1. LostSeeds(r)'
        <5>1. run'[r].version # 0
          BY <1>2, <1>4, <3>5
        <5> QED
          BY <1>1, <3>1, <3>5, <5>1 DEF LostSeeds
      <4> QED
        BY <1>1, <2>3, <4>1 DEF Redeemed
    <3> QED
      BY <3>1, <3>2, <3>3, <3>4, <3>5 DEF Resumable
  <2> QED
    BY <2>1, <2>2, <2>3
<1>8. ASSUME NEW s \in Run
      PROVE  Resumed(s)'
  <2>1. Resumed(s) /\ ~Running(s)'
    BY <1>6 DEF Redeemable
  <2>2. run'[s].version <= stage'.version
    <3>1. run[s].version \in Nat /\ stage.version \in Nat /\ run[s].version <= stage.version
      BY <1>4, <2>1 DEF RunRow, Resumed
    <3>2. CASE combined
      BY <1>1, <1>2, <3>1, <3>2 DEF SameAccount
    <3>3. CASE ~combined
      BY <1>1, <1>2, <3>1, <3>3 DEF SameAccount
    <3> QED
      BY <3>2, <3>3
  <2>3. Resumer(s)' => run'[s].seed # {}
    BY <1>1, <2>1 DEF SameAccount, Resumer, Resumed
  <2>4. stage'.resume = s => run'[s].prompt /\ ResumeOffered(s)'
    <3>1. CASE combined
      <4>1. stage'.resume = s => s = r /\ Resumable(r, kept)
        BY <1>2, <1>3, <3>1
      <4> QED
        BY <1>1, <1>2, <3>1, <4>1 DEF Resumable, ResumeOffered
    <3>2. CASE ~combined
      <4>1. stage'.resume = s => s # r /\ stage.resume = s
        BY <1>2, <1>5, <3>2
      <4> QED
        BY <1>1, <1>2, <2>1, <3>2, <4>1 DEF Resumed, ResumeOffered, SameAccount
    <3> QED
      BY <3>1, <3>2
  <2> QED
    BY <2>1, <2>2, <2>3, <2>4 DEF Resumed
<1> QED
  BY <1>7, <1>8 DEF Redeemable

\* Every kind of step keeps what the user can redeem.
LEMMA StepRedeems ==
    ASSUME Guarded, Banked, Accounts, Redeemable, StaysOver, Kinds
    PROVE  Redeemable'
BY QuietRedeems, CreatesRedeems, DeliversRedeems, StopsRedeems DEF Kinds

\* The way out of LostSeeds is the one KeptChargeRedeemable allows for.
LEMMA Redeems == ASSUME Guarded, Accounts, Redeemable PROVE KeptChargeRedeemable
<1> SUFFICES ASSUME NEW p \in Run, run[p].charged, ~run[p].refunded,
                    \A r \in Run : run[r].payer = p => ~Running(r) /\ Rebanked(r)
             PROVE  \/ \E r \in Run : run[r].payer = p /\ run[r].saved = Part
                    \/ Offered(p)
                    \/ Withdrawn(p)
  BY DEF KeptChargeRedeemable
<1>1. ~ \E r \in Run : run[r].payer = p /\ LostSeeds(r)
  BY DEF LostSeeds, Rebanked
<1>2. ASSUME NEW s \in Run, stage.resume = s, run[s].payer = p
      PROVE  Offered(p) \/ Withdrawn(p)
  <2>1. ResumeOffered(s) /\ run[s].prompt
    BY <1>2 DEF Redeemable, Resumed
  <2>2. run[s].inputs = run[p].inputs
    BY <1>2 DEF Accounts, Account, PaidFor
  <2> QED
    BY <1>2, <2>1, <2>2 DEF Offered, Withdrawn
<1> QED
  BY <1>1, <1>2 DEF Redeemable, Redeemed, Withdrawn

-----------------------------------------------------------------------------
(* The theorems.                                                           *)

\* The four invariants hold together.
THEOREM AlwaysCharged == Spec => []ChargeInv
<1>1. Init => ChargeInv
  BY InitGuarded, InitBanked, InitAccounts, InitRedeemable DEF ChargeInv
<1>2. ChargeInv /\ [Next]_vars => ChargeInv'
  BY GuardedInductive, StepBanks, StepKinds, StepAccounts, StepStaysOver, StepRedeems
  DEF ChargeInv
<1> QED
  BY <1>1, <1>2, PTL DEF Spec

\* The save transaction never meets "generation_checkpoint_count_mismatch": the worker
\* that holds the run row of a complete draft finds every section counted.
THEOREM CountsNeverMismatch == Spec => []CountsMatch
<1>1. ChargeInv => CountsMatch
  BY DEF ChargeInv, Guarded, OwnerHolds, Settling, Banked, Counts, Complete, CountsMatch, At
<1> QED
  BY <1>1, AlwaysCharged, PTL

\* Along every chain of free resumes one charge delivers at most one artifact, and a
\* refunded charge none.
THEOREM OneArtifactPerCharge == Spec => []ChargeBuysOnce
<1>1. ChargeInv => ChargeBuysOnce
  BY AccountsSettle DEF ChargeInv
<1> QED
  BY <1>1, AlwaysCharged, PTL

\* A charge that was kept although its runs stopped has left every section, or an offer
\* that a free resume takes up, until the owner withdraws it with a newer version, an
\* unlock, the finalised stage or other inputs; or a resume lost its seeds.
THEOREM KeptChargeLeavesOffer == Spec => []KeptChargeRedeemable
<1>1. ChargeInv => KeptChargeRedeemable
  BY Redeems DEF ChargeInv
<1> QED
  BY <1>1, AlwaysCharged, PTL

=============================================================================
