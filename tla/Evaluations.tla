---------------------------- MODULE Evaluations ----------------------------
(***************************************************************************)
(* The evaluation of one stage version: the structural findings written     *)
(* with the version, the judge's score obtained in the process or through a *)
(* provider batch (services/evals/eval_batch.py), and revalidation by the   *)
(* owner.  Rows are found and created without a lock.                       *)
(***************************************************************************)
EXTENDS Integers, Sequences

CONSTANTS
    MaxHarness,     \* bound: versions of the harness the findings depend on
    MaxRevalidate,  \* bound: revalidations by the owner
    MaxFaults       \* bound: failing commits, queue outages and crashes

VARIABLES
    harness,        \* the harness version the current stage content meets
    rows,           \* the eval rows of the version, oldest first
    saved,          \* the version's structural findings were tried
    task,           \* the background evaluation in the API process
    owner,          \* revalidate-tasks
    batch,          \* the checkpointed batch row and what the provider has
    job,            \* the worker job of that row
    scores,         \* judge answers persisted
    unbilled,       \* batches that were paid for and forgotten
    faults, again,
    leftover        \* a failing step left the version without a row, or a row behind

vars == <<harness, rows, saved, task, owner, batch, job, scores, unbilled,
          faults, again, leftover>>

-----------------------------------------------------------------------------
NoRow == 0
Row(s, h) == [score |-> s, findings |-> h]
\* _get_or_create_eval: the newest row of the version, or none yet.
Latest == Len(rows)

\* Write what was read: the row found, or a new one.
Stored(i, r) == IF i = NoRow THEN Append(rows, r) ELSE [rows EXCEPT ![i] = r]

Fault == faults < MaxFaults /\ faults' = faults + 1

Init ==
    /\ harness = 1 /\ rows = <<>> /\ saved = "no"
    /\ task = [at |-> "none", row |-> NoRow, seen |-> 1]
    /\ owner = [at |-> "idle", row |-> NoRow, seen |-> 1]
    /\ batch = [at |-> "none", sent |-> 0, held |-> 0, seen |-> 1, old |-> FALSE]
    /\ job = [at |-> "none", row |-> NoRow]
    /\ scores = 0 /\ unbilled = 0 /\ faults = 0 /\ again = 0 /\ leftover = FALSE

-----------------------------------------------------------------------------
\* persist_structural_eval inside the save: findings without a score.
PersistStructural ==
    /\ saved = "no" /\ saved' = "yes"
    /\ rows' = Append(rows, Row(0, harness))
    /\ task' = [task EXCEPT !.at = "dispatch", !.seen = harness]
    /\ UNCHANGED <<harness, owner, batch, job, scores, unbilled, faults, again, leftover>>

\* Its failure is logged and the evaluation scheduled all the same.
StructuralFails ==
    /\ saved = "no" /\ saved' = "yes" /\ Fault
    /\ leftover' = TRUE
    /\ task' = [task EXCEPT !.at = "dispatch", !.seen = harness]
    /\ UNCHANGED <<harness, rows, owner, batch, job, scores, unbilled, again>>

\* _should_score_stage: sampled out.
SampledOut ==
    /\ task.at = "dispatch"
    /\ task' = [task EXCEPT !.at = "over"]
    /\ UNCHANGED <<harness, rows, saved, owner, batch, job, scores, unbilled,
                   faults, again, leftover>>

\* No batch adapter, or the checkpoint row could not be committed.
ScoreInline ==
    /\ task.at = "dispatch"
    /\ task' = [task EXCEPT !.at = "judge"]
    /\ UNCHANGED <<harness, rows, saved, owner, batch, job, scores, unbilled,
                   faults, again, leftover>>

Pending == [batch EXCEPT !.at = "pending", !.seen = task.seen]

\* enqueue_eval_batch: commit the row, then enqueue; a refused enqueue is left
\* to the sweep.
EnqueueBatch ==
    /\ task.at = "dispatch"
    /\ batch' = Pending
    /\ task' = [task EXCEPT !.at = "over"]
    /\ \/ job' = [job EXCEPT !.at = "submit"] /\ UNCHANGED faults
       \/ Fault /\ UNCHANGED job
    /\ UNCHANGED <<harness, rows, saved, owner, scores, unbilled, again, leftover>>

\* The refresh after that commit fails: the row stays, the caller scores too.
CommittedButFailed ==
    /\ task.at = "dispatch" /\ Fault
    /\ batch' = Pending
    /\ task' = [task EXCEPT !.at = "judge"]
    /\ leftover' = TRUE
    /\ UNCHANGED <<harness, rows, saved, owner, job, scores, unbilled, again>>

\* run_eval: two calls, two more after an answer that is no JSON.
JudgeFails ==
    /\ task.at = "judge"
    /\ task' = [task EXCEPT !.at = "over"]
    /\ UNCHANGED <<harness, rows, saved, owner, batch, job, scores, unbilled,
                   faults, again, leftover>>

Judge ==
    /\ task.at = "judge"
    /\ task' = [task EXCEPT !.at = "persist", !.row = Latest]
    /\ UNCHANGED <<harness, rows, saved, owner, batch, job, scores, unbilled, faults, again, leftover>>

\* _persist_eval_data: score and findings of the harness the task was given.
PersistScore ==
    /\ task.at = "persist"
    /\ rows' = Stored(task.row, Row(1, task.seen))
    /\ scores' = scores + 1
    /\ task' = [task EXCEPT !.at = "over"]
    /\ UNCHANGED <<harness, saved, owner, batch, job, unbilled, faults, again, leftover>>

-----------------------------------------------------------------------------
\* run_submit: a row that was submitted or is gone is left alone.
SubmitNothing ==
    /\ job.at = "submit" /\ batch.at # "pending"
    /\ job' = [job EXCEPT !.at = "none"]
    /\ UNCHANGED <<harness, rows, saved, task, owner, batch, scores, unbilled,
                   faults, again, leftover>>

\* submit_batch creates the billed batch ...
SubmitCall ==
    /\ job.at = "submit" /\ batch.at = "pending"
    /\ batch' = [batch EXCEPT !.sent = @ + 1]
    /\ job' = [job EXCEPT !.at = "sent"]
    /\ UNCHANGED <<harness, rows, saved, task, owner, scores, unbilled, faults, again, leftover>>

\* ... and its id is committed at once.
SubmitCommit ==
    /\ job.at = "sent"
    /\ batch' = [batch EXCEPT !.at = "submitted", !.held = @ + 1]
    /\ job' = [job EXCEPT !.at = "none"]
    /\ UNCHANGED <<harness, rows, saved, task, owner, scores, unbilled, faults, again, leftover>>

CollectNothing ==
    /\ job.at = "collect" /\ batch.at # "submitted"
    /\ job' = [job EXCEPT !.at = "none"]
    /\ UNCHANGED <<harness, rows, saved, task, owner, batch, scores, unbilled,
                   faults, again, leftover>>

\* Not ended and not too old: seen again by the next sweep.
NotEnded ==
    /\ job.at = "collect" /\ batch.at = "submitted" /\ ~ batch.old
    /\ job' = [job EXCEPT !.at = "none"]
    /\ UNCHANGED <<harness, rows, saved, task, owner, batch, scores, unbilled,
                   faults, again, leftover>>

\* Ended with an answer that parses: the cost event, then the row to write.
Fetch ==
    /\ job.at = "collect" /\ batch.at = "submitted"
    /\ job' = [job EXCEPT !.at = "write", !.row = Latest]
    /\ UNCHANGED <<harness, rows, saved, task, owner, batch, scores, unbilled,
                   faults, again, leftover>>

\* Errored, expired, unparseable or older than _BATCH_MAX_AGE: one score inline.
Fallback ==
    /\ job.at = "collect" /\ batch.at = "submitted"
    /\ \/ job' = [job EXCEPT !.at = "write", !.row = Latest]
       \/ job' = [job EXCEPT !.at = "delete"]
    /\ UNCHANGED <<harness, rows, saved, task, owner, batch, scores, unbilled, faults, again, leftover>>

CollectWrite ==
    /\ job.at = "write"
    /\ rows' = Stored(job.row, Row(1, batch.seen))
    /\ scores' = scores + 1
    /\ job' = [job EXCEPT !.at = "delete"]
    /\ UNCHANGED <<harness, saved, task, owner, batch, unbilled, faults, again, leftover>>

CollectDelete ==
    /\ job.at = "delete"
    /\ batch' = [batch EXCEPT !.at = "gone"]
    /\ job' = [job EXCEPT !.at = "none"]
    /\ UNCHANGED <<harness, rows, saved, task, owner, scores, unbilled, faults, again, leftover>>

\* A failing call or commit, or the end of the process; arq runs the job again
\* or drops it, and the sweep brings it back.
JobBreaks ==
    /\ job.at # "none" /\ Fault
    /\ job' = [job EXCEPT !.at = "none"]
    /\ unbilled' = unbilled + (IF job.at = "sent" THEN 1 ELSE 0)
    /\ leftover' = (leftover \/ job.at = "delete")
    /\ UNCHANGED <<harness, rows, saved, task, owner, batch, scores, again>>

TaskDies ==
    /\ task.at \in {"judge", "persist"} /\ Fault
    /\ task' = [task EXCEPT !.at = "over"]
    /\ UNCHANGED <<harness, rows, saved, owner, batch, job, scores, unbilled, again, leftover>>

\* sweep: one job id for a row, so a queued or running job is not doubled.
Sweep ==
    /\ batch.at \in {"pending", "submitted"} /\ job.at = "none"
    /\ job' = [job EXCEPT !.at = IF batch.at = "pending" THEN "submit" ELSE "collect"]
    /\ UNCHANGED <<harness, rows, saved, task, owner, batch, scores, unbilled,
                   faults, again, leftover>>

Ages ==
    /\ batch.at = "submitted" /\ ~ batch.old
    /\ batch' = [batch EXCEPT !.old = TRUE]
    /\ UNCHANGED <<harness, rows, saved, task, owner, job, scores, unbilled,
                   faults, again, leftover>>

-----------------------------------------------------------------------------
\* revalidate_tasks: reads the harness and the row, then commits.
Revalidate ==
    /\ owner.at = "idle" /\ saved = "yes" /\ again < MaxRevalidate
    /\ again' = again + 1
    /\ owner' = [at |-> "commit", row |-> Latest, seen |-> harness]
    /\ UNCHANGED <<harness, rows, saved, task, batch, job, scores, unbilled, faults, leftover>>

\* Only the findings are assigned; the score of the row is the committed one.
RevalidateCommit ==
    /\ owner.at = "commit"
    /\ rows' = IF owner.row = NoRow THEN Append(rows, Row(0, owner.seen))
                                    ELSE [rows EXCEPT ![owner.row].findings = owner.seen]
    /\ owner' = [owner EXCEPT !.at = "idle"]
    /\ UNCHANGED <<harness, saved, task, batch, job, scores, unbilled, faults, again, leftover>>

HarnessMoves ==
    /\ harness < MaxHarness /\ harness' = harness + 1
    /\ UNCHANGED <<rows, saved, task, owner, batch, job, scores, unbilled,
                   faults, again, leftover>>

Next ==
    \/ PersistStructural \/ StructuralFails \/ SampledOut \/ ScoreInline \/ EnqueueBatch
    \/ CommittedButFailed \/ JudgeFails \/ Judge \/ PersistScore
    \/ SubmitNothing \/ SubmitCall \/ SubmitCommit \/ CollectNothing \/ NotEnded \/ Fetch
    \/ Fallback \/ CollectWrite \/ CollectDelete \/ JobBreaks \/ TaskDies \/ Sweep \/ Ages
    \/ Revalidate \/ RevalidateCommit \/ HarnessMoves

Spec == Init /\ [][Next]_vars

-----------------------------------------------------------------------------
\* One row for a version, unless the row of the save is missing.
OneEvalRow == ~ leftover => Len(rows) <= 1

\* A score is written once, unless a job broke after it wrote or the checkpoint
\* was committed by a call that failed.
ScoredOnce == ~ leftover => scores <= 1

\* A batch that was paid for is held by its row until its score is written or
\* given up; only a process that ends between the call and the commit loses one.
BatchKept ==
    /\ batch.sent = batch.held + unbilled + (IF job.at = "sent" THEN 1 ELSE 0)
    /\ job.at \in {"write", "delete"} => batch.at = "submitted"

=============================================================================
