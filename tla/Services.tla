------------------------------ MODULE Services ------------------------------
(***************************************************************************)
(* The services around the pipeline that charge, count, reserve or queue,  *)
(* side by side over the tables they own: workspaces, storyboards,         *)
(* increments, admission control, the job queue and evaluations.  A module *)
(* that composes them with others adds the steps; what each promises is    *)
(* stated here.                                                            *)
(***************************************************************************)
EXTENDS Integers

\* Workspaces.
CONSTANTS Space, Quota, TrashDays, LegacyDays, BatchSize, Cap, MaxClock, MaxRestores
VARIABLES space, create, user, purge, day, restores, lost

Spaces == INSTANCE Workspaces WITH job <- purge, clock <- day

\* Storyboards.
CONSTANTS Click, Rounds, Escalates, Slow, MaxSources, MaxDeckFaults, MaxSlugs
VARIABLES deck, run, click, source, slugs, deckFaults

Boards == INSTANCE Storyboards WITH faults <- deckFaults, MaxFaults <- MaxDeckFaults

\* Increments.
CONSTANTS Inc, IdeaOf, TaskOf, Baseline, Edited, MaxVersion, MaxIncFaults
VARIABLES versions, final, inc, req, idea, pushes, taskRows, opened, repo, sweeping, outcome, incFaults, orphans

Grow == INSTANCE Increments WITH job <- pushes, rows <- taskRows, issues <- opened,
    lock <- repo, faults <- incFaults, MaxFaults <- MaxIncFaults

\* Admission control.
CONSTANTS Requests, Owner, ProcessLimit, UserLimit, ProviderLimit, RpmLimit,
          MaxFaults, MaxCancels, MaxSlices
VARIABLES inflight, userLease, provLease, minute, request, queued, started, late,
          outages, crashes, cancels, slices

Admit == INSTANCE Admission WITH Request <- Requests, api <- request, job <- queued, run <- started

\* The job queue.
CONSTANTS Unit, NameOf, FreshIds, MaxTries, LaneSlots, TTL, MaxKills, MaxOutages, MaxSweeps
VARIABLES jobs, accepted, done, dead, dropped, unqueued, up, beat, down, charged, cost, kills,
          jobFaults, sweeps

Jobs == INSTANCE JobQueue WITH outages <- jobFaults, Slots <- LaneSlots, Fresh <- FreshIds

\* Evaluations.
CONSTANTS MaxHarness, MaxRevalidate, MaxEvalFaults
VARIABLES harness, evals, saved, judge, owner, batch, evalJob, scores, unbilled, evalFaults,
          again, leftover

Evals == INSTANCE Evaluations WITH rows <- evals, task <- judge, job <- evalJob,
    faults <- evalFaults, MaxFaults <- MaxEvalFaults

-----------------------------------------------------------------------------
\* While Redis answers, no user and no provider has more generations running
\* than its budget, and every slot and every lease has exactly one living
\* owner: what the request hands to the worker is neither given back twice nor
\* forgotten, whatever requests, handed-over jobs, retries, slices and
\* expiring leases overlap (admit_generation, resume_generation_admission,
\* handoff_payload, complete_handoff).
SlotsReturned == Admit!SlotsReturned

\* Requests to create workspaces that overlap with each other and with the
\* trash never exceed the quota; only restores, which are not gated on it, do
\* (create, archive, restore).
WithinQuota == Spaces!WithinQuota

\* A deck is charged exactly while it is being made or shown, at most one is
\* being made, and an increment is charged exactly when its tasks were added
\* and it was not overwritten by a sweep that had read it before: through
\* failing calls, lost processes and the sweep (_reserve, _finalise_ready,
\* _fail_and_refund, _finalise_increment, recover_stuck_increments).
ChargedIffServed == Boards!ChargedIffServed /\ Grow!ChargedIffServed

\* An increment adds its tasks to the version it was planned against, or to
\* none: a concurrent increment or edit of TASKS.md is never overwritten
\* (_append_tasks_version).
TasksKept == Grow!TasksKept

\* Work that was accepted is done, waits as a job, or as a stored row for its
\* cron where Redis refused the job, or is on the dead-letter list, unless arq
\* or Redis ended its job; throttling costs no try; nobody is charged while no
\* worker lives.  Its evaluation is one row, scored once, and a batch is never
\* forgotten (make_job_wrapper, _requeue_throttled, razorpay_webhook,
\* generation_worker_snapshot, collect_eval_batches).
WorkKept ==
    /\ Jobs!WorkKept /\ Jobs!ThrottlesAreFree /\ Jobs!ChargedWhileReady
    /\ Evals!OneEvalRow /\ Evals!ScoredOnce /\ Evals!BatchKept
=============================================================================
