----------------------------- MODULE JobQueue -----------------------------
(***************************************************************************)
(* The durable job queue: arq's two lanes as services/queue.py and          *)
(* worker.py use them.  A unit is the row a job works for (a push, an inbox *)
(* row, an eval batch, a generation run); its job is keyed by the unit, a   *)
(* throttled one by a fresh id.  arq itself (keys, leases, counting tries)  *)
(* is external and modelled from how the code relies on it.                 *)
(***************************************************************************)
EXTENDS Integers, FiniteSets

CONSTANTS
    Unit,           \* the rows that are worked for
    NameOf,         \* unit -> the name of its job
    Fresh,          \* the ids a throttled job can get
    MaxTries,       \* JOB_MAX_TRIES
    Slots,          \* max_jobs of a lane
    TTL,            \* of the heartbeat, in ticks of its cron
    MaxKills,       \* bound: worker processes that end
    MaxOutages,     \* bound: Redis commands that fail
    MaxSweeps       \* bound: units a sweep enqueues again

VARIABLES
    jobs,           \* id -> [unit, at, try]
    accepted, done, dead,   \* the units whose request was answered, finished, dead-lettered
    dropped,        \* those whose job arq or a failing Redis ended
    unqueued,       \* those answered although Redis refused the job
    up,             \* lane -> its worker runs
    beat,           \* the age of the heartbeat, TTL + 1 when it has expired
    down,           \* how long the bulk worker has been gone
    charged,        \* down at the time a generation was charged
    cost,           \* unit -> attempts of its jobs that failed or were cut off
    kills, outages, sweeps

vars == <<jobs, accepted, done, dead, dropped, unqueued, up, beat, down, charged, cost,
          kills, outages, sweeps>>

-----------------------------------------------------------------------------
Lane == {"fast", "bulk"}

FastQueueJobs == {"billing_process_webhook", "pr_check", "reconcile_issue_event",
                  "refresh_task_states"}

QueueForJob(n) == IF n \in FastQueueJobs THEN "fast" ELSE "bulk"

\* The functions behind the names, by the contract that wraps them.
GitHubJobs == {"export_push", "reconcile_event", "reconcile_issue_event", "backfill_repo",
               "refresh_task_states", "increment_push", "projects_sync", "pr_check"}
BatchJobs == {"llm_batch_submit", "llm_batch_collect"}

\* The functions each worker registers.
BulkFunctions == {"export_push", "reconcile_event", "backfill_repo", "increment_push",
                  "projects_sync", "stage_generate"} \cup BatchJobs
FastFunctions == {"billing_process_webhook", "reconcile_issue_event", "refresh_task_states",
                  "pr_check"}

Functions(l) == IF l = "fast" THEN FastFunctions ELSE BulkFunctions

\* Every name that is enqueued is registered with a worker.
JobsAssumption ==
    /\ IsFiniteSet(Unit) /\ IsFiniteSet(Fresh) /\ Unit \cap Fresh = {}
    /\ MaxTries \in Nat /\ TTL \in Nat
    /\ \A u \in Unit : NameOf[u] \in FastFunctions \cup BulkFunctions

\* Only the GitHub contract has a handler for throttling.
Throttles(n) == n \in GitHubJobs

Id == Unit \cup Fresh
Free == [unit |-> "none", at |-> "none", try |-> 0]
Name(i) == NameOf[jobs[i].unit]
LaneOf(i) == QueueForJob(Name(i))
Running(l) == {i \in Id : jobs[i].at = "running" /\ LaneOf(i) = l}

Init ==
    /\ jobs = [i \in Id |-> Free]
    /\ accepted = {} /\ done = {} /\ dead = {} /\ dropped = {} /\ unqueued = {}
    /\ up = [l \in Lane |-> TRUE]
    /\ beat = 0 /\ down = 0 /\ charged = 0
    /\ cost = [u \in Unit |-> 0]
    /\ kills = 0 /\ outages = 0 /\ sweeps = 0

-----------------------------------------------------------------------------
\* enqueue: a job id that is queued or running is dropped as a duplicate.
Put(i, u) == IF jobs[i].at = "none" THEN [jobs EXCEPT ![i] = [unit |-> u, at |-> "queued", try |-> 0]]
                                    ELSE jobs

\* generation_worker_snapshot: a heartbeat inside its time to live.
Ready == beat <= TTL

\* The rows whose request is answered once they are committed: when Redis refuses
\* the job, a cron that reads the rows enqueues it.
StoredJobs == {"billing_process_webhook", "llm_batch_submit"}

\* The job is queued and the request answered; generations are charged only
\* while a worker is ready.  When Redis fails, a request for another job is
\* refused (503) and undone: nothing has been accepted.
Enqueue(u) ==
    /\ u \notin accepted
    /\ NameOf[u] = "stage_generate" => Ready
    /\ accepted' = accepted \cup {u}
    /\ jobs' = Put(u, u)
    /\ charged' = IF NameOf[u] = "stage_generate" THEN down ELSE charged
    /\ UNCHANGED <<unqueued, done, dead, dropped, up, beat, down, cost, kills, outages, sweeps>>

EnqueueFails(u) ==
    /\ u \notin accepted /\ NameOf[u] \in StoredJobs
    /\ outages < MaxOutages /\ outages' = outages + 1
    /\ accepted' = accepted \cup {u}
    /\ unqueued' = unqueued \cup {u}
    /\ UNCHANGED <<jobs, done, dead, dropped, up, beat, down, charged, cost, kills, sweeps>>

\* The crons of the inbox, of the drift and of the batches enqueue unfinished
\* rows again, under the unit's own id.
Sweep(u) ==
    /\ u \in accepted \ done
    /\ NameOf[u] # "stage_generate"
    /\ jobs[u].at = "none"
    /\ sweeps < MaxSweeps /\ sweeps' = sweeps + 1
    /\ jobs' = Put(u, u)
    /\ dropped' = dropped \ {u} /\ unqueued' = unqueued \ {u}
    /\ UNCHANGED <<accepted, done, dead, up, beat, down, charged, cost, kills, outages>>

\* arq counts the try when the job starts.  It gives up a job whose tries are
\* used up, or whose function its worker does not know, without running it.
Known(i) == Name(i) \in Functions(LaneOf(i))
Exhausted(i) == Name(i) # "stage_generate" /\ jobs[i].try = MaxTries

Start(i) ==
    /\ jobs[i].at = "queued"
    /\ up[LaneOf(i)] /\ Cardinality(Running(LaneOf(i))) < Slots
    /\ Known(i) /\ ~ Exhausted(i)
    /\ jobs' = [jobs EXCEPT ![i].at = "running",
                            ![i].try = IF Name(i) = "stage_generate" THEN 0 ELSE @ + 1]
    /\ UNCHANGED <<unqueued, accepted, done, dead, dropped, up, beat, down, charged, cost,
                   kills, outages, sweeps>>

\* Tries used up by attempts that were cut off leave no dead letter.
Abandon(i) ==
    /\ jobs[i].at = "queued" /\ up[LaneOf(i)]
    /\ ~ Known(i) \/ Exhausted(i)
    /\ dropped' = IF Known(i) THEN dropped \cup {jobs[i].unit} ELSE dropped
    /\ jobs' = [jobs EXCEPT ![i] = Free]
    /\ UNCHANGED <<unqueued, accepted, done, dead, up, beat, down, charged, cost, kills, outages, sweeps>>

Succeed(i) ==
    /\ jobs[i].at = "running"
    /\ done' = done \cup {jobs[i].unit}
    /\ dropped' = dropped \ {jobs[i].unit}
    /\ jobs' = [jobs EXCEPT ![i] = Free]
    /\ UNCHANGED <<unqueued, accepted, dead, up, beat, down, charged, cost, kills, outages, sweeps>>

Costs(i) == cost' = [cost EXCEPT ![jobs[i].unit] = @ + 1]

\* The wrapper: retry with backoff below the cap.
Retry(i) ==
    /\ jobs[i].at = "running" /\ Name(i) # "stage_generate"
    /\ jobs[i].try < MaxTries
    /\ Costs(i)
    /\ jobs' = [jobs EXCEPT ![i].at = "queued"]
    /\ UNCHANGED <<unqueued, accepted, done, dead, dropped, up, beat, down, charged, kills, outages, sweeps>>

\* record_dead_letter at the cap; a Redis that fails loses the record.
DeadLetter(i) ==
    /\ jobs[i].at = "running" /\ Name(i) # "stage_generate"
    /\ jobs[i].try = MaxTries
    /\ Costs(i)
    /\ \/ dead' = dead \cup {jobs[i].unit} /\ UNCHANGED <<unqueued, dropped, outages>>
       \/ /\ outages < MaxOutages /\ outages' = outages + 1
          /\ dropped' = dropped \cup {jobs[i].unit} /\ UNCHANGED dead
    /\ jobs' = [jobs EXCEPT ![i] = Free]
    /\ UNCHANGED <<unqueued, accepted, done, up, beat, down, charged, kills, sweeps>>

\* Mutant: queued again under the id that is still running.
M_RequeueThrottled(i) ==
    /\ jobs[i].at = "running" /\ Throttles(Name(i))
    /\ jobs' = [jobs EXCEPT ![i] = Free]
    /\ UNCHANGED <<unqueued, accepted, done, dead, dropped, up, beat, down, charged, cost, kills, outages, sweeps>>

\* A throttled job ends cleanly and goes on under a fresh id, with new tries.
RequeueThrottled(i) ==
    /\ jobs[i].at = "running" /\ Throttles(Name(i))
    /\ \/ \E f \in Fresh : /\ jobs[f].at = "none"
                           /\ jobs' = [jobs EXCEPT ![i] = Free,
                                         ![f] = [unit |-> jobs[i].unit, at |-> "queued", try |-> 0]]
                           /\ UNCHANGED <<unqueued, dropped, outages>>
       \/ /\ outages < MaxOutages /\ outages' = outages + 1
          /\ dropped' = dropped \cup {jobs[i].unit}
          /\ jobs' = [jobs EXCEPT ![i] = Free]
    /\ UNCHANGED <<unqueued, accepted, done, dead, up, beat, down, charged, cost, kills, sweeps>>

\* stage_generate: no capacity, or its slice is over.
RetryGeneration(i) ==
    /\ jobs[i].at = "running" /\ Name(i) = "stage_generate"
    /\ jobs' = [jobs EXCEPT ![i].at = "queued"]
    /\ UNCHANGED <<unqueued, accepted, done, dead, dropped, up, beat, down, charged, cost,
                   kills, outages, sweeps>>

\* arq's own timeout, or any error of a generation, ends the job for good.
TimesOut(i) ==
    /\ jobs[i].at = "running"
    /\ kills < MaxKills /\ kills' = kills + 1
    /\ dropped' = dropped \cup {jobs[i].unit}
    /\ jobs' = [jobs EXCEPT ![i] = Free]
    /\ UNCHANGED <<unqueued, accepted, done, dead, up, beat, down, charged, cost, outages, sweeps>>

\* A redeploy gives the jobs back at once; a killed process holds their leases.
Cut(l, at) ==
    /\ up[l] /\ up' = [up EXCEPT ![l] = FALSE]
    /\ kills < MaxKills /\ kills' = kills + 1
    /\ jobs' = [i \in Id |-> IF i \in Running(l) THEN [jobs[i] EXCEPT !.at = at] ELSE jobs[i]]
    /\ cost' = [u \in Unit |-> cost[u] + Cardinality({i \in Running(l) : jobs[i].unit = u})]
    /\ UNCHANGED <<unqueued, accepted, done, dead, dropped, beat, down, charged, outages, sweeps>>

Shutdown(l) == Cut(l, "queued")
Kill(l) == Cut(l, "leased")

LeaseEnds(i) ==
    /\ jobs[i].at = "leased"
    /\ jobs' = [jobs EXCEPT ![i].at = "queued"]
    /\ UNCHANGED <<unqueued, accepted, done, dead, dropped, up, beat, down, charged, cost,
                   kills, outages, sweeps>>

\* The bulk worker publishes its heartbeat before it takes jobs.
Startup(l) ==
    /\ ~ up[l] /\ up' = [up EXCEPT ![l] = TRUE]
    /\ beat' = IF l = "bulk" THEN 0 ELSE beat
    /\ down' = IF l = "bulk" THEN 0 ELSE down
    /\ UNCHANGED <<unqueued, jobs, accepted, done, dead, dropped, charged, cost, kills, outages, sweeps>>

Heartbeat ==
    /\ up["bulk"] /\ beat' = 0 /\ beat # 0
    /\ UNCHANGED <<unqueued, jobs, accepted, done, dead, dropped, up, down, charged, cost,
                   kills, outages, sweeps>>

Tick ==
    /\ beat <= TTL \/ down <= TTL
    /\ ~ up["bulk"] \/ beat < TTL
    /\ beat' = IF beat <= TTL THEN beat + 1 ELSE beat
    /\ down' = IF up["bulk"] THEN 0 ELSE IF down <= TTL THEN down + 1 ELSE down
    /\ UNCHANGED <<unqueued, jobs, accepted, done, dead, dropped, up, charged, cost, kills, outages, sweeps>>

Next ==
    \/ \E u \in Unit : Enqueue(u) \/ EnqueueFails(u) \/ Sweep(u)
    \/ \E i \in Id : \/ Start(i) \/ Abandon(i) \/ Succeed(i) \/ Retry(i) \/ DeadLetter(i)
                     \/ RequeueThrottled(i) \/ RetryGeneration(i) \/ TimesOut(i) \/ LeaseEnds(i)
    \/ \E l \in Lane : Shutdown(l) \/ Kill(l) \/ Startup(l)
    \/ Heartbeat \/ Tick

Spec == Init /\ [][Next]_vars

-----------------------------------------------------------------------------
\* An accepted unit is done, dead-lettered or has a job, unless arq ended the
\* job itself or Redis refused the requeue; a stored row may wait for its cron.
WorkKept == \A u \in accepted \ (done \cup dead \cup dropped) :
                \/ \E i \in Id : jobs[i].unit = u /\ jobs[i].at # "none"
                \/ u \in unqueued /\ NameOf[u] \in StoredJobs

\* Only attempts that failed or were cut off lead to the dead-letter list.
ThrottlesAreFree == \A u \in dead : cost[u] >= MaxTries

\* Nobody is charged for a generation once the workers have been gone for
\* longer than a heartbeat lives.
ChargedWhileReady == charged <= TTL

=============================================================================
