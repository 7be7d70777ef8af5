----------------------------- MODULE Admission -----------------------------
(***************************************************************************)
(* Admission control of stage generations.  A request takes a slot of its  *)
(* process, a lease of its user, a lease of the provider and a place in    *)
(* the provider's minute, charges, creates the run, and hands the leases   *)
(* to the queued job through its payload; the job takes a slot of the      *)
(* worker process and keeps the leases until the pipeline ends.            *)
(*                                                                         *)
(* A lease is a member of a Redis sorted set; the member is the admission, *)
(* here the request itself.  The slots are counters in process memory.     *)
(* Redis commands are steps of their own: a request, a job, a crash or an  *)
(* outage may come in between.                                             *)
(***************************************************************************)
EXTENDS Integers, FiniteSets

CONSTANTS
    Request,        \* requests to generate, each for another stage
    Owner,          \* the user of a request
    ProcessLimit,   \* max_concurrent_generations_per_process
    UserLimit,      \* max_concurrent_generations_per_user
    ProviderLimit,  \* provider_max_inflight_generations
    RpmLimit,       \* provider_max_generations_per_minute
    MaxFaults,      \* bound: Redis outages and process crashes
    MaxCancels,     \* bound: requests cancelled while they wait for Redis
    MaxSlices       \* bound: job slices that run out

AdmissionAssumption == IsFiniteSet(Request) /\ UserLimit \in Nat /\ ProviderLimit \in Nat

VARIABLES
    inflight,   \* _process_limiter of the API process and of the worker
    userLease,  \* gen:inflight:user:*
    provLease,  \* gen:inflight:provider
    minute,     \* gen:rpm:provider: generations counted in this minute
    api,        \* the request and its GenerationAdmission
    job,        \* the arq job and its GenerationAdmission
    run,        \* the generation run
    late,       \* the runs whose deadline has passed
    outages, crashes, cancels, slices

vars == <<inflight, userLease, provLease, minute, api, job, run, late,
          outages, crashes, cancels, slices>>
counters == <<outages, crashes, cancels, slices>>

\* An admission: where its owner is, and which leases it says it took.
Adm(where) == [at |-> where, user |-> FALSE, prov |-> FALSE]

ApiAt == {"new", "user", "prov", "rpm", "admitted", "enqueue", "over"}
JobAt == {"none", "queued", "user", "prov", "running"}

TypeOK ==
    /\ inflight \in [{"api", "worker"} -> 0..Cardinality(Request)]
    /\ userLease \subseteq Request /\ provLease \subseteq Request
    /\ minute \in 0..RpmLimit
    /\ api \in [Request -> [at : ApiAt, user : BOOLEAN, prov : BOOLEAN]]
    /\ job \in [Request -> [at : JobAt, user : BOOLEAN, prov : BOOLEAN]]
    /\ run \in [Request -> {"none", "running", "ended"}]
    /\ late \subseteq Request

Init ==
    /\ inflight = [p \in {"api", "worker"} |-> 0]
    /\ userLease = {} /\ provLease = {}
    /\ minute = 0
    /\ api = [r \in Request |-> Adm("new")]
    /\ job = [r \in Request |-> Adm("none")]
    /\ run = [r \in Request |-> "none"]
    /\ late = {}
    /\ outages = 0 /\ crashes = 0 /\ cancels = 0 /\ slices = 0

(***************************************************************************)
(* The budgets.                                                            *)
(***************************************************************************)
TryAcquire(p) == inflight[p] < ProcessLimit

Mine(r) == {q \in userLease : Owner[q] = Owner[r]}

\* The Lua script: a member that is there is refreshed, otherwise it needs room.
UserOK(r) == r \in userLease \/ Cardinality(Mine(r)) < UserLimit
ProvOK(r) == r \in provLease \/ Cardinality(provLease) < ProviderLimit

\* One ZREM for each lease an admission took.  A Redis error leaves the rest
\* to their expiry.
RemoveLeases(r, adm) ==
    \/ /\ userLease' = IF adm.user THEN userLease \ {r} ELSE userLease
       /\ provLease' = IF adm.prov THEN provLease \ {r} ELSE provLease
       /\ UNCHANGED outages
    \/ /\ adm.user \/ adm.prov
       /\ outages < MaxFaults /\ outages' = outages + 1
       /\ \/ UNCHANGED userLease
          \/ adm.user /\ userLease' = userLease \ {r}
       /\ UNCHANGED provLease

\* release(): the slot first, then the leases.
Release(p, r, adm) ==
    /\ inflight' = [inflight EXCEPT ![p] = IF @ > 0 THEN @ - 1 ELSE @]
    /\ RemoveLeases(r, adm)

(***************************************************************************)
(* admit_generation, in the API process.                                   *)
(***************************************************************************)
AdmitProcess(r) ==
    /\ api[r].at = "new"
    /\ IF TryAcquire("api")
       THEN /\ inflight' = [inflight EXCEPT !["api"] = @ + 1]
            /\ api' = [api EXCEPT ![r].at = "user"]
       ELSE /\ api' = [api EXCEPT ![r].at = "over"]
            /\ UNCHANGED inflight
    /\ UNCHANGED <<userLease, provLease, minute, job, run, late, counters>>

Rejected(r) ==
    /\ api' = [api EXCEPT ![r] = Adm("over")]
    /\ Release("api", r, api[r])
    /\ UNCHANGED <<minute, job, run, late, crashes, cancels, slices>>

AdmitUser(r) ==
    /\ api[r].at = "user"
    /\ UserOK(r)
    /\ userLease' = userLease \cup {r}
    /\ api' = [api EXCEPT ![r].at = "prov", ![r].user = TRUE]
    /\ UNCHANGED <<inflight, provLease, minute, job, run, late, counters>>

AdmitProvider(r) ==
    /\ api[r].at = "prov"
    /\ ProvOK(r)
    /\ provLease' = provLease \cup {r}
    /\ api' = [api EXCEPT ![r].at = "rpm", ![r].prov = TRUE]
    /\ UNCHANGED <<inflight, userLease, minute, job, run, late, counters>>

AdmitRpm(r) ==
    /\ api[r].at = "rpm"
    /\ minute < RpmLimit
    /\ minute' = minute + 1
    /\ api' = [api EXCEPT ![r].at = "admitted"]
    /\ UNCHANGED <<inflight, userLease, provLease, job, run, late, counters>>

\* GenerationCapacityError: the budgets already taken are given back.
AdmitRejected(r) ==
    /\ \/ api[r].at = "user" /\ ~ UserOK(r)
       \/ api[r].at = "prov" /\ ~ ProvOK(r)
       \/ api[r].at = "rpm" /\ minute = RpmLimit
    /\ Rejected(r)

\* RedisError: fail open with the leases taken so far.  The command whose
\* answer was lost may have been executed.
AdmitFailsOpen(r) ==
    /\ api[r].at \in {"user", "prov", "rpm"}
    /\ outages < MaxFaults /\ outages' = outages + 1
    /\ \/ UNCHANGED <<userLease, provLease>>
       \/ api[r].at = "user" /\ UserOK(r) /\ userLease' = userLease \cup {r}
                             /\ UNCHANGED provLease
       \/ api[r].at = "prov" /\ ProvOK(r) /\ provLease' = provLease \cup {r}
                             /\ UNCHANGED userLease
    /\ api' = [api EXCEPT ![r].at = "admitted"]
    /\ UNCHANGED <<inflight, minute, job, run, late, crashes, cancels, slices>>

\* The client goes away while the request waits for Redis: CancelledError is
\* neither a capacity error nor a RedisError, and nothing is given back.
AdmitCancelled(r) ==
    /\ api[r].at \in {"user", "prov", "rpm"}
    /\ cancels < MaxCancels /\ cancels' = cancels + 1
    /\ api' = [api EXCEPT ![r] = Adm("over")]
    /\ UNCHANGED <<inflight, userLease, provLease, minute, job, run, late,
                   outages, crashes, slices>>

\* Charge and run are committed together.
CreateRun(r) ==
    /\ api[r].at = "admitted"
    /\ run' = [run EXCEPT ![r] = "running"]
    /\ api' = [api EXCEPT ![r].at = "enqueue"]
    /\ UNCHANGED <<inflight, userLease, provLease, minute, job, late, counters>>

\* No credits, another active run, a cancelled request: the finally releases.
CreateFails(r) == api[r].at = "admitted" /\ Rejected(r)

\* Mutant: complete_handoff forgets the process slot.
M_Enqueue(r) ==
    /\ api[r].at = "enqueue"
    /\ job' = [job EXCEPT ![r] = [at |-> "queued", user |-> api[r].user, prov |-> api[r].prov]]
    /\ api' = [api EXCEPT ![r] = Adm("over")]
    /\ UNCHANGED <<inflight, userLease, provLease, minute, run, late, counters>>

\* The payload carries the leases; complete_handoff gives the API's slot back
\* and makes the finally's release a no-op.
Enqueue(r) ==
    /\ api[r].at = "enqueue"
    /\ job' = [job EXCEPT ![r] = [at |-> "queued", user |-> api[r].user, prov |-> api[r].prov]]
    /\ inflight' = [inflight EXCEPT !["api"] = @ - 1]
    /\ api' = [api EXCEPT ![r] = Adm("over")]
    /\ UNCHANGED <<userLease, provLease, minute, run, late, counters>>

\* QueueUnavailableError, also after the job was stored: the run is settled as
\* failed and the finally releases.
EnqueueFails(r) ==
    /\ api[r].at = "enqueue"
    /\ job' \in {job, [job EXCEPT ![r] = [at |-> "queued", user |-> api[r].user,
                                          prov |-> api[r].prov]]}
    /\ run' = [run EXCEPT ![r] = "ended"]
    /\ api' = [api EXCEPT ![r] = Adm("over")]
    /\ Release("api", r, api[r])
    /\ UNCHANGED <<minute, late, crashes, cancels, slices>>

(***************************************************************************)
(* execute_queued_generation, in the worker process.                       *)
(***************************************************************************)
\* The run is settled or overdue: the payload's leases are removed.
Discard(r) ==
    /\ job[r].at = "queued"
    /\ run[r] # "running" \/ r \in late
    /\ run' = [run EXCEPT ![r] = "ended"]
    /\ RemoveLeases(r, job[r])
    /\ job' = [job EXCEPT ![r] = Adm("none")]
    /\ UNCHANGED <<inflight, minute, api, late, crashes, cancels, slices>>

\* Without a slot the job raises, keeps its leases and is retried by arq.
ResumeProcess(r) ==
    /\ job[r].at = "queued"
    /\ run[r] = "running" /\ r \notin late
    /\ TryAcquire("worker")
    /\ inflight' = [inflight EXCEPT !["worker"] = @ + 1]
    /\ job' = [job EXCEPT ![r].at = "user"]
    /\ UNCHANGED <<userLease, provLease, minute, api, run, late, counters>>

\* Refresh the lease, or take it again after a slice gave it up.
ResumeUser(r) ==
    /\ job[r].at = "user"
    /\ \/ ~ job[r].user /\ UNCHANGED userLease
       \/ job[r].user /\ UserOK(r) /\ userLease' = userLease \cup {r}
    /\ job' = [job EXCEPT ![r].at = "prov"]
    /\ UNCHANGED <<inflight, provLease, minute, api, run, late, counters>>

ResumeProvider(r) ==
    /\ job[r].at = "prov"
    /\ \/ ~ job[r].prov /\ UNCHANGED provLease
       \/ job[r].prov /\ ProvOK(r) /\ provLease' = provLease \cup {r}
    /\ job' = [job EXCEPT ![r].at = "running"]
    /\ UNCHANGED <<inflight, userLease, minute, api, run, late, counters>>

\* QueuedGenerationCapacityError: released here, retried by arq.
ResumeRejected(r) ==
    /\ \/ job[r].at = "user" /\ job[r].user /\ ~ UserOK(r)
       \/ job[r].at = "prov" /\ job[r].prov /\ ~ ProvOK(r)
    /\ job' = [job EXCEPT ![r].at = "queued"]
    /\ Release("worker", r, job[r])
    /\ UNCHANGED <<minute, api, run, late, crashes, cancels, slices>>

\* RedisError: the rest of the leases is skipped.
ResumeFailsOpen(r) ==
    /\ job[r].at \in {"user", "prov"}
    /\ outages < MaxFaults /\ outages' = outages + 1
    /\ job' = [job EXCEPT ![r].at = "running"]
    /\ UNCHANGED <<inflight, userLease, provLease, minute, api, run, late,
                   crashes, cancels, slices>>

\* Preflight or pipeline ends, whatever its outcome: the finally releases.
Finish(r) ==
    /\ job[r].at = "running"
    /\ run' = [run EXCEPT ![r] = "ended"]
    /\ job' = [job EXCEPT ![r] = Adm("none")]
    /\ Release("worker", r, job[r])
    /\ UNCHANGED <<minute, api, late, crashes, cancels, slices>>

\* asyncio.timeout of stage_generate: the finally releases, Retry(defer=0).
SliceEnds(r) ==
    /\ job[r].at = "running"
    /\ slices < MaxSlices /\ slices' = slices + 1
    /\ job' = [job EXCEPT ![r].at = "queued"]
    /\ Release("worker", r, job[r])
    /\ UNCHANGED <<minute, api, run, late, crashes, cancels>>

(***************************************************************************)
(* Around them.                                                            *)
(***************************************************************************)
\* A restart forgets the counter; arq delivers the unfinished jobs again.
WorkerCrash ==
    /\ crashes < MaxFaults /\ crashes' = crashes + 1
    /\ inflight' = [inflight EXCEPT !["worker"] = 0]
    /\ job' = [r \in Request |-> IF job[r].at = "none" THEN job[r]
                                                      ELSE [job[r] EXCEPT !.at = "queued"]]
    /\ UNCHANGED <<userLease, provLease, minute, api, run, late, outages, cancels, slices>>

ApiCrash ==
    /\ crashes < MaxFaults /\ crashes' = crashes + 1
    /\ inflight' = [inflight EXCEPT !["api"] = 0]
    /\ api' = [r \in Request |-> IF api[r].at = "new" THEN api[r] ELSE Adm("over")]
    /\ UNCHANGED <<userLease, provLease, minute, job, run, late, outages, cancels, slices>>

\* Cancel or recovery sweep settles a run, the deadline passes, a minute passes.
EndRun(r) ==
    /\ run[r] = "running" /\ api[r].at = "over"
    /\ run' = [run EXCEPT ![r] = "ended"]
    /\ UNCHANGED <<inflight, userLease, provLease, minute, api, job, late, counters>>

Deadline(r) ==
    /\ run[r] = "running"
    /\ late' = late \cup {r}
    /\ UNCHANGED <<inflight, userLease, provLease, minute, api, job, run, counters>>

NextMinute ==
    /\ minute > 0 /\ minute' = 0
    /\ UNCHANGED <<inflight, userLease, provLease, api, job, run, late, counters>>

\* A lease lives for the deadline of its run and two minutes more, time for a
\* pipeline to end: the owner of an expired lease is gone.
Orphaned(r) ==
    /\ api[r].at = "over"
    /\ run[r] # "running" \/ r \in late
    /\ job[r].at \in {"none", "queued"}

Expire(r) ==
    /\ r \in userLease \cup provLease
    /\ Orphaned(r)
    /\ userLease' = userLease \ {r} /\ provLease' = provLease \ {r}
    /\ UNCHANGED <<inflight, minute, api, job, run, late, counters>>

ApiStep(r) ==
    \/ AdmitProcess(r) \/ AdmitUser(r) \/ AdmitProvider(r) \/ AdmitRpm(r)
    \/ AdmitRejected(r) \/ AdmitFailsOpen(r) \/ AdmitCancelled(r)
    \/ CreateRun(r) \/ CreateFails(r) \/ Enqueue(r) \/ EnqueueFails(r)

JobStep(r) ==
    \/ Discard(r) \/ ResumeProcess(r) \/ ResumeUser(r) \/ ResumeProvider(r)
    \/ ResumeRejected(r) \/ ResumeFailsOpen(r) \/ Finish(r) \/ SliceEnds(r)

Next ==
    \/ \E r \in Request : \/ ApiStep(r) \/ JobStep(r)
                          \/ EndRun(r) \/ Deadline(r) \/ Expire(r)
    \/ WorkerCrash \/ ApiCrash \/ NextMinute

Spec == Init /\ [][Next]_vars

-----------------------------------------------------------------------------
Running(u) == {r \in Request : job[r].at = "running" /\ job[r].user /\ Owner[r] = u}

\* The generations of a user, and all of them, that run with a lease.
WithinBudget ==
    /\ \A r \in Request : Cardinality(Running(Owner[r])) <= UserLimit
    /\ Cardinality({r \in Request : job[r].at = "running" /\ job[r].prov}) <= ProviderLimit

\* The counters say how many admissions are alive in their process.
SlotsExact ==
    /\ inflight["api"] = Cardinality({r \in Request : api[r].at \notin {"new", "over"}})
    /\ inflight["worker"] = Cardinality({r \in Request : job[r].at \notin {"none", "queued"}})

\* Every lease has an owner that will remove it.
LeasesOwned ==
    \A r \in userLease \cup provLease : api[r].at # "over" \/ job[r].at # "none"

\* While Redis answers, no request is cancelled waiting for it, nothing crashes.
SlotsReturned ==
    /\ outages = 0 => WithinBudget
    /\ cancels = 0 => SlotsExact
    /\ outages = 0 /\ crashes = 0 /\ cancels = 0 => LeasesOwned

=============================================================================
