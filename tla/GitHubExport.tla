---------------------------- MODULE GitHubExport ----------------------------
(***************************************************************************)
(* The App export of a workspace to GitHub: the one push row, the API      *)
(* requests that reset it and enqueue export_push, the worker jobs with    *)
(* their arq retries, the governor's throttling and its per-repo lock, the *)
(* repository, issues and pull request they create, the drift sweep, and   *)
(* the installation the push is bound to.                                  *)
(*                                                                         *)
(* Every step is one commit or one call of GitHub.  A job reads the stages *)
(* and the push when it starts and works from that copy.                   *)
(***************************************************************************)
EXTENDS Naturals, Sequences, FiniteSets

CONSTANTS Task,          \* stable task refs
          TasksOf,         \* tasks of each finalised Tasks version, as a sequence
          Fresh,         \* arq ids of throttled jobs
          MaxTries,      \* JOB_MAX_TRIES
          MaxRequests,   \* bound: exports and resyncs of the user
          MaxFaults,     \* bound: throttles, errors and crashes together
          MaxMoves,      \* bound: uninstalls, suspensions and repositories removed
          WithPR         \* export_mode = "pr_with_tests"

VARIABLES push,          \* the integration_pushes row
          rows,          \* integration_push_tasks: task ref -> issue number, 0 without a row
          issues,        \* GitHub: the issues this system opened
          github,        \* GitHub: the repository exists, the pull requests it has open
          tasks,         \* current Tasks version, and whether every stage is finalised
          app,           \* the github_installations row
          job,           \* arq: the jobs by id
          lock,          \* gh:gov:repolock of the repository
          api,           \* the export or resync request between its commit and its enqueue
          count          \* requests, faults, moves, orphaned issues and overlapping jobs so far

vars == <<push, rows, issues, github, tasks, app, job, lock, api, count>>

Job == {"push"} \cup Fresh
Gone == [state |-> "absent", try |-> 0, pc |-> "start", version |-> 0,
         left |-> {}, known |-> [t \in Task |-> 0], pr |-> FALSE, at |-> 0]
Queued(try) == [Gone EXCEPT !.state = "queued", !.try = try]

Init ==
    /\ push = [status |-> "none", repo |-> FALSE, bound |-> FALSE,
               detached |-> FALSE, source |-> 0, pr |-> FALSE]
    /\ rows = [t \in Task |-> 0]
    /\ issues = <<>>
    /\ github = [repo |-> FALSE, pulls |-> 0]
    /\ tasks = [version |-> 1, ready |-> TRUE]
    /\ app = [row |-> TRUE, suspended |-> FALSE]
    /\ job = [j \in Job |-> Gone]
    /\ lock = "none"
    /\ api = "idle"
    /\ count = [requests |-> 0, faults |-> 0, moves |-> 0, orphans |-> 0, overlap |-> FALSE]

Faulty == count.faults < MaxFaults
Fault == count' = [count EXCEPT !.faults = @ + 1]

-----------------------------------------------------------------------------
(* The requests.                                                           *)

ExportRequest ==
    /\ api = "idle" /\ count.requests < MaxRequests
    /\ app.row /\ ~app.suspended /\ tasks.ready
    /\ push' = [push EXCEPT !.status = "pending", !.bound = TRUE, !.detached = FALSE]
    /\ api' = "export"
    /\ count' = [count EXCEPT !.requests = @ + 1]
    /\ UNCHANGED <<rows, issues, github, tasks, app, job, lock>>

ResyncRequest ==
    /\ api = "idle" /\ count.requests < MaxRequests
    /\ push.status \notin {"none", "failed"} /\ push.repo
    /\ api' = push.status
    /\ push' = [push EXCEPT !.status = "pending"]
    /\ count' = [count EXCEPT !.requests = @ + 1]
    /\ UNCHANGED <<rows, issues, github, tasks, app, job, lock>>

\* arq drops an enqueue whose id is queued or running.
Enqueue ==
    /\ api # "idle"
    /\ job' = IF job["push"].state = "absent" THEN [job EXCEPT !["push"] = Queued(1)] ELSE job
    /\ api' = "idle"
    /\ UNCHANGED <<push, rows, issues, github, tasks, app, lock, count>>

\* The queue is down: an export is failed, a resync gets its status back.
EnqueueFails ==
    /\ api # "idle" /\ Faulty
    /\ push' = [push EXCEPT !.status = IF api = "export" THEN "failed" ELSE api]
    /\ api' = "idle"
    /\ Fault
    /\ UNCHANGED <<rows, issues, github, tasks, app, job, lock>>

\* finalise of the Tasks stage, with its drift mark; an edit takes the stages out of finalised.
Refinalise ==
    /\ tasks.version < Len(TasksOf)
    /\ tasks' = [version |-> tasks.version + 1, ready |-> TRUE]
    /\ push' = IF push.status \notin {"none", "failed"} /\ push.source # 0
                 THEN [push EXCEPT !.status = "stale"] ELSE push
    /\ UNCHANGED <<rows, issues, github, app, job, lock, api, count>>

EditStage ==
    /\ tasks.ready /\ tasks.version < Len(TasksOf)
    /\ tasks' = [tasks EXCEPT !.ready = FALSE]
    /\ UNCHANGED <<push, rows, issues, github, app, job, lock, api, count>>

-----------------------------------------------------------------------------
(* The worker.                                                             *)

Running(j, pc) == job[j].state = "running" /\ job[j].pc = pc
Goto(j, pc) == job' = [job EXCEPT ![j].pc = pc]
Released(j) == IF lock = j THEN "none" ELSE lock
Final(j) == job[j].try >= MaxTries
Retried(j) == [job EXCEPT ![j] = IF Final(j) THEN Gone ELSE Queued(job[j].try + 1)]

\* The checks at the head of run_export_push.
Loadable == push.bound /\ app.row /\ tasks.ready

Start(j) ==
    /\ job[j].state = "queued" /\ job[j].try <= MaxTries /\ push.status # "completed" /\ Loadable
    /\ job' = [job EXCEPT ![j] = [@ EXCEPT !.state = "running", !.pc = "repo",
                                           !.version = tasks.version, !.pr = push.pr]]
    /\ count' = [count EXCEPT !.overlap = @ \/ \E k \in Job \ {j} : job[k].state = "running"]
    /\ UNCHANGED <<push, rows, issues, github, tasks, app, lock, api>>

StartNoop(j) ==
    /\ job[j].state = "queued"
    /\ job[j].try > MaxTries \/ push.status = "completed"
    /\ job' = [job EXCEPT ![j] = Gone]
    /\ UNCHANGED <<push, rows, issues, github, tasks, app, lock, api, count>>

\* A missing installation and an unfinalised stage are permanent: failed now, retried anyway.
StartRefused(j) ==
    /\ job[j].state = "queued" /\ job[j].try <= MaxTries /\ push.status # "completed" /\ ~Loadable
    /\ push' = [push EXCEPT !.status = "failed"]
    /\ job' = Retried(j)
    /\ UNCHANGED <<rows, issues, github, tasks, app, lock, api, count>>

\* Resolve the repository or create it, then record it.
ResolveRepo(j) ==
    /\ Running(j, "repo")
    /\ github' = [github EXCEPT !.repo = TRUE]
    /\ Goto(j, "named")
    /\ UNCHANGED <<push, rows, issues, tasks, app, lock, api, count>>

RecordRepo(j) ==
    /\ Running(j, "named")
    /\ push' = [push EXCEPT !.repo = TRUE]
    /\ Goto(j, "lock")
    /\ UNCHANGED <<rows, issues, github, tasks, app, lock, api, count>>

LockRepo(j) ==
    /\ Running(j, "lock") /\ lock = "none"
    /\ lock' = j
    /\ Goto(j, "files")
    /\ UNCHANGED <<push, rows, issues, github, tasks, app, api, count>>

\* Files, instruction files and the construction report are upserts; then the rows are loaded.
WriteFiles(j) ==
    /\ Running(j, "files")
    /\ job' = [job EXCEPT ![j] = [@ EXCEPT !.pc = "issues", !.known = rows,
                                           !.left = TasksOf[job[j].version]]]
    /\ UNCHANGED <<push, rows, issues, github, tasks, app, lock, api, count>>

UpdateIssue(j, t) ==
    /\ Running(j, "issues") /\ t \in job[j].left /\ job[j].known[t] # 0
    /\ job' = [job EXCEPT ![j].left = @ \ {t}]
    /\ UNCHANGED <<push, rows, issues, github, tasks, app, lock, api, count>>

CreateIssue(j, t) ==
    /\ Running(j, "issues") /\ t \in job[j].left /\ job[j].known[t] = 0
    /\ issues' = Append(issues, [task |-> t, open |-> TRUE])
    /\ job' = [job EXCEPT ![j] = [@ EXCEPT !.pc = "opened", !.at = Len(issues) + 1,
                                           !.left = @ \ {t}]]
    /\ UNCHANGED <<push, rows, github, tasks, app, lock, api, count>>

\* Mutant: the rows are written with the job's last commit.
M_RecordIssue(j) ==
    /\ Running(j, "opened")
    /\ job' = [job EXCEPT ![j] = [@ EXCEPT !.pc = "issues",
                                           !.known[issues[job[j].at].task] = job[j].at]]
    /\ UNCHANGED <<push, rows, issues, github, tasks, app, lock, api, count>>

\* The row is committed at once, so that a later stop does not open the issue again.
RecordIssue(j) ==
    LET n == job[j].at  t == issues[n].task IN
    /\ Running(j, "opened") /\ rows[t] = 0
    /\ rows' = [rows EXCEPT ![t] = n]
    /\ job' = [job EXCEPT ![j] = [@ EXCEPT !.pc = "issues", !.known[t] = n]]
    /\ UNCHANGED <<push, issues, github, tasks, app, lock, api, count>>

Obsolete(j) == {t \in Task \ TasksOf[job[j].version] : rows[t] # 0}

\* retire_obsolete_task_issues: close at GitHub first, drop the rows in one commit.
CloseObsolete(j) ==
    /\ Running(j, "issues") /\ job[j].left = {}
    /\ issues' = [n \in DOMAIN issues |->
                    IF \E t \in Obsolete(j) : rows[t] = n
                      THEN [issues[n] EXCEPT !.open = FALSE] ELSE issues[n]]
    /\ Goto(j, "closed")
    /\ UNCHANGED <<push, rows, github, tasks, app, lock, api, count>>

DropObsolete(j) ==
    /\ Running(j, "closed")
    /\ rows' = [t \in Task |-> IF t \in Obsolete(j) THEN 0 ELSE rows[t]]
    /\ lock' = IF WithPR THEN lock ELSE Released(j)
    /\ Goto(j, IF WithPR THEN "pull" ELSE "finalise")
    /\ UNCHANGED <<push, issues, github, tasks, app, api, count>>

\* Branch and scaffold are idempotent; a 422 of the pull request finds the open one.
OpenPull(j) ==
    /\ Running(j, "pull")
    /\ github' = IF job[j].pr \/ github.pulls > 0 THEN github ELSE [github EXCEPT !.pulls = @ + 1]
    /\ Goto(j, "pulled")
    /\ UNCHANGED <<push, rows, issues, tasks, app, lock, api, count>>

RecordPull(j) ==
    /\ Running(j, "pulled")
    /\ push' = [push EXCEPT !.pr = TRUE]
    /\ lock' = Released(j)
    /\ Goto(j, "finalise")
    /\ UNCHANGED <<rows, issues, github, tasks, app, api, count>>

\* The last commit, after the lock is gone.
Finalise(j) ==
    /\ Running(j, "finalise")
    /\ push' = [push EXCEPT !.status = "completed", !.source = job[j].version]
    /\ job' = [job EXCEPT ![j] = Gone]
    /\ UNCHANGED <<rows, issues, github, tasks, app, lock, api, count>>

-----------------------------------------------------------------------------
(* What goes wrong in a running job.                                       *)

Calling(j) == job[j].state = "running" /\ job[j].pc # "finalise"
\* An issue that GitHub opened and no row names.
Orphaned(j) == count.orphans + IF job[j].pc = "opened" THEN 1 ELSE 0

\* The governor or a held repository lock: requeued under a fresh id, off the try budget.
Throttled(j) ==
    /\ Calling(j) /\ job[j].pc # "opened" /\ Faulty
    /\ \E f \in Fresh : /\ job[f].state = "absent"
                        /\ job' = [job EXCEPT ![j] = Gone, ![f] = Queued(1)]
    /\ lock' = Released(j)
    /\ Fault
    /\ UNCHANGED <<push, rows, issues, github, tasks, app, api>>

\* _fail_or_retry: a permanent error, or the last try of any other, fails the push.
Errors(j) ==
    /\ Calling(j) /\ Faulty
    /\ \E permanent \in BOOLEAN :
         push' = IF permanent \/ Final(j) THEN [push EXCEPT !.status = "failed"] ELSE push
    /\ job' = Retried(j)
    /\ lock' = Released(j)
    /\ count' = [count EXCEPT !.faults = @ + 1, !.orphans = Orphaned(j)]
    /\ UNCHANGED <<rows, issues, github, tasks, app, api>>

\* The open circuit breaker leaves the push live, also on the last try.
Unavailable(j) ==
    /\ Calling(j) /\ job[j].pc # "opened" /\ Faulty
    /\ job' = Retried(j)
    /\ lock' = Released(j)
    /\ Fault
    /\ UNCHANGED <<push, rows, issues, github, tasks, app, api>>

\* uq_push_task_ref: another job recorded the task; the flush fails and so does the try.
RecordConflict(j) ==
    /\ Running(j, "opened") /\ rows[issues[job[j].at].task] # 0
    /\ push' = IF Final(j) THEN [push EXCEPT !.status = "failed"] ELSE push
    /\ job' = Retried(j)
    /\ lock' = Released(j)
    /\ count' = [count EXCEPT !.orphans = Orphaned(j)]
    /\ UNCHANGED <<rows, issues, github, tasks, app, api>>

\* The worker dies: arq delivers the job again, the lock stays until its TTL.
Crash(j) ==
    /\ job[j].state = "running" /\ Faulty
    /\ job' = [job EXCEPT ![j] = Queued(job[j].try + 1)]
    /\ lock' = IF lock = j THEN "dead" ELSE lock
    /\ count' = [count EXCEPT !.faults = @ + 1, !.orphans = Orphaned(j)]
    /\ UNCHANGED <<push, rows, issues, github, tasks, app, api>>

LockExpires ==
    /\ lock = "dead"
    /\ lock' = "none"
    /\ UNCHANGED <<push, rows, issues, github, tasks, app, job, api, count>>

\* reconcile_drift: a pending push whose own job id is unknown to arq is failed.
SweepPending ==
    /\ push.status = "pending" /\ job["push"].state = "absent"
    /\ push' = [push EXCEPT !.status = "failed"]
    /\ UNCHANGED <<rows, issues, github, tasks, app, job, lock, api, count>>

-----------------------------------------------------------------------------
(* The installation.                                                       *)

Moved == count.moves < MaxMoves /\ count' = [count EXCEPT !.moves = @ + 1]
Live == push.status \notin {"none", "failed"}

\* suspend of the installation, or removal of the repository from it.
Suspend ==
    /\ app.row /\ Moved
    /\ \E whole \in BOOLEAN : app' = [app EXCEPT !.suspended = @ \/ whole]
    /\ push' = IF push.bound /\ Live THEN [push EXCEPT !.status = "stale"] ELSE push
    /\ UNCHANGED <<rows, issues, github, tasks, job, lock, api>>

Unsuspend ==
    /\ app.row /\ app.suspended
    /\ app' = [app EXCEPT !.suspended = FALSE]
    /\ UNCHANGED <<push, rows, issues, github, tasks, job, lock, api, count>>

\* deleted at GitHub or revoked here: detach and remember the numeric id.
Uninstall ==
    /\ app.row /\ Moved
    /\ app' = [row |-> FALSE, suspended |-> FALSE]
    /\ push' = IF push.bound THEN [push EXCEPT !.status = IF Live THEN "stale" ELSE @,
                                               !.bound = FALSE, !.detached = TRUE]
               ELSE push
    /\ UNCHANGED <<rows, issues, github, tasks, job, lock, api>>

\* upsert_installation of the same user readopts what the uninstall detached.
Install ==
    /\ ~app.row
    /\ app' = [row |-> TRUE, suspended |-> FALSE]
    /\ push' = IF push.detached THEN [push EXCEPT !.bound = TRUE, !.detached = FALSE] ELSE push
    /\ UNCHANGED <<rows, issues, github, tasks, job, lock, api, count>>

-----------------------------------------------------------------------------
Work(j) ==
    \/ Start(j) \/ StartNoop(j) \/ StartRefused(j) \/ ResolveRepo(j) \/ RecordRepo(j)
    \/ LockRepo(j) \/ WriteFiles(j) \/ RecordIssue(j) \/ CloseObsolete(j) \/ DropObsolete(j)
    \/ OpenPull(j) \/ RecordPull(j) \/ Finalise(j) \/ RecordConflict(j)
    \/ \E t \in Task : UpdateIssue(j, t) \/ CreateIssue(j, t)

Next ==
    \/ ExportRequest \/ ResyncRequest \/ Enqueue \/ EnqueueFails \/ Refinalise \/ EditStage
    \/ \E j \in Job : Work(j) \/ Throttled(j) \/ Errors(j) \/ Unavailable(j) \/ Crash(j)
    \/ LockExpires \/ SweepPending \/ Suspend \/ Unsuspend \/ Uninstall \/ Install

-----------------------------------------------------------------------------
Open(t) == {n \in DOMAIN issues : issues[n].task = t /\ issues[n].open}
InFlight == Cardinality({j \in Job : job[j].pc = "opened"})
Unrecorded == {n \in DOMAIN issues : issues[n].open /\ \A t \in Task : rows[t] # n}
Idle == \A j \in Job : job[j].state = "absent"

\* Every open issue is named by a row, or is being recorded, or was orphaned by a stop in between.
IssuesRecorded == Cardinality(Unrecorded) <= InFlight + count.orphans

\* What a completed push says of its source version is what GitHub shows.
SourceShown ==
    (push.status = "completed" /\ Idle /\ ~count.overlap) =>
        /\ {t \in Task : rows[t] # 0} = TasksOf[push.source]
        /\ \A t \in TasksOf[push.source] : rows[t] \in Open(t)
        /\ WithPR => push.pr /\ github.pulls = 1

\* A push is detached only while its installation is gone.
Readopted == app.row => ~push.detached

\* A first-attempt job under a fresh id works on a live push.
ThrottledStaysLive ==
    \A f \in Fresh : (job[f].state # "absent" /\ job[f].try = 1) => Live
=============================================================================
