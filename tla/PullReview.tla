----------------------------- MODULE PullReview -----------------------------
(***************************************************************************)
(* The acceptance check on a pull request                                  *)
(* (services/integrations/pr_evaluator.py).  Pushes to the pull request    *)
(* and re-runs by the user arrive as pr_check jobs; a job posts a pending  *)
(* check on the head commit, lets a judge read the diff and completes the  *)
(* check.  Completing it makes GitHub send an event of its own, which      *)
(* comes back as one more automatic job: the commit that was last checked, *)
(* kept in Redis, has to break that loop.  Jobs overlap and are retried.   *)
(*                                                                         *)
(* A commit shows the last run that was posted on it.  The commit status,  *)
(* posted when the App may not write checks, is a run that is never        *)
(* updated; it has no neutral state and shows success instead.             *)
(***************************************************************************)
EXTENDS Integers, Sequences

CONSTANTS
    Job,            \* pr_check jobs that exist at one time
    Modes,          \* pr_check_mode settings of the installation
    Budget,         \* PR_CHECK_DAILY_BUDGET
    MaxTries,       \* JOB_MAX_TRIES
    MaxHead, MaxReruns, MaxEchoes, MaxFaults    \* bounds

VARIABLES
    pull,       \* the pull request: head, whether it closes a task, whether its diff is cut
    mode,       \* pr_check_mode
    checks,     \* the App may write checks
    done,       \* Redis: the commit that was checked last, 0 for none
    debounce,   \* Redis: a judge has just run
    spent,      \* Redis: judge calls of the day
    runs,       \* what was posted, in order
    inbox,      \* events on their way: automatic ones, re-runs
    job,        \* the jobs
    count       \* history: reruns, echoes, judge calls, faults, jobs that gave up

vars == <<pull, mode, checks, done, debounce, spent, runs, inbox, job, count>>

Idle == [pc |-> "idle", trigger |-> "auto", try |-> 1, sha |-> 0, run |-> 0, verdict |-> "none",
         seen |-> 0, whole |-> FALSE, said |-> "none"]

Init ==
    /\ pull \in [head : {1}, task : BOOLEAN, cut : BOOLEAN] /\ mode \in Modes /\ checks \in BOOLEAN
    /\ done = 0 /\ debounce = FALSE /\ spent = 0 /\ runs = <<>>
    /\ inbox = [auto |-> 1, manual |-> 0]
    /\ job = [j \in Job |-> Idle]
    /\ count = [reruns |-> 0, echoes |-> 0, calls |-> 0, faults |-> 0, gaveUp |-> 0]

Set(j, r) == job' = [job EXCEPT ![j] = r]
At(j, pc) == job[j].pc = pc
pr == <<pull, mode, checks>>
redis == <<done, debounce, spent>>
Faulty == count.faults < MaxFaults
Fault == Faulty /\ count' = [count EXCEPT !.faults = @ + 1]

\* The author pushes; the user asks for a re-run of a completed check.
Push ==
    /\ pull.head < MaxHead /\ pull' = [pull EXCEPT !.head = @ + 1]
    /\ inbox' = [inbox EXCEPT !.auto = @ + 1]
    /\ UNCHANGED <<mode, checks, redis, runs, job, count>>
On(s) == {i \in DOMAIN runs : runs[i].sha = s}
Completed(s) == {i \in On(s) : runs[i].status # "pending"}
Rerun ==
    /\ count.reruns < MaxReruns /\ Completed(pull.head) # {}
    /\ inbox' = [inbox EXCEPT !.manual = @ + 1]
    /\ count' = [count EXCEPT !.reruns = @ + 1]
    /\ UNCHANGED <<pr, redis, runs, job>>

\* _route_pr_check: one job per event, a re-run tagged manual.
Route(j) ==
    /\ At(j, "idle")
    /\ \E t \in {"auto", "manual"} :
           /\ inbox[t] > 0 /\ inbox' = [inbox EXCEPT ![t] = @ - 1]
           /\ Set(j, [Idle EXCEPT !.pc = "queued", !.trigger = t])
    /\ UNCHANGED <<pr, redis, runs, count>>

Over(j) == Set(j, Idle)
\* A throttled job is requeued; an error costs a try, and the last one gives up.
Retry(j) ==
    \/ Set(j, [Idle EXCEPT !.pc = "queued", !.trigger = job[j].trigger, !.try = job[j].try])
       /\ Fault
    \/ /\ job[j].try < MaxTries /\ Fault
       /\ Set(j, [Idle EXCEPT !.pc = "queued", !.trigger = job[j].trigger, !.try = job[j].try + 1])
    \/ /\ job[j].try >= MaxTries /\ Over(j) /\ Faulty
       /\ count' = [count EXCEPT !.faults = @ + 1, !.gaveUp = @ + 1]

\* get_pull_request and _head_sha: a pull request that cannot be read ends the job.
Read(j) ==
    /\ At(j, "queued")
    /\ \/ Set(j, [job[j] EXCEPT !.pc = "dedup", !.sha = pull.head]) /\ UNCHANGED count
       \/ /\ Faulty /\ Over(j)
          /\ count' = [count EXCEPT !.faults = @ + 1, !.gaveUp = @ + 1]
    /\ UNCHANGED <<pr, redis, runs, inbox>>

\* _mode_skip_verdict
Skips(trigger) == mode = "off" \/ (mode = "manual" /\ trigger # "manual")

\* _resolve_acceptance_criteria: it closes an issue of a task that TASKS.md has.
Linked == pull.task
\* _truncate_diff_by_hunk: no file of the diff was left out.
Whole == ~pull.cut

\* The commit that was checked last first, then the mode, then the linked
\* tasks (_resolve_acceptance_criteria).
Dedup(j) ==
    /\ At(j, "dedup")
    /\ \/ job[j].trigger # "manual" /\ done = job[j].sha /\ Over(j)
       \/ /\ job[j].trigger = "manual" \/ done # job[j].sha
          /\ Set(j, IF Skips(job[j].trigger) \/ ~Linked
                    THEN [job[j] EXCEPT !.pc = "post", !.verdict = "neutral"]
                    ELSE [job[j] EXCEPT !.pc = "debounce"])
    /\ UNCHANGED <<pr, redis, runs, inbox, count>>

\* A judge that has just run stands: the job ends without posting anything.
Debounce(j) ==
    /\ At(j, "debounce")
    /\ IF debounce THEN Over(j) ELSE Set(j, [job[j] EXCEPT !.pc = "budget"])
    /\ UNCHANGED <<pr, redis, runs, inbox, count>>

\* _within_budget: increment, then compare; over it the check is neutral.
WithinBudget(j) ==
    /\ At(j, "budget") /\ spent' = spent + 1
    /\ Set(j, IF spent + 1 <= Budget THEN [job[j] EXCEPT !.pc = "pending"]
              ELSE [job[j] EXCEPT !.pc = "post", !.verdict = "neutral"])
    /\ UNCHANGED <<pr, done, debounce, runs, inbox, count>>

RunOf(j, status) == [sha |-> job[j].sha, status |-> status, said |-> job[j].said,
                     seen |-> job[j].seen, whole |-> job[j].whole]

\* _post_pending: a pending check, or a pending commit status.
PostPending(j) ==
    /\ At(j, "pending")
    /\ \/ /\ runs' = Append(runs, RunOf(j, "pending")) /\ UNCHANGED count
          /\ Set(j, [job[j] EXCEPT !.pc = "judge", !.run = IF checks THEN Len(runs) + 1 ELSE 0])
       \/ Retry(j) /\ UNCHANGED runs
    /\ UNCHANGED <<pr, redis, inbox>>

\* _judge: the diff is the one of the pull request now; without a diff or an
\* answer there is no result.  _truncate_diff_by_hunk says whether it was cut.
VerdictFor(said, cut) ==
    CASE said = "none" -> "neutral"
      [] said = "pass" -> IF cut THEN "neutral" ELSE "success"
      [] said = "fail" -> "failure"
Judge(j) ==
    /\ At(j, "judge")
    /\ \E said \in {"pass", "fail", "none"} :
           Set(j, [job[j] EXCEPT !.pc = "post", !.said = said, !.seen = pull.head, !.whole = Whole,
                                 !.verdict = VerdictFor(said, ~Whole)])
    /\ count' = [count EXCEPT !.calls = @ + 1]
    /\ UNCHANGED <<pr, redis, runs, inbox>>

\* _post_verdict: completes the pending check or posts a completed one; the
\* commit status has no neutral (_STATUS_STATE).  GitHub reports the completed
\* check as an event.  The reply can be lost after GitHub posted it.
Shows(verdict) == IF ~checks /\ verdict = "neutral" THEN "success" ELSE verdict
Posted(j) ==
    LET r == RunOf(j, Shows(job[j].verdict)) IN
    /\ runs' = IF job[j].run > 0 THEN [runs EXCEPT ![job[j].run] = r] ELSE Append(runs, r)
    /\ inbox' = [inbox EXCEPT !.auto = IF checks /\ count.echoes < MaxEchoes THEN @ + 1 ELSE @]
PostVerdict(j) ==
    /\ At(j, "post")
    /\ \/ /\ Posted(j) /\ Set(j, [job[j] EXCEPT !.pc = "record"])
          /\ count' = [count EXCEPT !.echoes = IF checks /\ @ < MaxEchoes THEN @ + 1 ELSE @]
       \/ Retry(j) /\ Posted(j)
       \/ Retry(j) /\ UNCHANGED <<runs, inbox>>
    /\ UNCHANGED <<pr, redis>>

\* The commit is recorded as checked and, after a judge, the window is armed.
Record(j) ==
    /\ At(j, "record")
    /\ done' = job[j].sha
    /\ debounce' = (debounce \/ job[j].seen # 0)
    /\ Over(j)
    /\ UNCHANGED <<pr, spent, runs, inbox, count>>

DebounceExpires == debounce /\ debounce' = FALSE
    /\ UNCHANGED <<pr, done, spent, runs, inbox, job, count>>
\* The worker is lost; arq delivers the job again.
Crash(j) == ~At(j, "idle") /\ ~At(j, "queued") /\ Retry(j) /\ UNCHANGED <<pr, redis, runs, inbox>>

Next ==
    \/ Push \/ Rerun \/ DebounceExpires
    \/ \E j \in Job : Route(j) \/ Read(j) \/ Dedup(j) \/ Debounce(j) \/ WithinBudget(j) \/ PostPending(j)
                      \/ Judge(j) \/ PostVerdict(j) \/ Record(j) \/ Crash(j)

(***************************************************************************)
(* Properties.                                                             *)
(***************************************************************************)
\* The check fails open: it blocks a pull request only when a judge said so, and
\* it says that the criteria are met only when the judge saw the whole diff (or,
\* as a commit status, when it is neutral).
FailsOpen ==
    \A i \in DOMAIN runs :
        /\ runs[i].status = "failure" => runs[i].said = "fail"
        /\ runs[i].status = "success" /\ checks => runs[i].said = "pass" /\ runs[i].whole

\* No day has more judge calls than the budget, whatever jobs overlap or retry.
BudgetHolds == count.calls <= Budget

\* One job at a time and without failures, a commit gets one check and one
\* more for each re-run: the events of our own checks do not start another.
LoopBroken ==
    count.faults = 0 => \A s \in 1 .. MaxHead : Len(SelectSeq(runs, LAMBDA r : r.sha = s /\ checks)) <= 1 + count.reruns

\* One job at a time, the head of the pull request shows a pending check only
\* while a job works on it or waits for its retry, or after a job gave up.
PendingResolved ==
    LET shown == {i \in On(pull.head) : \A k \in On(pull.head) : k <= i} IN
    (\E i \in shown : runs[i].status = "pending") =>
        count.gaveUp > 0 \/ \E j \in Job : job[j].pc # "idle"

=============================================================================
