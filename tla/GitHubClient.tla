---------------------------- MODULE GitHubClient ----------------------------
(***************************************************************************)
(* How a job talks to GitHub (services/integrations/github_api_client.py,  *)
(* github_governor.py, github_app_auth.py).  Each worker job builds its    *)
(* own client with its own circuit breaker; the installation token, the    *)
(* request budgets and the lock on the repository are in Redis, shared by  *)
(* all of them.  A call is one method of the client; it sends one or more  *)
(* requests, and its handler decides from each reply what happens next.    *)
(*                                                                         *)
(* Replies of GitHub: "ok", "bad" (2xx without the expected field),        *)
(* "missing" (404, or a list without a match), "exists" (422, already      *)
(* exists), "invalid" (422), "conflict" (409), "forbidden" (403, no        *)
(* permission), "limited" (429, or a 403 that is a rate limit), "down"     *)
(* (5xx), "errors" (a GraphQL 200 with errors), "401", and "lost" (no      *)
(* reply).  What GitHub answers is external; a reply can be late, and a    *)
(* lost one may have taken effect.                                         *)
(***************************************************************************)
EXTENDS Integers, FiniteSets

CONSTANTS
    Job,            \* worker jobs of one installation
    Calls,          \* the methods that they call
    Attempts,       \* _UPSERT_MAX_ATTEMPTS
    MaxPages,       \* pages that a listing reads at most ...
    FullPages,      \* ... and the full pages that GitHub holds
    Threshold,      \* failures that open the breaker ...
    Window,         \* ... within this time
    Cooldown,       \* how long it stays open
    PrimaryCap,     \* capacity of the budget of requests, refilled in one tick
    SecondaryCap,   \* capacity of the budget of writes, refilled in one tick
    LockTTL,        \* _REPO_LOCK_TTL_SECONDS
    JobTimeout,     \* the worker's job_timeout
    MaxTime, MaxMints, MaxFaults, MaxCalls      \* bounds

VARIABLES
    now,        \* time
    cache,      \* the cached installation token, 0 when there is none
    minted,     \* tokens minted so far
    revoked,    \* the ones GitHub no longer accepts
    primary, secondary,     \* the buckets: tokens and the time of the last refill
    lock,       \* the lock on the repository: owner and expiry
    repo,       \* what the repository holds: version of the file, pull request, milestone
    job,        \* the jobs
    faults,     \* failures so far
    resent,     \* history: a retry carried the token that was just refused
    early       \* history: a client whose breaker had opened sent again before the cooldown

vars == <<now, cache, minted, revoked, primary, secondary, lock, repo, job, faults, resent, early>>

None == "none"
Min2(a, b) == IF a < b THEN a ELSE b

(***************************************************************************)
(* The circuit breaker of one client.                                      *)
(***************************************************************************)
NewBreaker == [failures |-> 0, start |-> -1, until |-> -1, half |-> FALSE]

\* before_request: it lets a request pass when it is closed or has cooled down.
Blocked(b) == b.until >= 0 /\ now < b.until
BeforeRequest(b) == IF b.until < 0 THEN b ELSE [b EXCEPT !.until = -1, !.half = TRUE]

RecordFailure(b) ==
    IF b.half THEN [b EXCEPT !.half = FALSE, !.until = now + Cooldown, !.failures = 0]
    ELSE LET fresh == b.start < 0 \/ now - b.start > Window
             n == IF fresh THEN 1 ELSE b.failures + 1
             s == IF fresh THEN now ELSE b.start
         IN  IF n >= Threshold
             THEN [b EXCEPT !.start = s, !.until = now + Cooldown, !.failures = 0]
             ELSE [b EXCEPT !.start = s, !.failures = n]

(***************************************************************************)
(* The budgets.                                                            *)
(***************************************************************************)
\* The Lua script refills by the elapsed time and takes one token.
Tokens(b, cap) == Min2(cap, b.tokens + (now - b.ts) * cap)
Taken(b, cap) ==
    LET t == Tokens(b, cap) IN [tokens |-> IF t >= 1 THEN t - 1 ELSE t, ts |-> now]

(***************************************************************************)
(* Calls: the first request of each, whether a request writes, and what    *)
(* the method does with a reply.  A result names the next request or how   *)
(* the call ends.                                                          *)
(***************************************************************************)
Go(step) == [step |-> step, out |-> None]
End(out) == [step |-> None, out |-> out]

\* _raise_for_status
Raise(r) == End(IF r = "limited" THEN "rate_limit" ELSE "error")

\* create_repo, create_org_repo
HandleRepoCreate(r) ==
    CASE r \in {"ok", "bad"} -> End("done") [] r = "exists" -> End("taken")
      [] r = "forbidden" -> End("permission") [] OTHER -> Raise(r)

\* get_repo, and get_pull_request, get_pull_request_diff: anything but 200 is a miss.
HandleGet(r) == End(IF r = "ok" THEN "done" ELSE "nothing")
HandlePull(r) == HandleGet(r)

\* get_file_content, get_file_sha
HandleRead(r) ==
    CASE r = "ok" -> End("done") [] r = "missing" -> End("nothing") [] OTHER -> Raise(r)

\* list_installation_repositories: a short page or the total ends it, and the
\* caller learns when the cap did.
HandleList(page, r) ==
    CASE r = "missing" -> End("done")
      [] r = "ok" -> IF page >= FullPages THEN End("done")
                     ELSE IF page < MaxPages THEN Go("page") ELSE End("truncated")
      [] OTHER -> Raise(r)
\* list_issues: the cap is silent.
HandleListIssues(page, r) ==
    CASE r \in {"missing", "bad"} -> End("done")
      [] r = "ok" -> IF page < MaxPages THEN Go("page") ELSE End("done")
      [] OTHER -> Raise(r)

\* upsert_file: a stale sha is read again on the same branch, a bounded number
\* of times; a 403 on a workflow file is a permission of its own.
HandleUpsert(c, step, att, r) ==
    IF step = "sha" THEN IF r \in {"ok", "missing"} THEN Go("put") ELSE Raise(r)
    ELSE CASE r \in {"ok", "bad"} -> End("done")
           [] r \in {"forbidden", "limited"} /\ c = "workflow" -> End("permission")
           [] r = "conflict" /\ att < Attempts -> Go("sha")
           [] OTHER -> Raise(r)

\* delete_file: a file that is gone is success.
HandleDelete(step, att, r) ==
    IF step = "sha"
    THEN CASE r = "ok" -> Go("delete") [] r = "missing" -> End("done") [] OTHER -> Raise(r)
    ELSE CASE r \in {"ok", "bad", "missing"} -> End("done")
           [] r = "conflict" /\ att < Attempts -> Go("sha")
           [] OTHER -> Raise(r)

\* get_ref and create_branch: a branch that is already there is success.
HandleBranch(step, r) ==
    IF step = "ref" THEN IF r = "ok" THEN Go("branch") ELSE Raise(r)
    ELSE IF r \in {"ok", "bad", "exists"} THEN End("done") ELSE Raise(r)

\* create_pull_request: a 422 looks for the open one; find_open_pull_number
\* takes any failure for a miss.
HandleCreatePull(step, r) ==
    IF step = "find" THEN End(IF r = "ok" THEN "done" ELSE "error")
    ELSE CASE r = "ok" -> End("done")
           [] r \in {"exists", "invalid"} -> Go("find")
           [] OTHER -> Raise(r)

\* create_issue, update_issue, add_issue_comment, close_issue, set_issue_milestone
HandleIssue(r) == IF r = "ok" THEN End("done") ELSE Raise(r)
\* get_issue_state
HandleState(r) ==
    CASE r = "ok" -> End("done") [] r \in {"missing", "bad"} -> End("nothing") [] OTHER -> Raise(r)

\* ensure_milestone with _find_milestone_number: look, create, and look again
\* when another client created it; it never raises on a status.
HandleMilestone(step, r) ==
    CASE step = "look" -> IF r = "ok" THEN End("done") ELSE Go("create")
      [] step = "create" -> (CASE r = "ok" -> End("done")
                               [] r \in {"exists", "invalid"} -> Go("again")
                               [] OTHER -> End("nothing"))
      [] step = "again" -> End(IF r = "ok" THEN "done" ELSE "nothing")

\* graphql: a 200 may carry errors, among them a missing permission.
HandleGraphQL(r) ==
    CASE r = "ok" -> End("done") [] r = "forbidden" -> End("permission")
      [] r \in {"errors", "bad"} -> End("error") [] OTHER -> Raise(r)

\* ensure_project_v2 with _find_project_v2_id: look, then create.
HandleProject(step, r) ==
    IF step = "look" /\ r = "missing" THEN Go("board") ELSE HandleGraphQL(r)

\* get_project_v2_status_field, add_project_v2_item, set_project_v2_item_status:
\* data without the node that was asked for is a miss.
HandleBoard(r) == IF r = "bad" THEN End("nothing") ELSE HandleGraphQL(r)

\* post_check_run, update_check_run: without the permission, the commit status.
HandleCheck(step, r) ==
    CASE r = "ok" -> End("done") [] r = "bad" -> End(IF step = "check" THEN "nothing" ELSE "done")
      [] r = "forbidden" /\ step = "check" -> Go("status") [] OTHER -> Raise(r)

\* The call's method.
First(c) ==
    CASE c \in {"upsert", "workflow", "delete"} -> "sha" [] c = "branch" -> "ref"
      [] c = "pull" -> "create" [] c \in {"milestone", "project"} -> "look"
      [] c = "check" -> "check" [] c \in {"list", "issues"} -> "page" [] c \in {"repo", "issue"} -> "post" [] OTHER -> "get"
Handle(c, step, att, r) ==
    CASE c = "repo" -> HandleRepoCreate(r) [] c = "get" -> HandleGet(r)
      [] c = "file" -> HandleRead(r) [] c \in {"upsert", "workflow"} -> HandleUpsert(c, step, att, r)
      [] c = "delete" -> HandleDelete(step, att, r) [] c = "branch" -> HandleBranch(step, r)
      [] c = "pull" -> HandleCreatePull(step, r) [] c = "issue" -> HandleIssue(r)
      [] c = "state" -> HandleState(r) [] c = "milestone" -> HandleMilestone(step, r)
      [] c = "project" -> HandleProject(step, r) [] c = "check" -> HandleCheck(step, r)
      [] c = "board" -> HandleBoard(r)
      [] c = "diff" -> HandlePull(r) [] c = "list" -> HandleList(att, r)
      [] c = "issues" -> HandleListIssues(att, r)

\* _is_write_method: every GraphQL request is a post.
Writes(c, step) ==
    \/ step \in {"put", "delete", "branch", "create", "post", "check", "status", "board"}
    \/ c \in {"project", "board"}

(***************************************************************************)
(* GitHub (external): the reply to a request with a valid token.           *)
(***************************************************************************)
\* What the repository says when nothing fails.
Natural(c, step, sha, att) ==
    CASE step = "page" -> IF att <= FullPages THEN "ok" ELSE "missing"
      [] step = "sha" -> IF repo.sha = 0 THEN "missing" ELSE "ok"
      [] step = "put" -> IF sha = repo.sha THEN "ok" ELSE "conflict"
      [] step = "delete" -> IF repo.sha = 0 THEN "missing" ELSE IF sha = repo.sha THEN "ok" ELSE "conflict"
      [] step = "create" -> IF c \in repo.made THEN "exists" ELSE "ok"
      [] step \in {"find", "look", "again"} -> IF c \in repo.made THEN "ok" ELSE "missing"
      [] step = "branch" -> IF c \in repo.made THEN "exists" ELSE "ok"
      [] step = "post" -> IF c = "repo" /\ c \in repo.made THEN "exists" ELSE "ok"
      [] OTHER -> "ok"
\* What a request that GitHub carried out changed.
Effect(c, step) ==
    CASE step = "put" -> [repo EXCEPT !.sha = @ + 1]
      [] step = "delete" -> [repo EXCEPT !.sha = 0]
      [] step \in {"create", "branch", "board", "post"} -> [repo EXCEPT !.made = @ \cup {c}]
      [] OTHER -> repo
Failures(c) == {"forbidden", "limited", "down", IF c \in {"project", "board"} THEN "errors" ELSE "invalid"}

(***************************************************************************)
(* Jobs.                                                                   *)
(***************************************************************************)
Idle == [pc |-> "idle", call |-> None, step |-> None, att |-> 1, tok |-> 0, refused |-> 0,
         kept |-> FALSE, reply |-> None, sha |-> 0, holds |-> FALSE, since |-> 0, calls |-> 0,
         tripped |-> -1, breaker |-> NewBreaker, out |-> None, cause |-> None]

Init ==
    /\ now = 0 /\ cache = 0 /\ minted = 0 /\ revoked = {}
    /\ primary = [tokens |-> PrimaryCap, ts |-> 0]
    /\ secondary = [tokens |-> SecondaryCap, ts |-> 0]
    /\ lock = [owner |-> None, until |-> 0]
    /\ repo = [sha |-> 1, made |-> {}]
    /\ job = [j \in Job |-> Idle] /\ faults = 0 /\ resent = FALSE /\ early = FALSE

Set(j, r) == job' = [job EXCEPT ![j] = r]
budgets == <<primary, secondary>>
tokens == <<cache, minted, revoked>>
history == <<resent, early>>

\* The call ends; its caller goes on or gives up, a throttled job is requeued.
Ended(base, out, why) ==
    [base EXCEPT !.pc = IF out = "throttled" THEN "unlock" ELSE "idle",
                 !.out = out, !.cause = why, !.reply = None, !.tok = 0, !.sha = 0, !.refused = 0, !.kept = FALSE]

\* repo_write_lock, _acquire_repo_lock: SET NX wins, or Redis fails and the
\* job goes on without it, or it stays contended and the job is requeued.
\* (The job began before it took the lock, so the lock expires after the job.)
LockFree == lock.owner = None \/ now > lock.until
Contend(j) ==
    /\ job[j].pc = "idle" /\ job[j].calls = 0 /\ ~job[j].holds
    /\ \/ LockFree /\ lock' = [owner |-> j, until |-> now + LockTTL] /\ UNCHANGED faults
          /\ Set(j, [job[j] EXCEPT !.pc = "locked", !.holds = TRUE, !.since = now])
       \/ faults < MaxFaults /\ faults' = faults + 1 /\ UNCHANGED lock
          /\ Set(j, [job[j] EXCEPT !.pc = "locked", !.since = now])
       \/ ~LockFree /\ UNCHANGED <<lock, faults>>
          /\ Set(j, [job[j] EXCEPT !.pc = "over", !.out = "throttled", !.cause = "lock"])
    /\ UNCHANGED <<now, tokens, budgets, repo, history>>

\* A method of the client starts.
Call(j, c) ==
    /\ job[j].pc \in {"locked", "idle"} /\ job[j].calls < MaxCalls
    /\ job[j].pc = "idle" => job[j].calls > 0
    /\ Set(j, [job[j] EXCEPT !.pc = "ready", !.call = c, !.step = First(c), !.att = 1,
                             !.calls = @ + 1, !.refused = 0, !.out = None, !.cause = None])
    /\ UNCHANGED <<now, tokens, budgets, lock, repo, faults, history>>

\* _send begins: the breaker, then the budgets; a denied request spends nothing
\* of the primary budget.  acquire fails open when Redis does.
Acquire(j) ==
    LET w == Writes(job[j].call, job[j].step) IN
    /\ job[j].pc = "ready"
    /\ UNCHANGED <<now, tokens, lock, repo, history>>
    /\ \/ /\ Blocked(job[j].breaker)
          /\ Set(j, Ended(job[j], "unavailable", None)) /\ UNCHANGED <<budgets, faults>>
       \/ /\ ~Blocked(job[j].breaker)
          /\ LET b == BeforeRequest(job[j].breaker)
                 ready == [job[j] EXCEPT !.pc = "token", !.breaker = b]
                 denied == Ended([job[j] EXCEPT !.breaker = b], "throttled", "budget")
             IN  \/ faults < MaxFaults /\ faults' = faults + 1 /\ Set(j, ready)
                    /\ UNCHANGED budgets
                 \/ /\ UNCHANGED faults
                    /\ secondary' = IF w THEN Taken(secondary, SecondaryCap) ELSE secondary
                    /\ IF w /\ Tokens(secondary, SecondaryCap) < 1
                       THEN Set(j, denied) /\ UNCHANGED primary
                       ELSE /\ primary' = Taken(primary, PrimaryCap)
                            /\ Set(j, IF Tokens(primary, PrimaryCap) < 1 THEN denied ELSE ready)

\* TokenProvider.get, for the request or (after a 401) for refresh: a cached
\* token, or a new one that is stored afterwards; minting may be refused.
Resolved(j, t) == [job[j] EXCEPT !.pc = IF @ = "refresh" THEN "ready" ELSE "send", !.tok = t]
Token(j) ==
    /\ job[j].pc \in {"token", "refresh"}
    /\ \/ cache # 0 /\ Set(j, Resolved(j, cache)) /\ UNCHANGED <<minted, faults>>
       \/ cache = 0 /\ minted < MaxMints /\ minted' = minted + 1 /\ UNCHANGED faults
          /\ Set(j, [job[j] EXCEPT !.pc = IF @ = "refresh" THEN "restore" ELSE "store", !.tok = minted + 1])
       \/ cache = 0 /\ faults < MaxFaults /\ faults' = faults + 1 /\ UNCHANGED minted
          /\ Set(j, Ended(job[j], "auth", None))
    /\ UNCHANGED <<now, cache, revoked, budgets, lock, repo, history>>
StoreToken(j) ==
    /\ job[j].pc \in {"store", "restore"}
    /\ \/ cache' = job[j].tok /\ UNCHANGED faults
       \/ faults < MaxFaults /\ faults' = faults + 1 /\ UNCHANGED cache
    /\ Set(j, [job[j] EXCEPT !.pc = IF @ = "restore" THEN "ready" ELSE "send"])
    /\ UNCHANGED <<now, minted, revoked, budgets, lock, repo, history>>

\* GitHub serves the request; the reply is on its way.
Serve(j) ==
    /\ job[j].pc = "send"
    /\ LET c == job[j].call  s == job[j].step
           got(r) == Set(j, [job[j] EXCEPT !.pc = "reply", !.reply = r,
                                           !.sha = IF s = "sha" /\ r \in {"ok", "missing"} THEN repo.sha ELSE @])
       IN  \/ job[j].tok \in revoked /\ got("401") /\ UNCHANGED <<repo, faults>>
           \/ job[j].tok \notin revoked /\ got(Natural(c, s, job[j].sha, job[j].att)) /\ UNCHANGED faults
              /\ repo' = (IF Natural(c, s, job[j].sha, job[j].att) = "ok" THEN Effect(c, s) ELSE repo)
           \/ job[j].tok \notin revoked /\ faults < MaxFaults /\ faults' = faults + 1
              /\ \/ UNCHANGED repo /\ \E r \in Failures(c) \cup {"lost"} : got(r)
                 \/ /\ Natural(c, s, job[j].sha, job[j].att) = "ok" /\ repo' = Effect(c, s)
                    /\ \E r \in {"bad", "lost"} : got(r)
    /\ resent' = (resent \/ (job[j].refused = job[j].tok /\ ~job[j].kept))
    /\ early' = (early \/ (job[j].tripped >= 0 /\ now < job[j].tripped + Cooldown))
    /\ UNCHANGED <<now, tokens, budgets, lock>>

\* The rest of _send, and the method's handler.  A 401 re-mints once; a rate
\* limit empties its budget and requeues the job before the breaker counts
\* anything; a healthy reply sets the primary budget to what GitHub reports.
Success(j) == [job[j] EXCEPT !.breaker = NewBreaker, !.tripped = -1]
Failed(j) == LET b == RecordFailure(job[j].breaker) IN
    [job[j] EXCEPT !.breaker = b, !.tripped = IF @ >= 0 \/ b.until >= 0 THEN now ELSE -1]
Handled(j, r, base) ==
    LET h == Handle(base.call, base.step, base.att, r) IN
    IF h.out # None THEN Ended(base, h.out, r)
    ELSE [base EXCEPT !.pc = "ready", !.step = h.step, !.reply = None, !.refused = 0,
                      !.att = IF r = "conflict" \/ h.step = "page" THEN @ + 1 ELSE @]
Observe(j) ==
    /\ \/ primary' = [tokens |-> 0, ts |-> now] /\ UNCHANGED secondary
       \/ secondary' = [tokens |-> 0, ts |-> now] /\ UNCHANGED primary
    /\ Set(j, Ended(job[j], "throttled", "limited"))
Receive(j) ==
    LET r == job[j].reply IN
    /\ job[j].pc = "reply"
    /\ \/ /\ r = "lost" /\ UNCHANGED budgets
          /\ Set(j, Ended(Failed(j), "error", r))
       \/ /\ r = "401" /\ UNCHANGED budgets
          /\ Set(j, IF job[j].refused = 0
                    THEN [Success(j) EXCEPT !.pc = "drop", !.reply = None, !.refused = job[j].tok]
                    ELSE Ended(Success(j), "expired", r))
       \/ r = "limited" /\ Observe(j)
       \/ /\ r \notin {"lost", "401", "limited"}
          /\ \E n \in 0 .. PrimaryCap : primary' = [tokens |-> n, ts |-> now]
          /\ UNCHANGED secondary
          /\ Set(j, Handled(j, r, IF r = "down" THEN Failed(j) ELSE Success(j)))
    /\ UNCHANGED <<now, tokens, lock, repo, faults, history>>

\* refresh: the cached token is dropped (best effort), then get.
Refresh(j) ==
    /\ job[j].pc = "drop"
    /\ \/ cache' = 0 /\ Set(j, [job[j] EXCEPT !.pc = "refresh", !.kept = FALSE]) /\ UNCHANGED faults
       \/ faults < MaxFaults /\ faults' = faults + 1 /\ UNCHANGED cache
          /\ Set(j, [job[j] EXCEPT !.pc = "refresh", !.kept = TRUE])
    /\ UNCHANGED <<now, minted, revoked, budgets, lock, repo, history>>

\* _release_repo_lock: compare and delete.
Release(j) == lock' = IF job[j].holds /\ lock.owner = j THEN [owner |-> None, until |-> 0] ELSE lock
Leave(j) ==
    /\ job[j].pc = "unlock" \/ (job[j].pc = "idle" /\ job[j].calls > 0)
    /\ Release(j)
    /\ Set(j, [Idle EXCEPT !.pc = "over", !.out = job[j].out, !.cause = job[j].cause])
    /\ UNCHANGED <<now, tokens, budgets, repo, faults, history>>

\* The worker's job_timeout cancels the job (its lock is released on the way
\* out), or its process is lost and the lock waits for its expiry.
Running(j) == job[j].pc \notin {"idle", "over"} \/ (job[j].calls > 0 /\ job[j].pc = "idle")
Cancel(j) ==
    /\ Running(j) /\ job[j].pc # "unlock" /\ now - job[j].since >= JobTimeout
    /\ Set(j, [job[j] EXCEPT !.pc = "unlock", !.out = "cancelled", !.reply = None])
    /\ UNCHANGED <<now, tokens, budgets, lock, repo, faults, history>>
Crash(j) ==
    /\ Running(j) /\ faults < MaxFaults /\ faults' = faults + 1
    /\ Set(j, [Idle EXCEPT !.pc = "over", !.out = "cancelled"])
    /\ UNCHANGED <<now, tokens, budgets, lock, repo, history>>

\* Time passes, but not past the moment at which a running job is cancelled.
Tick ==
    /\ now < MaxTime /\ now' = now + 1
    /\ \A j \in Job : Running(j) => now - job[j].since < JobTimeout
    /\ UNCHANGED <<tokens, budgets, lock, repo, job, faults, history>>

\* GitHub rotates the token, or the entry of the cache expires.
Revoke ==
    /\ \E t \in (1 .. minted) \ revoked : revoked' = revoked \cup {t}
    /\ faults < MaxFaults /\ faults' = faults + 1
    /\ UNCHANGED <<now, cache, minted, budgets, lock, repo, job, history>>
CacheExpires ==
    /\ cache # 0 /\ cache' = 0 /\ faults < MaxFaults /\ faults' = faults + 1
    /\ UNCHANGED <<now, minted, revoked, budgets, lock, repo, job, history>>

Next ==
    \/ \E j \in Job : Contend(j) \/ Acquire(j) \/ Token(j) \/ StoreToken(j) \/ Serve(j)
                      \/ Receive(j) \/ Refresh(j) \/ Leave(j) \/ Cancel(j) \/ Crash(j)
    \/ \E j \in Job, c \in Calls : Call(j, c)
    \/ Tick \/ Revoke \/ CacheExpires

(***************************************************************************)
(* Properties.                                                             *)
(***************************************************************************)
\* The retry after a 401 never carries the token that GitHub has just refused
\* unless Redis failed to drop it: also when another job minted and cached it.
RetryIsFresh == ~resent

\* Two jobs write to the repository under its lock only one after the other:
\* the lock outlives the job that holds it.
OneWriter == \A i, j \in Job : i # j => ~(job[i].holds /\ job[j].holds)

\* GitHub's rate limit requeues the job: it is never taken for a missing
\* permission, an outage or an error, and never counts against the breaker.
LimitsRequeue ==
    \A j \in Job : (job[j].cause = "limited" => job[j].out = "throttled")
                   /\ (job[j].out = "permission" => job[j].cause \in {"forbidden"})

\* Once its breaker has opened, a client waits for the cooldown after every
\* failure until one of its trial requests succeeds.
TrialsSpaced == ~early

\* A call that says done found or made what it was asked for, and a listing
\* that does not say it was cut holds everything.
DoneIsReal ==
    \A j \in Job : job[j].out = "done" =>
        /\ job[j].call \in {"repo", "branch", "pull", "milestone", "project", "issue"} => job[j].call \in repo.made
        /\ job[j].call = "list" => job[j].att >= FullPages

=============================================================================
