---------------------------- MODULE MCServices ----------------------------
(***************************************************************************)
(* The services around the pipeline, for TLC.  They share no state that    *)
(* their properties depend on, so a behaviour is one scenario: one of the  *)
(* components moves, the others stay in their initial state.               *)
(***************************************************************************)
EXTENDS Services

CONSTANT Scenarios  \* the scenarios of this run

VARIABLES
    scenario,
    push, rows, issues, github, tasks, app, exports, lock, api, count,
    clock, gh, task, ideas, sent, inbox, reconcile, fill, mark, live, changes,
    states, users, bonus, sessions, index, consumed, cookie, signin, issued, past, ended, missed, deaths,
    now, ready, nonces, redisWin, trimmed, localWin, call, passed, evicted, admitted, failures,
    ghNow, tokenCache, minted, revoked, primary, secondary, repoLock, remote, client, ghFaults, resent, early,
    pull, mode, checks, checked, debounce, spent, runs, events, reviews, reviewed,
    ghSide, deliveries, setups, tab, inst, ids, pushed, prep, confirmed, rebound, astray, used,
    row, pushLive, allowed, boardCount, card, filed, echo, held, work, unseen, gaveUp, moves,
    asks, configured, fails, attempt, tried, refused, barred, endedCall

admission == <<inflight, userLease, provLease, minute, request, queued, started, late,
               outages, crashes, cancels, slices>>
export == <<push, rows, issues, github, tasks, app, exports, lock, api, count>>
sync == <<clock, gh, task, ideas, sent, inbox, reconcile, fill, mark, live, changes>>
boards == <<deck, run, click, source, slugs, deckFaults>>
increments == <<versions, final, inc, req, idea, pushes, taskRows, opened, repo, sweeping, outcome,
               incFaults, orphans>>
spaces == <<space, create, user, purge, day, restores, lost>>
queue == <<jobs, accepted, done, dead, dropped, unqueued, up, beat, down, charged, cost, kills, jobFaults, sweeps>>
scoring == <<harness, evals, saved, judge, owner, batch, evalJob, scores, unbilled, evalFaults, again, leftover>>
accounts == <<states, users, bonus, sessions, index, consumed, cookie, signin, issued, past, ended, missed, deaths>>
edge == <<now, ready, nonces, redisWin, trimmed, localWin, call, passed, evicted, admitted, failures>>
outbound == <<ghNow, tokenCache, minted, revoked, primary, secondary, repoLock, remote, client, ghFaults,
              resent, early>>
reviewing == <<pull, mode, checks, checked, debounce, spent, runs, events, reviews, reviewed>>
connecting == <<ghSide, deliveries, setups, tab, inst, ids, pushed, prep, confirmed, rebound, astray, used>>
columns == <<row, pushLive, allowed, boardCount, card, filed, echo, held, work, unseen, gaveUp, moves>>
routing == <<asks, configured, fails, attempt, tried, refused, barred, endedCall>>
vars == <<scenario, admission, export, sync, boards, increments, spaces, queue, scoring, accounts, edge, outbound, reviewing,
          connecting, columns, routing>>

(***************************************************************************)
(* The components and their bounds.                                        *)
(***************************************************************************)
\* Two requests of one user for one slot each of the provider and the user.
OwnerOf == [r \in Requests |-> "a"]

\* Two increments that promote one idea; the model repeats a task it was shown.
Promoted == [i \in Inc |-> "d"]
Answers == [i \in Inc |-> IF i = "i" THEN {"a", "x"} ELSE {"a", "y"}]

\* A second Tasks version that replaces the only task of the first: with a
\* repository that goes away, and with two faults.
Export == INSTANCE GitHubExport WITH Task <- {"a", "b"}, TasksOf <- <<{"a"}, {"b"}>>,
    Fresh <- {"f1"}, MaxTries <- 2, MaxRequests <- 2, MaxFaults <- 1, MaxMoves <- 1,
    WithPR <- TRUE, job <- exports
Retries == INSTANCE GitHubExport WITH Task <- {"a", "b"}, TasksOf <- <<{"a"}, {"b"}>>,
    Fresh <- {"f1"}, MaxTries <- 2, MaxRequests <- 2, MaxFaults <- 2, MaxMoves <- 0,
    WithPR <- TRUE, job <- exports

\* Two issues, one of them closed by the merge of a pull request.
Sync == INSTANCE IssueSync WITH Issue <- {1, 2}, Pull <- 3, Closes <- {1}, Cap <- 2,
    MaxReplays <- 1, MaxUpdates <- 2, MaxFaults <- 1, Writers <- 1,
    job <- reconcile, count <- changes

\* A push, a webhook and a generation, one job at a time in each lane.
JobNames == [u \in Unit |-> CASE u = "p" -> "export_push" [] u = "w" -> "billing_process_webhook"
                              [] u = "g" -> "stage_generate"]

\* Two tabs that share a cookie ...
Tabs == INSTANCE Sessions WITH Tab <- {"a", "b"}, Callback <- {"c"}, StateOf <- [c \in {"c"} |-> "s"],
    MaxToken <- 3, MaxCrashes <- 0, live <- sessions, req <- signin

\* ... and three callbacks of a new user, two of them with one state.
SignUps == INSTANCE Sessions WITH Tab <- {"a"}, Callback <- {"c", "d", "e"},
    StateOf <- [c \in {"c", "d", "e"} |-> IF c = "e" THEN "t" ELSE "s"],
    MaxToken <- 2, MaxCrashes <- 1, live <- sessions, req <- signin

\* Two requests at a time, from one address.
Calls ==
    {[kind |-> k, ip |-> "i", user |-> "", nonce |-> ""] : k \in {"health", "webhook", "login", "public_view"}}
    \cup {[kind |-> k, ip |-> "i", user |-> "u", nonce |-> "n"] : k \in {"billing_checkout", "clarify"}}
TierLimit(tier) == IF tier = "ip" THEN 2 ELSE 1
TierWindow(tier) == IF tier = "user" THEN 2 ELSE 1
Edge == INSTANCE RateLimit WITH Req <- {"a", "b"}, Inputs <- Calls, LimitOf <- TierLimit, WindowOf <- TierWindow,
    Sensitive <- {"billing_checkout"}, MaxKeys <- 3, EvictBatch <- 1, MaxClock <- 1, MaxOutages <- 1

\* Two jobs that read through one installation; one job that makes every call
\* once or twice; and one that repeats a call while GitHub fails.
EveryCall == {"repo", "get", "file", "upsert", "workflow", "delete", "branch", "pull", "issue", "state",
              "milestone", "project", "board", "check", "diff", "list", "issues"}
Clients == INSTANCE GitHubClient WITH Job <- {"a", "b"}, Calls <- {"get"}, Attempts <- 2,
    MaxPages <- 1, FullPages <- 2, Threshold <- 1, Window <- 1, Cooldown <- 1, PrimaryCap <- 2, SecondaryCap <- 1,
    LockTTL <- 1, JobTimeout <- 1, MaxTime <- 2, MaxMints <- 2, MaxFaults <- 1, MaxCalls <- 1,
    now <- ghNow, cache <- tokenCache, lock <- repoLock, repo <- remote, job <- client, faults <- ghFaults
Client == INSTANCE GitHubClient WITH Job <- {"a"}, Calls <- EveryCall, Attempts <- 2,
    MaxPages <- 1, FullPages <- 2, Threshold <- 1, Window <- 1, Cooldown <- 1, PrimaryCap <- 2, SecondaryCap <- 1,
    LockTTL <- 2, JobTimeout <- 2, MaxTime <- 1, MaxMints <- 2, MaxFaults <- 1, MaxCalls <- 2,
    now <- ghNow, cache <- tokenCache, lock <- repoLock, repo <- remote, job <- client, faults <- ghFaults
Breaker == INSTANCE GitHubClient WITH Job <- {"a"}, Calls <- {"get"}, Attempts <- 2,
    MaxPages <- 1, FullPages <- 2, Threshold <- 2, Window <- 1, Cooldown <- 1, PrimaryCap <- 2, SecondaryCap <- 1,
    LockTTL <- 3, JobTimeout <- 3, MaxTime <- 3, MaxMints <- 1, MaxFaults <- 3, MaxCalls <- 4,
    now <- ghNow, cache <- tokenCache, lock <- repoLock, repo <- remote, job <- client, faults <- ghFaults

\* One check at a time on a pull request that is pushed to again, and two at once.
Review == INSTANCE PullReview WITH Job <- {"a"}, Modes <- {"auto", "manual", "off"}, Budget <- 1,
    MaxTries <- 2, MaxHead <- 2, MaxReruns <- 1, MaxEchoes <- 2, MaxFaults <- 1,
    done <- checked, inbox <- events, job <- reviews, count <- reviewed
Reviews == INSTANCE PullReview WITH Job <- {"a", "b"}, Modes <- {"auto", "manual", "off"}, Budget <- 1,
    MaxTries <- 2, MaxHead <- 1, MaxReruns <- 1, MaxEchoes <- 1, MaxFaults <- 1,
    done <- checked, inbox <- events, job <- reviews, count <- reviewed

\* Two users of one organisation, each in a browser tab of theirs.
Connect == INSTANCE Installation WITH User <- {"u", "v"}, Tab <- {"s", "t"},
    MaxStarts <- 2, MaxChanges <- 2, MaxReplays <- 1, MaxFaults <- 1,
    app <- ghSide, states <- setups

\* Two tasks, one of them under a phase; a triggered sync and two echoed ones.
Board == INSTANCE BoardSync WITH Task <- {"a", "b"}, Phased <- {"a"}, Slot <- {"e", "f"},
    MaxTries <- 2, MaxChanges <- 3, MaxFaults <- 1, live <- pushLive, boards <- boardCount

\* The providers in the order of the default priority; a request for each floor.
Easy == [regulated |-> FALSE, size |-> "short", ambiguous |-> TRUE, upstream |-> 0, ids |-> 0,
         blocked |-> FALSE, stage |-> "spec", complexTemplate |-> FALSE]
Middling == [Easy EXCEPT !.regulated = TRUE]
Hard == [regulated |-> TRUE, size |-> "very_long", ambiguous |-> TRUE, upstream |-> 3, ids |-> 30,
         blocked |-> FALSE, stage |-> "tasks", complexTemplate |-> TRUE]
Routes == INSTANCE ModelRouting WITH Priority <- <<"anthropic", "openai", "google">>,
    Signals <- {Easy, Middling, Hard}, Threshold <- 1, MaxFailures <- 6, final <- endedCall

\* What the proofs assume of the constants holds of these.
ASSUME ServicesAssumption ==
    /\ Admit!AdmissionAssumption /\ Spaces!WorkspacesAssumption
    /\ Grow!IncrementsAssumption /\ Jobs!JobsAssumption

(***************************************************************************)
(* A behaviour stays in the scenario it starts in.                         *)
(***************************************************************************)
Init ==
    /\ scenario \in Scenarios
    /\ Admit!Init /\ Export!Init /\ Sync!Init /\ Boards!Init /\ Grow!Init /\ Spaces!Init
    /\ Jobs!Init /\ Evals!Init /\ Edge!Init
    /\ IF scenario = "signups" THEN SignUps!Init ELSE Tabs!Init
    /\ IF scenario = "clients" THEN Clients!Init ELSE Client!Init
    /\ IF scenario \in {"review", "reviews"} THEN TRUE
       ELSE mode = "off" /\ checks = TRUE /\ pull = [head |-> 1, task |-> TRUE, cut |-> TRUE]
    /\ IF scenario = "review" THEN Review!Init ELSE Reviews!Init
    /\ Connect!Init
    /\ IF scenario = "columns" THEN TRUE ELSE allowed = TRUE
    /\ Board!Init
    /\ IF scenario = "routes" THEN TRUE
       ELSE /\ configured = {}
            /\ asks = CHOOSE r \in Routes!Asked : TRUE
    /\ Routes!Init

\* Only the component of the scenario moves.
In(s) ==
    /\ scenario = s /\ UNCHANGED scenario
    /\ IF s = "admission" THEN TRUE ELSE UNCHANGED admission
    /\ IF s \in {"export", "retries"} THEN TRUE ELSE UNCHANGED export
    /\ IF s = "sync" THEN TRUE ELSE UNCHANGED sync
    /\ IF s = "boards" THEN TRUE ELSE UNCHANGED boards
    /\ IF s = "increments" THEN TRUE ELSE UNCHANGED increments
    /\ IF s = "spaces" THEN TRUE ELSE UNCHANGED spaces
    /\ IF s = "jobs" THEN TRUE ELSE UNCHANGED queue
    /\ IF s = "evals" THEN TRUE ELSE UNCHANGED scoring
    /\ IF s \in {"tabs", "signups"} THEN TRUE ELSE UNCHANGED accounts
    /\ IF s = "edge" THEN TRUE ELSE UNCHANGED edge
    /\ IF s \in {"clients", "calls", "breaker"} THEN TRUE ELSE UNCHANGED outbound
    /\ IF s \in {"review", "reviews"} THEN TRUE ELSE UNCHANGED reviewing
    /\ IF s = "connect" THEN TRUE ELSE UNCHANGED connecting
    /\ IF s = "columns" THEN TRUE ELSE UNCHANGED columns
    /\ IF s = "routes" THEN TRUE ELSE UNCHANGED routing

Next ==
    \/ In("admission") /\ Admit!Next
    \/ In("export") /\ Export!Next
    \/ In("retries") /\ Retries!Next
    \/ In("sync") /\ Sync!Next
    \/ In("boards") /\ Boards!Next
    \/ In("increments") /\ Grow!Next
    \/ In("spaces") /\ Spaces!Next
    \/ In("jobs") /\ Jobs!Next
    \/ In("evals") /\ Evals!Next
    \/ In("tabs") /\ Tabs!Next
    \/ In("signups") /\ SignUps!Next
    \/ In("edge") /\ Edge!Next
    \/ In("clients") /\ Clients!Next
    \/ In("calls") /\ Client!Next
    \/ In("breaker") /\ Breaker!Next
    \/ In("review") /\ Review!Next
    \/ In("reviews") /\ Reviews!Next
    \/ In("connect") /\ Connect!Next
    \/ In("columns") /\ Board!Next
    \/ In("routes") /\ Routes!Next

Spec == Init /\ [][Next]_vars

(***************************************************************************)
(* Properties.                                                             *)
(***************************************************************************)
\* An open issue is named by a task row, is being recorded right now, or was
\* orphaned by a worker that stopped between GitHub's answer and the commit:
\* exports and resyncs that overlap, are throttled or retried add no other,
\* and an increment opens each task's issue once.  A completed push shows
\* exactly the tasks of the version that it says it was made from
\* (_sync_issues, retire_obsolete_task_issues, _sync_increment_issues).  The
\* repository has one project board (ensure_project_v2).
IssuesRecorded ==
    CASE scenario = "export"     -> Export!IssuesRecorded /\ Export!SourceShown
      [] scenario = "retries"    -> Retries!IssuesRecorded /\ Retries!SourceShown
      [] scenario = "increments" -> Grow!IssuesRecorded
      [] scenario = "columns"    -> Board!OneBoard
      [] OTHER -> TRUE

\* A sweep repairs what lost, repeated or reordered deliveries left wrong:
\* behind its watermark every task agrees with its issue, also when the
\* listing was cut at its cap (_run_backfill, _resolved_watermark).  The board
\* of a quiet repository shows the task rows as last read (_sync_board).
InSync ==
    CASE scenario = "sync"    -> Sync!InSync
      [] scenario = "columns" -> Board!BoardFollows
      [] OTHER -> TRUE

\* A call goes to the first provider that can take it, at the tier that was
\* paid for, and a generation gives up only when every provider was tried or
\* out of service (resolve_platform_route_by_provider, _runtime_fallback_route).
RoutedAsPaid ==
    scenario = "routes" =>
        /\ Routes!StaysWithFirst /\ Routes!EveryProviderTried /\ Routes!PaidForTier /\ Routes!JudgeServed
        /\ tried = {} =>  \* the tables, once for each request
              Routes!DemoNotWeaker /\ Routes!BlockedNotLower /\ Routes!CatalogValid

\* One person signs up once, is signed out everywhere only for a cause, and
\* has no session that a revocation misses; no window of the edge lets more
\* pass than its limit, none is skipped when Redis fails, and a CSRF nonce
\* admits one request (refresh_tokens, sliding_window_check, dispatch).  Towards
\* GitHub, a refused token is not sent again, one job at a time writes under the
\* lock, a rate limit requeues the job and nothing else, a call that says done
\* is true, and a failing GitHub gets one trial per cooldown (_send, observe).
\* A check on a pull request blocks only when its judge said so, keeps to its
\* budget, is not started by its own echo and does not stay pending
\* (_drive_pr_check).  An installation belongs to a user GitHub confirmed, says
\* what GitHub says of it, and strands no push when it comes and goes
\* (upsert_installation, revoke_installation, apply_installation_event).
EdgeHolds ==
    CASE scenario = "tabs"    -> Tabs!SignedUpOnce /\ Tabs!SignedOutForCause /\ Tabs!SessionsTracked
      [] scenario = "signups" -> SignUps!SignedUpOnce /\ SignUps!SessionsTracked
      [] scenario = "edge"    -> Edge!WithinLimit /\ Edge!CheckedInFull /\ Edge!NonceOnce
      [] scenario = "clients" -> Clients!RetryIsFresh /\ Clients!OneWriter
      [] scenario = "calls"   -> Client!LimitsRequeue /\ Client!DoneIsReal
      [] scenario = "breaker" -> Breaker!TrialsSpaced
      [] scenario = "review"  -> /\ Review!FailsOpen /\ Review!BudgetHolds
                                 /\ Review!LoopBroken /\ Review!PendingResolved
      [] scenario = "reviews" -> Reviews!FailsOpen /\ Reviews!BudgetHolds
      [] scenario = "connect" -> /\ Connect!BoundConfirmed /\ Connect!NoneStranded
                                 /\ Connect!OwnRow /\ Connect!RowFollows
      [] OTHER -> TRUE

\* The purge deletes only workspaces that are in the trash and expired
\* (purge_trashed_workspaces).
OnlyTrashPurged == Spaces!OnlyTrashPurged

=============================================================================
